-------------------------- MODULE ContainersProofs --------------------------
(***************************************************************************)
(* Proofs about the containers: RingQueue, ArraySet and OrderedSet.        *)
(***************************************************************************)
EXTENDS RingQueue, ArraySet, OrderedSet, SelectionProofs, FiniteSetTheorems, TLAPS

-----------------------------------------------------------------------------
(* RingQueue, for every capacity and any number of producers, consumers,   *)
(* removers and readers, as long as no Remove deletes the element in the   *)
(* node r.r: the two indices delimit exactly the occupied nodes, the ring  *)
(* is a first-in first-out queue from which Remove deletes exactly what it *)
(* should.  What Get and Len conclude from their unlocked loads is true    *)
(* unless another client's Get or Remove overlaps the call.                *)

Elems == Values \cup {Nil}
Places == {"idle", "wrapping", "removing", "panicked"} \cup InCall

\* The node of the i-th element.
NodeOf(i) == IF start + i <= max THEN start + i ELSE start + i - max

ShapeInv ==
  /\ ring \in Seq(Elems) /\ Len(ring) = max
  /\ start \in 0 .. N /\ end \in 0 .. N
  /\ mux \in Removers \cup {Free}
  /\ pc \in [Clients -> Places]
  /\ loc \in [Clients -> 0 .. max]
  /\ mux # Free => pc[mux] = "removing"

\* Inside Remove too, exactly the nodes from start to end hold an element.
Occupied ==
  \A i \in 0 .. N :
    ring[i + 1] # Nil <=>
      IF start <= end THEN start <= i /\ i < end ELSE i < end \/ start <= i

\* The loop of Remove: the local end node is the one at end, the element in
\* r.r stays, and where the elements wrap around isPrev says that the loop has
\* passed the wrap.
LoopShape ==
  /\ rem \in [todo : Seq(Values), cur : 0 .. N, last : 0 .. N, isPrev : BOOLEAN,
              del : SUBSET Values, before : Seq(Values)]
  /\ rem.last = end /\ ring[1] \notin rem.del
  /\ Len(rem.before) <= N
  /\ start > end => (rem.isPrev <=> 0 < rem.cur /\ rem.cur <= end)

\* The number of elements the loop has passed, and of those it has kept.
PassedCount == Len(rem.before) - Len(rem.todo)
KeptCount == LenOf(start, end) - Len(rem.todo)

\* The queue is what has been kept, followed by what is still to do; the node
\* of the loop is the first of the latter.
LoopPlace ==
  /\ PassedCount \in Nat /\ KeptCount \in Nat
  /\ rem.cur = NodeOf(KeptCount + 1) - 1
  /\ \A j \in 1 .. Len(rem.todo) : /\ rem.todo[j] = ring[NodeOf(KeptCount + j)]
                                   /\ rem.todo[j] = rem.before[PassedCount + j]
  /\ LET kept == Selected(rem.before, Values \ rem.del)[PassedCount]
     IN  Len(kept) = KeptCount /\ \A i \in 1 .. KeptCount : kept[i] = ring[NodeOf(i)]

Sound == ShapeInv /\ Occupied

RInv ==
  /\ Sound
  /\ mux = Free => rem = NoRemove
  /\ mux # Free => LoopShape /\ LoopPlace

\* The contents are a sequence of elements, as long as Len says.
ContentsOK ==
  /\ Contents \in Seq(Values)
  /\ Len(Contents) = LenOf(start, end)
  /\ LenOf(start, end) \in 0 .. N
  /\ \A i \in 1 .. LenOf(start, end) :
       Contents[i] = ring[IF start + i <= max THEN start + i ELSE start + i - max]

\* The walk from start to end meets LenOf(start, end) elements.
LEMMA ContentsSeq == Sound => ContentsOK
<1> SUFFICES ASSUME Sound PROVE ContentsOK
  OBVIOUS
<1> DEFINE n == LenOf(start, end)
           pos(i) == IF start + i <= max THEN start + i ELSE start + i - max
<1>1. n \in 0 .. N
  BY QueueAssumption DEF Sound, ShapeInv, LenOf, max
<1>2. ASSUME NEW i \in 1 .. n PROVE ring[pos(i)] \in Values
  <2>1. pos(i) - 1 \in 0 .. N
    BY <1>1, QueueAssumption DEF Sound, ShapeInv, max
  <2>2. IF start <= end THEN start <= pos(i) - 1 /\ pos(i) - 1 < end
                        ELSE pos(i) - 1 < end \/ start <= pos(i) - 1
    BY QueueAssumption DEF Sound, ShapeInv, LenOf, max
  <2>3. ring[(pos(i) - 1) + 1] # Nil
    BY <2>1, <2>2 DEF Sound, ShapeInv, Occupied
  <2>4. pos(i) \in 1 .. Len(ring) /\ (pos(i) - 1) + 1 = pos(i)
    BY <2>1, QueueAssumption DEF Sound, ShapeInv, max
  <2>5. ring[pos(i)] \in Elems
    BY <2>4, ElementOfSeq DEF Sound, ShapeInv
  <2>6. QED
    BY <2>3, <2>4, <2>5 DEF Elems
<1>3. Contents = [i \in 1 .. n |-> ring[pos(i)]]
  BY DEF Contents, Sound, ShapeInv
<1> HIDE DEF n, pos
<1>4. Contents \in Seq(Values)
  BY <1>1, <1>2, <1>3, IsASeq
<1>5. Len(Contents) = n
  BY <1>1, <1>3
<1>6. \A i \in 1 .. n : Contents[i] = ring[pos(i)]
  BY <1>3
<1>7. QED
  BY <1>1, <1>4, <1>5, <1>6 DEF n, pos, ContentsOK

\* NewRingQueue returns an empty ring of N + 1 nodes.
LEMMA InitRInv == Init => RInv
<1> SUFFICES ASSUME Init PROVE RInv
  OBVIOUS
<1>1. max \in Nat \ {0}
  BY QueueAssumption DEF max
<1>2. ring \in Seq(Elems) /\ Len(ring) = max
  <2>1. \A i \in 1 .. max : Nil \in Elems
    BY DEF Elems
  <2>2. QED
    BY <1>1, <2>1, IsASeq DEF Init
<1>3. ShapeInv
  <2>1. start \in 0 .. N /\ end \in 0 .. N /\ loc \in [Clients -> 0 .. max]
    BY <1>1, QueueAssumption DEF Init
  <2>2. QED
    BY <1>2, <2>1 DEF Init, ShapeInv, Places
<1>4. Occupied
  BY QueueAssumption DEF Init, Occupied, max
<1>5. QED
  BY <1>3, <1>4 DEF RInv, Sound, Init

\* Put fills the node at end, which is free, and appends to the contents.
LEMMA PutStep ==
  ASSUME RInv, NEW c \in Producers, NEW v \in Values, Put(c, v)
  PROVE  /\ RInv'
         /\ Len(Contents) < N
         /\ Contents' = Append(Contents, v)
<1>0. start \in 0 .. N /\ end \in 0 .. N /\ N \in Nat \ {0} /\ max = N + 1
  BY QueueAssumption DEF RInv, Sound, ShapeInv, max
<1>1. ring' = [ring EXCEPT ![end + 1] = v] /\ end + 1 \in 1 .. Len(ring)
  BY <1>0 DEF Put, Move, RInv, Sound, ShapeInv
<1>2. ring' \in Seq(Elems) /\ Len(ring') = max
  BY <1>1, ExceptSeq DEF RInv, Sound, ShapeInv, Elems
<1>3. \A j \in 1 .. max : ring'[j] = IF j = end + 1 THEN v ELSE ring[j]
  BY <1>1, ExceptSeq DEF RInv, Sound, ShapeInv, Elems
<1>4. end' = IF end = N THEN 0 ELSE end + 1
  BY <1>0 DEF Put, Wrap
<1>5. start' = start /\ ~Full
  BY DEF Put
<1>6. ShapeInv'
  <2>1. pc' \in [Clients -> Places] /\ loc' = loc /\ mux' = Free
    BY DEF Put, AfterIncrement, Unlocked, RInv, Sound, ShapeInv, Places
  <2>2. QED
    BY <1>0, <1>2, <1>4, <1>5, <2>1 DEF RInv, Sound, ShapeInv
<1>7. Occupied'
  <2> SUFFICES ASSUME NEW i \in 0 .. N
               PROVE  ring'[i + 1] # Nil <=>
                        IF start' <= end' THEN start' <= i /\ i < end'
                                          ELSE i < end' \/ start' <= i
    BY DEF Occupied
  <2>1. ring'[i + 1] = IF i = end THEN v ELSE ring[i + 1]
    BY <1>0, <1>3
  <2>2. v # Nil
    BY QueueAssumption
  <2>3. ring[i + 1] # Nil <=>
          IF start <= end THEN start <= i /\ i < end ELSE i < end \/ start <= i
    BY DEF RInv, Sound, ShapeInv, Occupied
  <2>4. start # end + 1 /\ ~(end = N /\ start = 0)
    BY <1>0, <1>5 DEF Full
  <2>5. QED
    BY <1>0, <1>4, <1>5, <2>1, <2>2, <2>3, <2>4
<1>8. RInv'
  BY <1>6, <1>7 DEF RInv, Sound, Put, Unlocked
<1>9. LenOf(start', end') = LenOf(start, end) + 1 /\ LenOf(start, end) < N
  BY <1>0, <1>4, <1>5 DEF LenOf, Full
<1> DEFINE n == LenOf(start, end)
           pos(i) == IF start + i <= max THEN start + i ELSE start + i - max
<1>10. /\ Contents \in Seq(Values) /\ Len(Contents) = n /\ n \in Nat
       /\ \A i \in 1 .. n : Contents[i] = ring[pos(i)]
  BY <1>0, ContentsSeq DEF RInv, ContentsOK
<1>11. /\ Contents' \in Seq(Values) /\ Len(Contents') = n + 1
       /\ \A i \in 1 .. n + 1 : Contents'[i] = ring'[pos(i)]
  <2>1. ContentsOK'
    BY <1>8, ContentsSeq, PTL DEF RInv
  <2>2. LenOf(start, end)' = LenOf(start', end')
    BY DEF LenOf
  <2>3. QED
    BY <1>5, <1>9, <2>1, <2>2 DEF ContentsOK
<1>12. ASSUME NEW i \in 1 .. n + 1 PROVE Contents'[i] = Append(Contents, v)[i]
  <2>1. CASE i = n + 1
    <3>1. pos(i) = end + 1
      BY <1>0, <1>9, <2>1 DEF LenOf
    <3>2. QED
      BY <1>0, <1>3, <1>10, <1>11, <2>1, <3>1
  <2>2. CASE i # n + 1
    <3>1. pos(i) # end + 1 /\ pos(i) \in 1 .. max
      BY <1>0, <1>9, <2>2 DEF LenOf
    <3>2. QED
      BY <1>3, <1>10, <1>11, <2>2, <3>1
  <2>3. QED
    BY <2>1, <2>2
<1>13. Contents' = Append(Contents, v)
  <2>1. Append(Contents, v) \in Seq(Values) /\ Len(Append(Contents, v)) = n + 1
    BY <1>10
  <2>2. QED
    BY <1>11, <1>12, <2>1, SeqEqual
<1>14. QED
  BY <1>8, <1>9, <1>10, <1>13

\* A Get that finds an element takes the head of the contents.
LEMMA TakeStep ==
  ASSUME RInv, NEW c \in Consumers, GetTake(c), ring[start + 1] # Nil
  PROVE  RInv' /\ Contents # <<>> /\ Contents' = Tail(Contents)
<1>0. start \in 0 .. N /\ end \in 0 .. N /\ N \in Nat \ {0} /\ max = N + 1
  BY QueueAssumption DEF RInv, Sound, ShapeInv, max
<1>1. /\ ring' = [ring EXCEPT ![start + 1] = Nil] /\ start + 1 \in 1 .. Len(ring)
      /\ start' = Wrap(start + 1) /\ end' = end
      /\ pc' \in [Clients -> Places]
  BY <1>0 DEF GetTake, AfterIncrement, Move, RInv, Sound, ShapeInv, Places
<1>2. ring' \in Seq(Elems) /\ Len(ring') = max
  BY <1>1, ExceptSeq DEF RInv, Sound, ShapeInv, Elems
<1>3. \A j \in 1 .. max : ring'[j] = IF j = start + 1 THEN Nil ELSE ring[j]
  BY <1>1, ExceptSeq DEF RInv, Sound, ShapeInv, Elems
<1>4. start' = IF start = N THEN 0 ELSE start + 1
  BY <1>0, <1>1 DEF Wrap
<1>5. start # end
  BY <1>0 DEF RInv, Sound, ShapeInv, Occupied
<1>6. ShapeInv'
  BY <1>0, <1>1, <1>2, <1>4 DEF GetTake, Unlocked, RInv, Sound, ShapeInv
<1>7. Occupied'
  <2> SUFFICES ASSUME NEW i \in 0 .. N
               PROVE  ring'[i + 1] # Nil <=>
                        IF start' <= end' THEN start' <= i /\ i < end'
                                          ELSE i < end' \/ start' <= i
    BY DEF Occupied
  <2>1. ring'[i + 1] = IF i = start THEN Nil ELSE ring[i + 1]
    BY <1>0, <1>3
  <2>2. ring[i + 1] # Nil <=>
          IF start <= end THEN start <= i /\ i < end ELSE i < end \/ start <= i
    BY DEF RInv, Sound, ShapeInv, Occupied
  <2>3. QED
    BY <1>0, <1>1, <1>4, <1>5, <2>1, <2>2
<1>8. RInv'
  BY <1>6, <1>7 DEF RInv, Sound, GetTake, Unlocked
<1> DEFINE n == LenOf(start, end)
           pos(i) == IF start + i <= max THEN start + i ELSE start + i - max
<1>9. LenOf(start', end') = n - 1 /\ n \in 1 .. N
  <2>1. CASE start = N
    BY <1>0, <1>1, <1>4, <1>5, <2>1 DEF LenOf
  <2>2. CASE start # N /\ start < end
    BY <1>0, <1>1, <1>4, <1>5, <2>2 DEF LenOf
  <2>3. CASE start # N /\ end < start
    BY <1>0, <1>1, <1>4, <1>5, <2>3 DEF LenOf
  <2>4. QED
    BY <1>0, <1>5, <2>1, <2>2, <2>3
<1>10. /\ Contents \in Seq(Values) /\ Len(Contents) = n
       /\ \A i \in 1 .. n : Contents[i] = ring[pos(i)]
  BY ContentsSeq DEF RInv, ContentsOK
<1>11. /\ Contents' \in Seq(Values) /\ Len(Contents') = n - 1
       /\ \A i \in 1 .. n - 1 : Contents'[i] =
            ring'[IF start' + i <= max THEN start' + i ELSE start' + i - max]
  <2>1. ContentsOK'
    BY <1>8, ContentsSeq, PTL DEF RInv
  <2>2. LenOf(start, end)' = LenOf(start', end')
    BY DEF LenOf
  <2>3. QED
    BY <1>9, <2>1, <2>2 DEF ContentsOK
<1>12. Contents # <<>>
  <2>1. Len(Contents) # 0
    BY <1>9, <1>10
  <2>2. QED
    BY <2>1, EmptySeq
<1>13. /\ Tail(Contents) \in Seq(Values) /\ Len(Tail(Contents)) = n - 1
       /\ \A i \in 1 .. n - 1 : Tail(Contents)[i] = Contents[i + 1]
  BY <1>10, <1>12, HeadTailProperties
<1>14. ASSUME NEW i \in 1 .. n - 1 PROVE Contents'[i] = Tail(Contents)[i]
  <2>1. i + 1 \in 1 .. n
    BY <1>9
  <2>2. pos(i + 1) = IF start' + i <= max THEN start' + i ELSE start' + i - max
    BY <1>0, <1>4, <1>9
  <2>3. pos(i + 1) # start + 1 /\ pos(i + 1) \in 1 .. max
    BY <1>0, <1>9
  <2>4. QED
    BY <1>3, <1>10, <1>11, <1>13, <2>1, <2>2, <2>3
<1>15. Contents' = Tail(Contents)
  BY <1>11, <1>13, <1>14, SeqEqual
<1>16. QED
  BY <1>8, <1>12, <1>15

\* Steps that leave the ring and the indices alone.
LEMMA SameRing ==
  ASSUME RInv, UNCHANGED <<ring, start, end, mux, rem>>,
         pc' \in [Clients -> Places],
         loc' \in [Clients -> 0 .. max],
         mux # Free => pc'[mux] = "removing"
  PROVE  RInv' /\ Contents' = Contents /\ Queue' = Queue
<1>1. ShapeInv' /\ Occupied'
  BY DEF RInv, Sound, ShapeInv, Occupied
<1>2. mux' # Free => LoopShape' /\ LoopPlace'
  BY DEF RInv, LoopShape, LoopPlace, PassedCount, KeptCount, NodeOf, LenOf
<1>3. Contents' = Contents
  BY DEF Contents, LenOf
<1>4. QED
  BY <1>1, <1>2, <1>3 DEF RInv, Sound, Queue

\* Remove takes the lock and starts at the front, with nothing passed.
LEMMA LockStep ==
  ASSUME RInv, Removers = {} \/ SparesBase, NEW c \in Removers,
         NEW del \in SUBSET Values, RemoveLock(c, del)
  PROVE  RInv' /\ Queue' = Queue
<1>0. /\ start \in 0 .. N /\ end \in 0 .. N /\ N \in Nat \ {0} /\ max = N + 1
      /\ c \in Clients /\ c # Free /\ Len(ring) = max
  BY QueueAssumption DEF RInv, Sound, ShapeInv, max, Clients
<1>1. /\ mux = Free /\ mux' = c /\ pc' = [pc EXCEPT ![c] = "removing"]
      /\ ring[1] \notin del /\ UNCHANGED <<ring, start, end, loc>>
  BY DEF RemoveLock, Unlocked
<1>2. rem' = [todo |-> Contents, cur |-> start, last |-> end,
              isPrev |-> FALSE, del |-> del, before |-> Contents]
  BY <1>0 DEF RemoveLock, Move
<1> DEFINE n == LenOf(start, end)
<1>3. /\ Contents \in Seq(Values) /\ Len(Contents) = n /\ n \in 0 .. N
      /\ \A i \in 1 .. n : Contents[i] = ring[NodeOf(i)]
  BY ContentsSeq DEF RInv, ContentsOK, NodeOf
<1>4. Sound'
  <2>1. ShapeInv'
    BY <1>0, <1>1 DEF RInv, Sound, ShapeInv, Places
  <2>2. Occupied'
    BY <1>1 DEF RInv, Sound, Occupied
  <2>3. QED
    BY <2>1, <2>2 DEF Sound
<1>5. LoopShape'
  BY <1>0, <1>1, <1>2, <1>3 DEF LoopShape
<1>6. LoopPlace'
  <2>1. Len(rem.todo)' = n /\ Len(rem.before)' = n /\ LenOf(start, end)' = n
    BY <1>1, <1>2, <1>3 DEF LenOf
  <2>2. PassedCount' = 0 /\ KeptCount' = 0
    BY <1>3, <2>1 DEF PassedCount, KeptCount
  <2>3. \A i : NodeOf(i)' = NodeOf(i)
    BY <1>1 DEF NodeOf
  <2>4. NodeOf(1) - 1 = start
    BY <1>0 DEF NodeOf
  <2>5. Selected(Contents, Values \ del)[0] = <<>>
    BY <1>3, SelectedSteps
  <2> HIDE DEF n
  <2>6. \A j \in 1 .. n : 0 + j = j
    BY <1>3
  <2>7. rem'.cur = (NodeOf(KeptCount + 1) - 1)'
    BY <1>2, <2>2, <2>4, <1>1 DEF NodeOf
  <2>8. \A j \in 1 .. Len(rem'.todo) : /\ rem'.todo[j] = ring'[NodeOf(KeptCount + j)']
                                       /\ rem'.todo[j] = rem'.before[PassedCount' + j]
    <3> SUFFICES ASSUME NEW j \in 1 .. n
                 PROVE  /\ Contents[j] = ring[NodeOf(KeptCount + j)']
                        /\ Contents[j] = Contents[PassedCount' + j]
      BY <1>1, <1>2, <2>1
    <3>1. NodeOf(KeptCount + j)' = NodeOf(j)
      BY <1>1, <2>2, <2>6 DEF NodeOf
    <3>2. QED
      BY <1>3, <2>2, <2>6, <3>1
  <2>9. Selected(rem'.before, Values \ rem'.del)[PassedCount'] = <<>>
    BY <1>2, <2>2, <2>5
  <2>10. PassedCount' \in Nat /\ KeptCount' \in Nat
    BY <2>2
  <2>11. QED
    BY <2>2, <2>7, <2>8, <2>9, <2>10 DEF LoopPlace
<1>7. Queue' = Queue
  BY <1>0, <1>1, <1>2 DEF Queue
<1>8. QED
  BY <1>0, <1>1, <1>4, <1>5, <1>6, <1>7 DEF RInv

\* What the loop knows at an element: its place in the ring and in what was
\* there before, and what is selected once it has passed.
LEMMA AtElement ==
  ASSUME RInv, mux # Free, rem.todo # <<>>
  PROVE  /\ N \in Nat \ {0} /\ max = N + 1 /\ start \in 0 .. N /\ end \in 0 .. N
         /\ LoopShape /\ LoopPlace
         /\ Len(rem.todo) \in Nat \ {0} /\ Len(rem.before) \in Nat
         /\ LenOf(start, end) \in 0 .. N
         /\ Head(rem.todo) = ring[NodeOf(KeptCount + 1)]
         /\ Head(rem.todo) = rem.before[PassedCount + 1]
         /\ Head(rem.todo) \in Values
         /\ Tail(rem.todo) \in Seq(Values) /\ Len(Tail(rem.todo)) = Len(rem.todo) - 1
         /\ \A j \in 1 .. Len(rem.todo) - 1 : Tail(rem.todo)[j] = rem.todo[j + 1]
         /\ PassedCount + 1 \in 1 .. Len(rem.before)
         /\ Selected(rem.before, Values \ rem.del)[PassedCount] \in Seq(Values)
         /\ Selected(rem.before, Values \ rem.del)[PassedCount + 1] =
              IF Head(rem.todo) \in rem.del
              THEN Selected(rem.before, Values \ rem.del)[PassedCount]
              ELSE Append(Selected(rem.before, Values \ rem.del)[PassedCount], Head(rem.todo))
<1>1. /\ N \in Nat \ {0} /\ max = N + 1 /\ start \in 0 .. N /\ end \in 0 .. N
      /\ LoopShape /\ LoopPlace
  BY QueueAssumption DEF RInv, Sound, ShapeInv, max
<1>2. rem.todo \in Seq(Values) /\ rem.before \in Seq(Values)
  BY <1>1 DEF LoopShape
<1>3. Len(rem.todo) \in Nat \ {0} /\ Len(rem.before) \in Nat
  BY <1>2, EmptySeq
<1>4. LenOf(start, end) \in 0 .. N
  BY <1>1 DEF LenOf
<1>5. Head(rem.todo) = rem.todo[1] /\ 1 \in 1 .. Len(rem.todo) /\ rem.todo[1] \in Values
  BY <1>2, <1>3
<1>6. Head(rem.todo) = ring[NodeOf(KeptCount + 1)] /\ Head(rem.todo) = rem.before[PassedCount + 1]
  BY <1>1, <1>5 DEF LoopPlace
<1>7. /\ Tail(rem.todo) \in Seq(Values) /\ Len(Tail(rem.todo)) = Len(rem.todo) - 1
      /\ \A j \in 1 .. Len(rem.todo) - 1 : Tail(rem.todo)[j] = rem.todo[j + 1]
  BY <1>2, HeadTailProperties
<1>8. PassedCount + 1 \in 1 .. Len(rem.before) /\ PassedCount \in 0 .. Len(rem.before)
      /\ (PassedCount + 1) - 1 = PassedCount
  <2> DEFINE a == Len(rem.before)
             b == Len(rem.todo)
             p == PassedCount
  <2>1. p \in Nat /\ p = a - b
    BY <1>1 DEF LoopPlace, PassedCount
  <2>2. a \in Nat /\ b \in Nat /\ b # 0
    BY <1>3
  <2> HIDE DEF a, b, p
  <2>3. p + 1 \in 1 .. a /\ p \in 0 .. a /\ (p + 1) - 1 = p
    BY <2>1, <2>2
  <2>4. QED
    BY <2>3 DEF a, p
<1> DEFINE sel == Selected(rem.before, Values \ rem.del)
<1>9. /\ sel[PassedCount] \in Seq(Values)
      /\ sel[PassedCount + 1] = IF rem.before[PassedCount + 1] \in Values \ rem.del
                           THEN Append(sel[(PassedCount + 1) - 1], rem.before[PassedCount + 1])
                           ELSE sel[(PassedCount + 1) - 1]
  BY <1>2, <1>8, SelectedSteps
<1> HIDE DEF sel
<1>10. sel[PassedCount + 1] = IF Head(rem.todo) \in rem.del THEN sel[PassedCount]
                         ELSE Append(sel[PassedCount], Head(rem.todo))
  BY <1>5, <1>6, <1>8, <1>9
<1>11. QED
  BY <1>1, <1>3, <1>4, <1>5, <1>6, <1>7, <1>8, <1>9, <1>10 DEF sel

\* An element that f keeps becomes the last of those kept.
LEMMA KeepStep ==
  ASSUME RInv, NEW c \in Removers, RemoveKeep(c)
  PROVE  RInv' /\ Queue' = Queue
<1>0. /\ c \in Clients /\ c # Free /\ mux = c /\ rem.todo # <<>>
      /\ Head(rem.todo) \notin rem.del
      /\ UNCHANGED <<ring, start, end, mux, pc, loc>>
  BY QueueAssumption DEF Clients, RemoveKeep
<1> DEFINE n == LenOf(start, end)
           m == Len(rem.todo)
           k == KeptCount
           d == PassedCount
           sel == Selected(rem.before, Values \ rem.del)
<1>1. /\ N \in Nat \ {0} /\ max = N + 1 /\ start \in 0 .. N /\ end \in 0 .. N
      /\ LoopShape /\ LoopPlace
      /\ m \in Nat \ {0} /\ Len(rem.before) \in Nat /\ n \in 0 .. N
      /\ Head(rem.todo) = ring[NodeOf(k + 1)] /\ Head(rem.todo) \in Values
      /\ Tail(rem.todo) \in Seq(Values) /\ Len(Tail(rem.todo)) = m - 1
      /\ \A j \in 1 .. m - 1 : Tail(rem.todo)[j] = rem.todo[j + 1]
      /\ sel[d] \in Seq(Values) /\ sel[d + 1] = Append(sel[d], Head(rem.todo))
  BY <1>0, AtElement
<1>2. /\ k \in Nat /\ d \in Nat /\ k = n - m /\ d = Len(rem.before) - m
      /\ rem.cur = NodeOf(k + 1) - 1
      /\ \A j \in 1 .. m : /\ rem.todo[j] = ring[NodeOf(k + j)]
                           /\ rem.todo[j] = rem.before[d + j]
      /\ Len(sel[d]) = k /\ \A i \in 1 .. k : sel[d][i] = ring[NodeOf(i)]
  BY <1>1 DEF LoopPlace, KeptCount, PassedCount
<1>3. rem.cur \in 0 .. N /\ rem.cur = IF start + k <= N THEN start + k ELSE start + k - max
  <2>1. rem.cur \in 0 .. N
    BY <1>1 DEF LoopShape
  <2> HIDE DEF n, m, k, d, sel
  <2>2. NodeOf(k + 1) = IF start + (k + 1) <= max THEN start + (k + 1)
                        ELSE start + (k + 1) - max
    BY DEF NodeOf
  <2>3. QED
    BY <1>1, <1>2, <2>1, <2>2
<1>4. rem' = [rem EXCEPT !.todo = Tail(rem.todo), !.isPrev = rem.isPrev \/ rem.cur = 0,
                         !.cur = Wrap(rem.cur + 1)]
  <2>1. rem.cur # -1
    BY <1>3
  <2>2. QED
    BY <2>1 DEF RemoveKeep
<1>5. /\ rem'.todo = Tail(rem.todo) /\ rem'.isPrev = (rem.isPrev \/ rem.cur = 0)
      /\ rem'.cur = Wrap(rem.cur + 1) /\ rem'.last = rem.last
      /\ rem'.del = rem.del /\ rem'.before = rem.before
  BY <1>1, <1>4 DEF LoopShape
<1>6. Wrap(rem.cur + 1) = IF rem.cur = N THEN 0 ELSE rem.cur + 1
  BY <1>1, <1>3 DEF Wrap
<1>7. LenOf(start, end)' = n /\ Len(rem.todo)' = m - 1 /\ Len(rem.before)' = Len(rem.before)
  BY <1>0, <1>1, <1>5 DEF LenOf
<1>8. KeptCount' = k + 1 /\ PassedCount' = d + 1
  <2>1. KeptCount' = n - (m - 1) /\ PassedCount' = Len(rem.before) - (m - 1)
    BY <1>7 DEF KeptCount, PassedCount
  <2>2. /\ k = n - m /\ d = Len(rem.before) - m /\ n \in Nat /\ m \in Nat
        /\ Len(rem.before) \in Nat
    BY <1>1, <1>2
  <2> HIDE DEF n, m, k, d, sel
  <2>3. QED
    BY <2>1, <2>2
<1>9. \A i : NodeOf(i)' = NodeOf(i)
  BY <1>0 DEF NodeOf
<1> HIDE DEF n, m, k, d, sel
<1>10. LoopShape'
  <2>1. /\ rem' \in [todo : Seq(Values), cur : 0 .. N, last : 0 .. N, isPrev : BOOLEAN,
                     del : SUBSET Values, before : Seq(Values)]
    <3>1. Wrap(rem.cur + 1) \in 0 .. N /\ (rem.isPrev \/ rem.cur = 0) \in BOOLEAN
      BY <1>1, <1>3, <1>6
    <3>2. QED
      BY <1>1, <1>4, <3>1 DEF LoopShape
  <2>2. start > end => ((rem.isPrev \/ rem.cur = 0) <=>
                          0 < Wrap(rem.cur + 1) /\ Wrap(rem.cur + 1) <= end)
    <3>1. start > end => (rem.isPrev <=> 0 < rem.cur /\ rem.cur <= end)
      BY <1>1 DEF LoopShape
    <3>2. start > end => rem.cur < end \/ rem.cur >= start
      <4>1. start > end => n = end + max - start
        BY <1>1 DEF n, LenOf
      <4>2. k < n
        BY <1>1, <1>2
      <4>3. k \in Nat /\ n \in Nat
        BY <1>1, <1>2
      <4>4. QED
        BY <1>1, <1>3, <4>1, <4>2, <4>3
    <3>3. QED
      BY <1>1, <1>3, <1>6, <3>1, <3>2
  <2>3. QED
    BY <1>0, <1>1, <1>5, <2>1, <2>2 DEF LoopShape
<1>11. LoopPlace'
  <2>1. rem'.cur = (NodeOf(KeptCount + 1) - 1)'
    <3>1. (NodeOf(KeptCount + 1) - 1)' = NodeOf((k + 1) + 1) - 1
      BY <1>0, <1>8 DEF NodeOf
    <3>2. NodeOf((k + 1) + 1) - 1 = IF rem.cur = N THEN 0 ELSE rem.cur + 1
      BY <1>1, <1>2, <1>3 DEF NodeOf
    <3>3. QED
      BY <1>5, <1>6, <3>1, <3>2
  <2>2. \A j \in 1 .. Len(rem'.todo) : /\ rem'.todo[j] = ring'[NodeOf(KeptCount + j)']
                                       /\ rem'.todo[j] = rem'.before[PassedCount' + j]
    <3> SUFFICES ASSUME NEW j \in 1 .. m - 1
                 PROVE  /\ Tail(rem.todo)[j] = ring[NodeOf(KeptCount + j)']
                        /\ Tail(rem.todo)[j] = rem.before[PassedCount' + j]
      BY <1>0, <1>1, <1>5
    <3>1. NodeOf(KeptCount + j)' = NodeOf(k + (j + 1)) /\ PassedCount' + j = d + (j + 1)
      <4>1. KeptCount' + j = k + (j + 1) /\ PassedCount' + j = d + (j + 1)
        <5>1. k \in Nat /\ d \in Nat /\ j \in Nat
          BY <1>1, <1>2
        <5>2. QED
          BY <1>8, <5>1
      <4>2. QED
        BY <1>0, <4>1 DEF NodeOf
    <3>2. j + 1 \in 1 .. m
      BY <1>1
    <3>3. QED
      BY <1>1, <1>2, <3>1, <3>2
  <2>3. Selected(rem'.before, Values \ rem'.del)[PassedCount'] = Append(sel[d], Head(rem.todo))
    BY <1>1, <1>5, <1>8 DEF sel
  <2>4. /\ Len(Append(sel[d], Head(rem.todo))) = k + 1
        /\ \A i \in 1 .. k + 1 : Append(sel[d], Head(rem.todo))[i] = ring[NodeOf(i)]
    <3> DEFINE q == sel[d]
               h == Head(rem.todo)
    <3>1. /\ q \in Seq(Values) /\ Len(q) = k /\ h \in Values /\ h = ring[NodeOf(k + 1)]
          /\ \A i \in 1 .. k : q[i] = ring[NodeOf(i)]
      BY <1>1, <1>2
    <3> HIDE DEF q, h
    <3>2. /\ Len(Append(q, h)) = k + 1 /\ Append(q, h)[k + 1] = h
          /\ \A i \in 1 .. k : Append(q, h)[i] = q[i]
      BY <3>1
    <3>3. ASSUME NEW i \in 1 .. k + 1 PROVE Append(q, h)[i] = ring[NodeOf(i)]
      <4>1. k \in Nat
        BY <1>2
      <4>2. CASE i = k + 1
        BY <3>1, <3>2, <4>2
      <4>3. CASE i \in 1 .. k
        BY <3>1, <3>2, <4>3
      <4>4. i = k + 1 \/ i \in 1 .. k
        BY <4>1
      <4>5. QED
        BY <4>2, <4>3, <4>4, Zenon
    <3>4. QED
      BY <3>2, <3>3 DEF q, h
  <2>5. /\ Len(Selected(rem'.before, Values \ rem'.del)[PassedCount']) = KeptCount'
        /\ \A i \in 1 .. KeptCount' :
             Selected(rem'.before, Values \ rem'.del)[PassedCount'][i] = ring'[NodeOf(i)']
    BY <1>0, <1>8, <1>9, <2>3, <2>4
  <2>6. PassedCount' \in Nat /\ KeptCount' \in Nat
    BY <1>2, <1>8
  <2>7. QED
    BY <2>1, <2>2, <2>5, <2>6 DEF LoopPlace
<1>12. Sound'
  BY <1>0 DEF RInv, Sound, ShapeInv, Occupied
<1>13. Queue' = Queue
  BY <1>0, <1>5 DEF Queue
<1>14. QED
  BY <1>0, <1>10, <1>11, <1>12, <1>13 DEF RInv

\* The same for any indices: the node of the j-th element, the positions from
\* s to e, and that exactly these hold an element.
NodeAt(s, j) == IF s + j <= max THEN s + j ELSE s + j - max
Within(s, e, j) == IF s <= e THEN s <= j /\ j < e ELSE j < e \/ s <= j
Filled(r, s, e) == \A j \in 0 .. N : r[j + 1] # Nil <=> Within(s, e, j)

\* What Relink puts at position p.
Shifted(r, i, e, p) ==
  IF e > i THEN IF p < i \/ p > e THEN r[p + 1]
                ELSE IF p = e THEN Nil ELSE r[p + 2]
           ELSE IF p <= e \/ p > i THEN r[p + 1]
                ELSE IF p = e + 1 THEN Nil ELSE r[p]

\* The ring q is r with the node at i unlinked, and a fresh one after e.
IsRelinked(q, r, i, e) == \A p \in 0 .. N : q[p + 1] = Shifted(r, i, e, p)

\* The elements of q from s2 on are the n elements of r from s on without the
\* one after the first k.
LeavesOut(q, s2, r, s, k, n) ==
  /\ \A j \in 1 .. k : q[NodeAt(s2, j)] = r[NodeAt(s, j)]
  /\ \A j \in k + 1 .. n - 1 : q[NodeAt(s2, j)] = r[NodeAt(s, j + 1)]

\* Relink leaves a ring of the same size, with the node r.r as it was.
LEMMA RelinkNodes ==
  ASSUME NEW r \in Seq(Elems), Len(r) = max, NEW i \in 1 .. N, NEW e \in 0 .. N
  PROVE  /\ Relink(r, i, e) \in Seq(Elems) /\ Len(Relink(r, i, e)) = max
         /\ Relink(r, i, e)[1] = r[1]
         /\ IsRelinked(Relink(r, i, e), r, i, e)
<1> DEFINE q == Relink(r, i, e)
<1>0. N \in Nat \ {0} /\ max = N + 1
  BY QueueAssumption DEF max
<1>1. \A p \in 0 .. N : q[p + 1] = Shifted(r, i, e, p)
  <2> SUFFICES ASSUME NEW p \in 0 .. N PROVE q[p + 1] = Shifted(r, i, e, p)
    OBVIOUS
  <2>1. p + 1 \in 1 .. Len(r) /\ (p + 1) - 1 = p /\ (p + 1) + 1 = p + 2
    BY <1>0
  <2>2. QED
    BY <2>1 DEF Relink, Shifted
<1>2. \A p \in 1 .. max : r[p] \in Elems
  BY <1>0, ElementOfSeq
<1>3. DOMAIN q = 1 .. max /\ q = [j \in 1 .. max |-> q[j]]
  BY DEF Relink
<1> HIDE DEF q
<1>4. ASSUME NEW j \in 1 .. max PROVE q[j] \in Elems
  <2>1. j - 1 \in 0 .. N /\ (j - 1) + 1 = j /\ (j - 1) + 2 = j + 1
    BY <1>0
  <2>2. q[j] = Shifted(r, i, e, j - 1)
    BY <1>1, <2>1
  <2>3. q[j] = IF e > i THEN IF j - 1 < i \/ j - 1 > e THEN r[j]
                             ELSE IF j - 1 = e THEN Nil ELSE r[j + 1]
               ELSE IF j - 1 <= e \/ j - 1 > i THEN r[j]
                    ELSE IF j - 1 = e + 1 THEN Nil ELSE r[j - 1]
    BY <2>1, <2>2 DEF Shifted
  <2>4. \/ q[j] = r[j] \/ q[j] = Nil
        \/ q[j] = r[j + 1] /\ j + 1 \in 1 .. max
        \/ q[j] = r[j - 1] /\ j - 1 \in 1 .. max
    BY <1>0, <2>3
  <2>5. QED
    BY <1>2, <2>4 DEF Elems
<1>5. q \in Seq(Elems) /\ Len(q) = max
  <2>1. max \in Nat
    BY <1>0
  <2>2. [j \in 1 .. max |-> q[j]] \in Seq(Elems)
    BY <1>4, <2>1, IsASeq
  <2>3. q \in Seq(Elems)
    BY <1>3, <2>2
  <2>4. QED
    BY <1>3, <2>1, <2>3
<1>6. q[1] = r[1]
  <2>1. q[0 + 1] = Shifted(r, i, e, 0)
    BY <1>0, <1>1
  <2>2. Shifted(r, i, e, 0) = r[0 + 1]
    BY DEF Shifted
  <2>3. QED
    BY <2>1, <2>2
<1>7. QED
  BY <1>1, <1>5, <1>6 DEF q, IsRelinked

\* Before the wrap, a deletion moves the elements already passed up by one
\* node and start with them.
LEMMA UnlinkBeforeWrap ==
  ASSUME NEW s \in 0 .. N, NEW e \in 0 .. N, s > e,
         NEW k \in Nat, s + k <= N,
         NEW r, NEW q, IsRelinked(q, r, s + k, e),
         Filled(r, s, e)
  PROVE  /\ Wrap(s + 1) \in 0 .. N /\ LenOf(Wrap(s + 1), e) = LenOf(s, e) - 1
         /\ LeavesOut(q, Wrap(s + 1), r, s, k, LenOf(s, e))
         /\ Filled(q, Wrap(s + 1), e)
<1> DEFINE s2 == Wrap(s + 1)
           n == LenOf(s, e)
<1>0. N \in Nat \ {0} /\ max = N + 1
  BY QueueAssumption DEF max
<1>1. s2 = (IF s = N THEN 0 ELSE s + 1) /\ n = e + max - s
  BY <1>0 DEF Wrap, LenOf
<1>2. s2 \in 0 .. N /\ LenOf(s2, e) = n - 1
  BY <1>0, <1>1 DEF LenOf
<1>3. \A p \in 0 .. N : q[p + 1] = IF p <= e \/ p > s + k THEN r[p + 1]
                                   ELSE IF p = e + 1 THEN Nil ELSE r[p]
  BY <1>0 DEF IsRelinked, Shifted
<1> HIDE DEF s2, n
<1>4. ASSUME NEW j \in 1 .. k PROVE q[NodeAt(s2, j)] = r[NodeAt(s, j)]
  <2>1. NodeAt(s2, j) = (s + j) + 1 /\ NodeAt(s, j) = s + j /\ s + j \in 0 .. N
        /\ ~(s + j <= e \/ s + j > s + k) /\ s + j # e + 1
    BY <1>0, <1>1 DEF NodeAt
  <2>2. q[(s + j) + 1] = r[s + j]
    BY <1>3, <2>1
  <2>3. QED
    BY <2>1, <2>2
<1>5. ASSUME NEW j \in k + 1 .. n - 1 PROVE q[NodeAt(s2, j)] = r[NodeAt(s, j + 1)]
  <2> DEFINE p == NodeAt(s, j + 1) - 1
  <2>1. NodeAt(s2, j) = p + 1 /\ NodeAt(s, j + 1) = p + 1
        /\ p \in 0 .. N /\ (p <= e \/ p > s + k)
    BY <1>0, <1>1 DEF NodeAt
  <2> HIDE DEF p
  <2>2. q[p + 1] = r[p + 1]
    BY <1>3, <2>1
  <2>3. QED
    BY <2>1, <2>2
<1>6. ASSUME NEW j \in 0 .. N PROVE q[j + 1] # Nil <=> Within(s2, e, j)
  <2>1. r[j + 1] # Nil <=> (j < e \/ s <= j)
    BY <1>0 DEF Filled, Within
  <2>2. j # 0 => (r[j] # Nil <=> (j - 1 < e \/ s <= j - 1))
    <3> SUFFICES ASSUME j # 0 PROVE r[j] # Nil <=> (j - 1 < e \/ s <= j - 1)
      OBVIOUS
    <3>1. j - 1 \in 0 .. N /\ (j - 1) + 1 = j
      BY <1>0
    <3>2. r[j] # Nil <=> Within(s, e, j - 1)
      BY <3>1 DEF Filled
    <3>3. QED
      BY <1>0, <3>1, <3>2 DEF Within
  <2>3. CASE j <= e \/ j > s + k
    <3>1. q[j + 1] = r[j + 1]
      BY <1>3, <2>3
    <3>2. (j < e \/ s <= j) <=> Within(s2, e, j)
      BY <1>0, <1>1, <2>3 DEF Within
    <3>3. QED
      BY <2>1, <3>1, <3>2
  <2>4. CASE ~(j <= e \/ j > s + k) /\ j = e + 1
    <3>1. q[j + 1] = Nil
      BY <1>3, <2>4
    <3>2. ~Within(s2, e, j)
      BY <1>0, <1>1, <2>4 DEF Within
    <3>3. QED
      BY <3>1, <3>2
  <2>5. CASE ~(j <= e \/ j > s + k) /\ j # e + 1
    <3>1. q[j + 1] = r[j]
      BY <1>3, <2>5
    <3>2. j # 0 /\ ((j - 1 < e \/ s <= j - 1) <=> Within(s2, e, j))
      BY <1>0, <1>1, <2>5 DEF Within
    <3>3. QED
      BY <2>2, <3>1, <3>2
  <2>6. QED
    BY <2>3, <2>4, <2>5
<1>7. Filled(q, s2, e)
  BY <1>6 DEF Filled
<1>8. QED
  BY <1>2, <1>4, <1>5, <1>7 DEF s2, n, LeavesOut

\* After it, or where nothing wraps, a deletion moves the elements still to do
\* down by one node and end with them.
LEMMA UnlinkBeforeEnd ==
  ASSUME NEW s \in 0 .. N, NEW e \in 0 .. N,
         NEW k \in Nat, k < LenOf(s, e), NEW i \in 1 .. N,
         i = NodeAt(s, k + 1) - 1, s > e => i <= e,
         NEW r, NEW q, IsRelinked(q, r, i, e),
         Filled(r, s, e)
  PROVE  /\ e > i /\ e - 1 \in 0 .. N /\ LenOf(s, e - 1) = LenOf(s, e) - 1
         /\ LeavesOut(q, s, r, s, k, LenOf(s, e))
         /\ Filled(q, s, e - 1)
<1> DEFINE n == LenOf(s, e)
<1>0. N \in Nat \ {0} /\ max = N + 1
  BY QueueAssumption DEF max
<1>1. n = (IF s < e THEN e - s ELSE IF s = e THEN 0 ELSE e + max - s) /\ k < n
  BY DEF LenOf
<1>2. i = (IF s + k <= N THEN s + k ELSE s + k - max) /\ s # e
  BY <1>0, <1>1 DEF NodeAt
<1>3. e > i /\ (s < e => s <= i) /\ e - 1 \in 0 .. N /\ LenOf(s, e - 1) = n - 1
  BY <1>0, <1>1, <1>2 DEF LenOf
<1>4. \A p \in 0 .. N : q[p + 1] = IF p < i \/ p > e THEN r[p + 1]
                                   ELSE IF p = e THEN Nil ELSE r[p + 2]
  BY <1>3 DEF IsRelinked, Shifted
<1> HIDE DEF n
<1>5. ASSUME NEW j \in 1 .. k PROVE q[NodeAt(s, j)] = r[NodeAt(s, j)]
  <2> DEFINE p == NodeAt(s, j) - 1
  <2>1. NodeAt(s, j) = p + 1 /\ p \in 0 .. N /\ (p < i \/ p > e)
    BY <1>0, <1>1, <1>2, <1>3 DEF NodeAt
  <2> HIDE DEF p
  <2>2. QED
    BY <1>4, <2>1
<1>6. ASSUME NEW j \in k + 1 .. n - 1 PROVE q[NodeAt(s, j)] = r[NodeAt(s, j + 1)]
  <2> DEFINE p == NodeAt(s, j) - 1
  <2>1. NodeAt(s, j) = p + 1 /\ NodeAt(s, j + 1) = p + 2 /\ p \in i .. e - 1
    BY <1>0, <1>1, <1>2, <1>3 DEF NodeAt
  <2> HIDE DEF p
  <2>2. p \in 0 .. N /\ ~(p < i \/ p > e) /\ p # e
    BY <1>0, <2>1
  <2>3. QED
    BY <1>4, <2>1, <2>2
<1>7. ASSUME NEW j \in 0 .. N PROVE q[j + 1] # Nil <=> Within(s, e - 1, j)
  <2>1. r[j + 1] # Nil <=> Within(s, e, j)
    BY DEF Filled
  <2>2. CASE j < i \/ j > e
    <3>1. q[j + 1] = r[j + 1]
      BY <1>4, <2>2
    <3>2. Within(s, e, j) <=> Within(s, e - 1, j)
      BY <1>0, <1>2, <1>3, <2>2 DEF Within
    <3>3. QED
      BY <2>1, <3>1, <3>2
  <2>3. CASE j = e
    <3>1. q[j + 1] = Nil
      BY <1>3, <1>4, <2>3
    <3>2. ~Within(s, e - 1, j)
      BY <1>0, <1>2, <1>3, <2>3 DEF Within
    <3>3. QED
      BY <3>1, <3>2
  <2>4. CASE j \in i .. e - 1
    <3>1. j + 1 \in 0 .. N /\ (j + 1) + 1 = j + 2
      BY <1>0, <2>4
    <3>2. q[j + 1] = r[j + 2]
      <4>1. ~(j < i \/ j > e) /\ j # e
        BY <2>4
      <4>2. QED
        BY <1>4, <4>1
    <3>3. r[j + 2] # Nil <=> Within(s, e, j + 1)
      BY <3>1 DEF Filled
    <3>4. Within(s, e, j + 1) <=> Within(s, e - 1, j)
      BY <1>0, <1>2, <1>3, <2>4 DEF Within
    <3>5. QED
      BY <3>2, <3>3, <3>4
  <2>5. j < i \/ j > e \/ j = e \/ j \in i .. e - 1
    BY <1>0
  <2>6. QED
    BY <2>2, <2>3, <2>4, <2>5, Zenon
<1>8. Filled(q, s, e - 1)
  BY <1>7 DEF Filled
<1>9. QED
  BY <1>3, <1>5, <1>6, <1>8 DEF n, LeavesOut

\* An element that f deletes leaves what is kept and what is still to do as
\* they are.
LEMMA DeleteStep ==
  ASSUME RInv, NEW c \in Removers, RemoveDelete(c)
  PROVE  RInv' /\ Queue' = Queue
<1>0. /\ c \in Clients /\ c # Free /\ mux = c /\ rem.todo # <<>>
      /\ Head(rem.todo) \in rem.del
      /\ UNCHANGED <<mux, pc, loc>>
  BY QueueAssumption DEF Clients, RemoveDelete
<1> DEFINE n == LenOf(start, end)
           m == Len(rem.todo)
           k == KeptCount
           d == PassedCount
           i == rem.cur
           sel == Selected(rem.before, Values \ rem.del)
<1>1. /\ N \in Nat \ {0} /\ max = N + 1 /\ start \in 0 .. N /\ end \in 0 .. N
      /\ LoopShape /\ LoopPlace
      /\ m \in Nat \ {0} /\ Len(rem.before) \in Nat /\ n \in 0 .. N
      /\ Head(rem.todo) = ring[NodeOf(k + 1)]
      /\ Tail(rem.todo) \in Seq(Values) /\ Len(Tail(rem.todo)) = m - 1
      /\ \A j \in 1 .. m - 1 : Tail(rem.todo)[j] = rem.todo[j + 1]
      /\ sel[d + 1] = sel[d]
  BY <1>0, AtElement
<1>2. /\ k \in Nat /\ d \in Nat /\ k = n - m /\ d = Len(rem.before) - m
      /\ i = NodeOf(k + 1) - 1
      /\ \A j \in 1 .. m : /\ rem.todo[j] = ring[NodeOf(k + j)]
                           /\ rem.todo[j] = rem.before[d + j]
      /\ Len(sel[d]) = k /\ \A j \in 1 .. k : sel[d][j] = ring[NodeOf(j)]
  BY <1>1 DEF LoopPlace, KeptCount, PassedCount
<1>3. \A j : NodeOf(j) = NodeAt(start, j)
  BY DEF NodeOf, NodeAt
<1>4. ring \in Seq(Elems) /\ Len(ring) = max /\ Filled(ring, start, end)
  BY DEF RInv, Sound, ShapeInv, Occupied, Filled, Within
<1> HIDE DEF n, m, k, d, sel
<1>4a. /\ N \in Nat \ {0} /\ max = N + 1 /\ start \in 0 .. N /\ end \in 0 .. N
       /\ m \in Nat \ {0} /\ n \in 0 .. N /\ k \in Nat /\ d \in Nat /\ k = n - m
  BY <1>1, <1>2
<1>5. i \in 1 .. N
  <2>1. i \in 0 .. N /\ ring[1] \notin rem.del
    BY <1>1 DEF LoopShape
  <2>2. CASE i = 0
    <3>1. NodeOf(k + 1) = 1
      <4>1. NodeOf(k + 1) = IF start + (k + 1) <= max THEN start + (k + 1)
                            ELSE start + (k + 1) - max
        BY DEF NodeOf
      <4>2. QED
        BY <1>1, <1>2, <2>2, <4>1
    <3>2. QED
      BY <1>0, <1>1, <2>1, <3>1
  <2>3. QED
    BY <1>1, <2>1, <2>2
<1>6. /\ ring' = Relink(ring, i, rem.last) /\ rem.last = end
      /\ rem' = AfterUnlink(rem.isPrev) /\ MoveIndex(rem.isPrev)
  <2>1. i # 0 /\ i # -1 /\ rem.isPrev \in BOOLEAN /\ rem.last = end
    BY <1>1, <1>5 DEF LoopShape
  <2>2. (rem.isPrev \/ rem.cur = 0) = rem.isPrev
    BY <2>1
  <2>3. QED
    BY <2>1, <2>2 DEF RemoveDelete
<1>7. rem' = [rem EXCEPT !.todo = Tail(rem.todo), !.isPrev = rem.isPrev,
                !.last = IF end > i THEN end - 1 ELSE end,
                !.cur = IF end > i THEN i ELSE Wrap(i + 1)]
  <2>1. ~(i < 1)
    BY <1>1, <1>5
  <2>2. QED
    BY <1>6, <2>1 DEF AfterUnlink
<1>8. /\ rem'.todo = Tail(rem.todo) /\ rem'.isPrev = rem.isPrev
      /\ rem'.cur = (IF end > i THEN i ELSE Wrap(i + 1))
      /\ rem'.last = (IF end > i THEN end - 1 ELSE end)
      /\ rem'.del = rem.del /\ rem'.before = rem.before
  BY <1>1, <1>7 DEF LoopShape
<1>9. /\ ring' \in Seq(Elems) /\ Len(ring') = max /\ ring'[1] = ring[1]
      /\ IsRelinked(ring', ring, i, end)
  BY <1>1, <1>4, <1>5, <1>6, RelinkNodes
<1>10. i = (IF start + k <= N THEN start + k ELSE start + k - max) /\ k < n
  <2>1. NodeOf(k + 1) = IF start + (k + 1) <= max THEN start + (k + 1)
                        ELSE start + (k + 1) - max
    BY DEF NodeOf
  <2>2. k < n
    BY <1>4a
  <2>3. i = NodeOf(k + 1) - 1
    BY <1>2
  <2>4. QED
    BY <1>4a, <2>1, <2>2, <2>3
<1>11. /\ start' \in 0 .. N /\ end' \in 0 .. N /\ LenOf(start', end') = n - 1
       /\ LeavesOut(ring', start', ring, start, k, n)
       /\ Filled(ring', start', end')
       /\ rem'.last = end' /\ rem'.cur = NodeAt(start', k + 1) - 1 /\ rem'.cur \in 0 .. N
       /\ start' > end' => (rem.isPrev <=> 0 < rem'.cur /\ rem'.cur <= end')
  <2>1. CASE start > end /\ ~rem.isPrev
    <3>1. start' = Wrap(start + 1) /\ end' = end
      BY <1>6, <2>1 DEF MoveIndex
    <3>2. i > end
      BY <1>1, <1>5, <2>1 DEF LoopShape
    <3>3. start + k <= N /\ i = start + k
      <4>1. n = end + max - start
        BY <1>1, <2>1 DEF n, LenOf
      <4>2. QED
        BY <1>1, <1>2, <1>10, <3>2, <4>1
    <3>4. /\ start' \in 0 .. N /\ LenOf(start', end) = n - 1
          /\ LeavesOut(ring', start', ring, start, k, n)
          /\ Filled(ring', start', end)
      <4>1. IsRelinked(ring', ring, start + k, end)
        BY <1>9, <3>3
      <4>2. QED
        BY <1>4, <1>4a, <2>1, <3>1, <3>3, <4>1, UnlinkBeforeWrap DEF n
    <3>5. rem'.last = end /\ rem'.cur = Wrap(i + 1)
      BY <1>1, <1>5, <1>8, <3>2
    <3>6. /\ Wrap(start + 1) = (IF start = N THEN 0 ELSE start + 1)
          /\ Wrap(i + 1) = (IF i = N THEN 0 ELSE i + 1)
      BY <1>1, <1>5 DEF Wrap
    <3>7. rem'.cur = NodeAt(start', k + 1) - 1 /\ rem'.cur \in 0 .. N
      <4>1. NodeAt(start', k + 1) = IF start' + (k + 1) <= max THEN start' + (k + 1)
                                    ELSE start' + (k + 1) - max
        BY DEF NodeAt
      <4>2. QED
        BY <1>5, <1>4a, <3>1, <3>3, <3>5, <3>6, <4>1
    <3>8. start' > end => ~(0 < rem'.cur /\ rem'.cur <= end)
      BY <1>1, <1>5, <3>1, <3>2, <3>5, <3>6
    <3>9. QED
      BY <1>1, <2>1, <3>1, <3>4, <3>5, <3>7, <3>8
  <2>2. CASE ~(start > end /\ ~rem.isPrev)
    <3>1. start > end => rem.isPrev /\ i <= end /\ 0 < i
      BY <1>1, <1>5, <2>2 DEF LoopShape
    <3>2. k < LenOf(start, end) /\ i = NodeAt(start, k + 1) - 1
      BY <1>2, <1>3, <1>10 DEF n
    <3>3. /\ end > i /\ end - 1 \in 0 .. N /\ LenOf(start, end - 1) = n - 1
          /\ LeavesOut(ring', start, ring, start, k, n)
          /\ Filled(ring', start, end - 1)
      BY <1>4, <1>5, <1>9, <1>4a, <3>1, <3>2, UnlinkBeforeEnd DEF n
    <3>4. start' = start /\ end' = end - 1
      <4>1. end # 0
        BY <1>1, <1>5, <3>3
      <4>2. QED
        BY <1>6, <2>2, <4>1 DEF MoveIndex
    <3>5. rem'.last = end - 1 /\ rem'.cur = i
      BY <1>8, <3>3
    <3>6. start > end - 1 => (rem.isPrev <=> 0 < i /\ i <= end - 1)
      <4>1. CASE start > end
        BY <1>1, <1>5, <3>1, <3>3, <4>1
      <4>2. CASE ~(start > end)
        <5>1. start # end
          BY <1>1, <1>2, <3>2 DEF LenOf
        <5>2. QED
          BY <1>1, <4>2, <5>1
      <4>3. QED
        BY <4>1, <4>2
    <3>7. QED
      BY <1>1, <1>5, <3>2, <3>3, <3>4, <3>5, <3>6
  <2>3. QED
    BY <2>1, <2>2
<1>12. Sound'
  <2>1. ShapeInv'
    BY <1>0, <1>9, <1>11 DEF RInv, Sound, ShapeInv
  <2>2. Occupied'
    BY <1>11 DEF Filled, Within, Occupied
  <2>3. QED
    BY <2>1, <2>2 DEF Sound
<1>13. LoopShape'
  <2>1. rem' \in [todo : Seq(Values), cur : 0 .. N, last : 0 .. N, isPrev : BOOLEAN,
                  del : SUBSET Values, before : Seq(Values)]
    <3>1. /\ (IF end > i THEN i ELSE Wrap(i + 1)) \in 0 .. N
          /\ (IF end > i THEN end - 1 ELSE end) \in 0 .. N
      BY <1>8, <1>11
    <3>2. QED
      BY <1>1, <1>7, <3>1 DEF LoopShape
  <2>2. ring'[1] \notin rem'.del /\ Len(rem'.before) <= N
    BY <1>1, <1>8, <1>9 DEF LoopShape
  <2>3. QED
    BY <1>8, <1>11, <2>1, <2>2 DEF LoopShape
<1>14. KeptCount' = k /\ PassedCount' = d + 1
  <2>1. KeptCount' = (n - 1) - (m - 1) /\ PassedCount' = Len(rem.before) - (m - 1)
    <3>1. LenOf(start, end)' = n - 1 /\ Len(rem.todo)' = m - 1
          /\ Len(rem.before)' = Len(rem.before)
      BY <1>1, <1>8, <1>11 DEF LenOf
    <3>2. QED
      BY <3>1 DEF KeptCount, PassedCount
  <2>2. d = Len(rem.before) - m /\ Len(rem.before) \in Nat
    BY <1>1, <1>2
  <2>3. QED
    BY <1>4a, <2>1, <2>2
<1>15. \A j : NodeOf(j)' = NodeAt(start', j)
  BY DEF NodeOf, NodeAt
<1>16. LoopPlace'
  <2>1. rem'.cur = (NodeOf(KeptCount + 1) - 1)'
    BY <1>11, <1>14 DEF NodeOf, NodeAt
  <2>2. \A j \in 1 .. Len(rem'.todo) : /\ rem'.todo[j] = ring'[NodeOf(KeptCount + j)']
                                       /\ rem'.todo[j] = rem'.before[PassedCount' + j]
    <3> SUFFICES ASSUME NEW j \in 1 .. m - 1
                 PROVE  /\ Tail(rem.todo)[j] = ring'[NodeOf(KeptCount + j)']
                        /\ Tail(rem.todo)[j] = rem.before[PassedCount' + j]
      BY <1>1, <1>8
    <3>1. /\ j + 1 \in 1 .. m /\ d + (j + 1) = (d + 1) + j
          /\ k + j \in k + 1 .. n - 1 /\ (k + j) + 1 = k + (j + 1)
      BY <1>4a
    <3>2. NodeOf(KeptCount + j)' = NodeAt(start', k + j)
      BY <1>14 DEF NodeOf, NodeAt
    <3>3. ring'[NodeAt(start', k + j)] = ring[NodeAt(start, (k + j) + 1)]
      BY <1>11, <3>1 DEF LeavesOut
    <3>4. ring[NodeAt(start, (k + j) + 1)] = rem.todo[j + 1]
      BY <1>2, <1>3, <3>1
    <3>5. Tail(rem.todo)[j] = rem.todo[j + 1] /\ rem.todo[j + 1] = rem.before[PassedCount' + j]
      BY <1>1, <1>2, <1>14, <3>1
    <3>6. QED
      BY <3>2, <3>3, <3>4, <3>5
  <2>3. Selected(rem'.before, Values \ rem'.del)[PassedCount'] = sel[d]
    BY <1>1, <1>8, <1>14 DEF sel
  <2>4. /\ Len(Selected(rem'.before, Values \ rem'.del)[PassedCount']) = KeptCount'
        /\ \A j \in 1 .. KeptCount' :
             Selected(rem'.before, Values \ rem'.del)[PassedCount'][j] = ring'[NodeOf(j)']
    BY <1>2, <1>3, <1>11, <1>14, <1>15, <2>3 DEF LeavesOut
  <2>5. PassedCount' \in Nat /\ KeptCount' \in Nat
    BY <1>2, <1>14
  <2>6. QED
    BY <2>1, <2>2, <2>4, <2>5 DEF LoopPlace
<1>17. Queue' = Queue
  BY <1>0, <1>8 DEF Queue
<1>18. QED
  BY <1>0, <1>12, <1>13, <1>16, <1>17 DEF RInv

\* When the loop ends, what it has kept is the queue.
LEMMA UnlockStep ==
  ASSUME RInv, NEW c \in Removers, RemoveUnlock(c)
  PROVE  /\ RInv' /\ Queue' = Select(Queue, Values \ rem.del)
         /\ rem.del \in SUBSET Values
<1>0. /\ c \in Clients /\ c # Free /\ mux = c /\ rem.todo = <<>> /\ mux' = Free
      /\ pc' = [pc EXCEPT ![c] = "idle"] /\ rem' = NoRemove
      /\ UNCHANGED <<ring, start, end, loc>>
  BY QueueAssumption DEF Clients, RemoveUnlock
<1>1. Sound' /\ RInv'
  BY <1>0 DEF RInv, Sound, ShapeInv, Occupied, Places
<1>2. LoopShape /\ LoopPlace
  BY <1>0 DEF RInv
<1> DEFINE n == LenOf(start, end)
           w == Select(rem.before, Values \ rem.del)
<1>3. /\ Contents \in Seq(Values) /\ Len(Contents) = n /\ n \in 0 .. N
      /\ \A i \in 1 .. n : Contents[i] = ring[NodeOf(i)]
  BY ContentsSeq DEF RInv, ContentsOK, NodeOf
<1>4. Len(rem.todo) = 0 /\ rem.before \in Seq(Values) /\ rem.del \in SUBSET Values
  BY <1>0, <1>2 DEF LoopShape
<1>5. KeptCount = n /\ PassedCount = Len(rem.before)
  BY <1>3, <1>4 DEF KeptCount, PassedCount
<1>6. w = Selected(rem.before, Values \ rem.del)[PassedCount] /\ w \in Seq(Values)
  <2>1. Len(rem.before) \in 0 .. Len(rem.before)
    BY <1>4
  <2>2. QED
    BY <1>4, <1>5, <2>1, SelectedSteps DEF Select
<1>7. Len(w) = n /\ \A i \in 1 .. n : w[i] = ring[NodeOf(i)]
  BY <1>2, <1>5, <1>6 DEF LoopPlace
<1> HIDE DEF w, n
<1>8. Contents = w
  <2>1. \A i \in 1 .. n : Contents[i] = w[i]
    BY <1>3, <1>7
  <2>2. QED
    BY <1>3, <1>6, <1>7, <2>1, SeqEqual
<1>9. Queue = rem.before /\ Queue' = Contents'
  BY <1>0 DEF Queue
<1>10. Contents' = Contents
  BY <1>0 DEF Contents, LenOf
<1>11. QED
  BY <1>1, <1>4, <1>8, <1>9, <1>10 DEF w

\* What every step does to the queue as callers see it.
LEMMA StepRInv ==
  ASSUME Removers = {} \/ SparesBase, RInv, [Next]_vars
  PROVE  /\ RInv'
         /\ \/ \E v \in Values : Len(Queue) < N /\ Queue' = Append(Queue, v)
            \/ Queue # <<>> /\ Queue' = Tail(Queue)
            \/ Removers # {} /\ mux # Free /\ mux' = Free /\ rem.del \in SUBSET Values
               /\ Queue' = Select(Queue, Values \ rem.del)
            \/ ~(mux # Free /\ mux' = Free) /\ Queue' = Queue
<1>0. mux = Free => Queue = Contents
  BY DEF Queue
<1>1. CASE UNCHANGED vars
  BY <1>1, SameRing DEF vars, RInv, Sound, ShapeInv
<1>2. ASSUME NEW c \in Producers, NEW v \in Values, Put(c, v)
      PROVE  RInv' /\ Len(Queue) < N /\ Queue' = Append(Queue, v)
  <2>1. Queue = Contents /\ Queue' = Contents'
    BY <1>2 DEF Put, Unlocked, Queue
  <2>2. QED
    BY <1>2, <2>1, PutStep
<1>3. ASSUME NEW c \in Consumers, GetLoadStart(c) \/ GetLoadEnd(c)
      PROVE  RInv' /\ ~(mux # Free /\ mux' = Free) /\ Queue' = Queue
  <2>1. /\ UNCHANGED <<ring, start, end, mux, rem>>
        /\ pc' \in [Clients -> Places]
        /\ loc' \in [Clients -> 0 .. max]
        /\ mux # Free => pc'[mux] = "removing"
    <3>1. StoredStart \in 0 .. max /\ c \in Clients /\ mux \in Clients \cup {Free}
      BY QueueAssumption DEF StoredStart, RInv, Sound, ShapeInv, max, Clients
    <3>2. QED
      BY <1>3, <3>1 DEF GetLoadStart, GetLoadEnd, RInv, Sound, ShapeInv, Places, InCall
  <2>2. QED
    BY <2>1, SameRing
<1>4. ASSUME NEW c \in Consumers, GetTake(c)
      PROVE  /\ RInv' /\ ~(mux # Free /\ mux' = Free)
             /\ Queue' = Queue \/ (Queue # <<>> /\ Queue' = Tail(Queue))
  <2>1. Move(start) = start + 1
    BY DEF Move, RInv, Sound, ShapeInv
  <2>2. mux = Free /\ mux' = Free /\ Queue = Contents /\ Queue' = Contents'
    BY <1>4 DEF GetTake, Unlocked, Queue
  <2>3. CASE ring[start + 1] # Nil
    BY <1>4, <2>2, <2>3, TakeStep
  <2>4. CASE ring[start + 1] = Nil
    <3>1. /\ UNCHANGED <<ring, start, end, mux, rem>>
          /\ pc' \in [Clients -> Places]
          /\ loc' \in [Clients -> 0 .. max]
      BY <1>4, <2>1, <2>4 DEF GetTake, RInv, Sound, ShapeInv, Clients, Places
    <3>2. QED
      BY <2>2, <3>1, SameRing
  <2>5. QED
    BY <2>3, <2>4
<1>5. ASSUME NEW c \in Readers, ReadStep(c)
      PROVE  RInv' /\ ~(mux # Free /\ mux' = Free) /\ Queue' = Queue
  <2>1. /\ UNCHANGED <<ring, start, end, mux, rem>>
        /\ pc' \in [Clients -> Places]
        /\ loc' \in [Clients -> 0 .. max]
        /\ mux # Free => pc'[mux] = "removing"
    <3>1. StoredStart \in 0 .. max /\ c \in Clients /\ mux \in Clients \cup {Free}
      BY QueueAssumption DEF StoredStart, RInv, Sound, ShapeInv, max, Clients
    <3>2. CASE List(c)
      BY <3>1, <3>2 DEF List, Unlocked, RInv, Sound, ShapeInv, Places
    <3>3. CASE LenLoadStart(c) \/ LenLoadEnd(c)
      BY <3>1, <3>3 DEF LenLoadStart, LenLoadEnd, RInv, Sound, ShapeInv, Places, InCall
    <3>4. QED
      BY <1>5, <3>2, <3>3 DEF ReadStep
  <2>2. QED
    BY <2>1, SameRing
<1>6. ASSUME NEW c \in Removers, NEW del \in SUBSET Values, RemoveLock(c, del)
      PROVE  RInv' /\ ~(mux # Free /\ mux' = Free) /\ Queue' = Queue
  BY <1>6, LockStep DEF RemoveLock, Unlocked
<1>7. ASSUME NEW c \in Removers, RemoveKeep(c) \/ RemoveDelete(c)
      PROVE  RInv' /\ ~(mux # Free /\ mux' = Free) /\ Queue' = Queue
  <2>1. mux' = mux
    BY <1>7 DEF RemoveKeep, RemoveDelete
  <2>2. QED
    BY <1>7, <2>1, KeepStep, DeleteStep
<1>8. ASSUME NEW c \in Removers, RemoveUnlock(c)
      PROVE  /\ RInv' /\ Removers # {} /\ mux # Free /\ mux' = Free
             /\ rem.del \in SUBSET Values /\ Queue' = Select(Queue, Values \ rem.del)
  <2>1. mux # Free /\ mux' = Free
    BY <1>8, QueueAssumption DEF RemoveUnlock, Clients
  <2>2. QED
    BY <1>8, <2>1, UnlockStep
<1>8a. ASSUME NEW c \in Clients, StoreWrap(c)
       PROVE  RInv' /\ ~(mux # Free /\ mux' = Free) /\ Queue' = Queue
  <2>1. /\ UNCHANGED <<ring, start, end, mux, rem>>
        /\ pc' \in [Clients -> Places]
        /\ loc' \in [Clients -> 0 .. max]
        /\ mux # Free => pc'[mux] = "removing"
    BY <1>8a DEF StoreWrap, RInv, Sound, ShapeInv, Places
  <2>2. QED
    BY <2>1, SameRing
<1>9. QED
  <2>1. mux = Free \/ ~(mux # Free /\ mux' = Free) \/ (mux # Free /\ mux' = Free)
    OBVIOUS
  <2>2. CASE UNCHANGED vars
    <3>1. RInv' /\ Queue' = Queue /\ mux' = mux
      BY <2>2, SameRing DEF vars, RInv, Sound, ShapeInv
    <3>2. QED
      BY <3>1
  <2>3. CASE Next
    BY <1>2, <1>3, <1>4, <1>5, <1>6, <1>7, <1>8, <1>8a, <2>3 DEF Next, GetStep, RemoveStep
  <2>4. QED
    BY <2>2, <2>3

\* Put, Get and a Remove that spares the node r.r keep RInv.
LEMMA RingInvariance ==
  ASSUME Removers = {} \/ SparesBase
  PROVE  Spec => []RInv
<1>1. RInv /\ [Next]_vars => RInv'
  BY StepRInv
<1>2. QED
  BY <1>1, InitRInv, PTL DEF Spec

\* The nodes from start to end, and no others, hold an element.
THEOREM RingOccupied ==
  ASSUME Removers = {} \/ SparesBase
  PROVE  Spec => []OccupiedExactly
<1>1. RInv => OccupiedExactly
  BY DEF RInv, Sound, Occupied, OccupiedExactly
<1>2. QED
  BY <1>1, RingInvariance, PTL

\* The queue as callers see it is a sequence of at most N elements.
QueueOK == Queue \in Seq(Values) /\ Len(Queue) \in 0 .. N

\* It stays so while Remove is at work.
LEMMA QueueSeq == RInv => QueueOK
<1> SUFFICES ASSUME RInv PROVE Queue \in Seq(Values) /\ Len(Queue) \in 0 .. N
  BY DEF QueueOK
<1>1. CASE mux = Free
  BY <1>1, ContentsSeq DEF RInv, ContentsOK, Queue
<1>2. CASE mux # Free
  <2>1. rem.before \in Seq(Values) /\ Len(rem.before) <= N
    BY <1>2 DEF RInv, LoopShape
  <2>2. Len(rem.before) \in 0 .. N
    BY <2>1, QueueAssumption
  <2>3. QED
    BY <1>2, <2>1, <2>2 DEF Queue
<1>3. QED
  BY <1>1, <1>2

\* Which index may be out of its range: end at max only while a Put holds the
\* lock, which it left at 0 with an element behind it; end at -1 only in Remove.
WrapInv ==
  /\ unwrapped \in {"none", "start", "end", "back"}
  /\ unwrapped = "end" => mux = Free /\ end = 0 /\ start # 0
  /\ unwrapped = "back" => mux # Free

\* Every step records what it does to the calls of Get and Len.
LEMMA Observed == Next => Observe
  BY DEF Next, GetStep, ReadStep, RemoveStep, Put, StoreWrap, GetLoadStart, GetLoadEnd,
         GetTake, List, LenLoadStart, LenLoadEnd, RemoveLock, RemoveKeep, RemoveDelete,
         RemoveUnlock

\* The lock's holder stores the wrapped index before anybody else moves one.
LEMMA StepWrapInv ==
  ASSUME RInv, WrapInv, [Next]_vars
  PROVE  WrapInv'
<1>0. start \in 0 .. N /\ end \in 0 .. N /\ N \in Nat \ {0} /\ max = N + 1
  BY QueueAssumption DEF RInv, Sound, ShapeInv, max
<1>1. CASE UNCHANGED vars
  BY <1>1 DEF vars, WrapInv
<1>2. ASSUME NEW c \in Producers, NEW v \in Values, Put(c, v) PROVE WrapInv'
  <2>1. /\ mux' = Free /\ start' = start /\ end' = Wrap(end + 1) /\ ~Full
        /\ unwrapped' = IF end = N THEN "end" ELSE "none"
    BY <1>2 DEF Put, AfterIncrement, Unlocked
  <2>2. end = N => end' = 0 /\ start # 0
    BY <1>0, <2>1 DEF Wrap, Full
  <2>3. QED
    BY <2>1, <2>2 DEF WrapInv
<1>3. ASSUME NEW c, StoreWrap(c) PROVE WrapInv'
  BY <1>3 DEF StoreWrap, WrapInv
<1>4. ASSUME NEW c, GetLoadStart(c) \/ GetLoadEnd(c) \/ ReadStep(c) PROVE WrapInv'
  BY <1>4 DEF GetLoadStart, GetLoadEnd, ReadStep, List, LenLoadStart, LenLoadEnd, WrapInv
<1>5. ASSUME NEW c, GetTake(c) PROVE WrapInv'
  BY <1>5 DEF GetTake, AfterIncrement, Unlocked, WrapInv
<1>6. ASSUME NEW c \in Removers, NEW del, RemoveLock(c, del) PROVE WrapInv'
  BY <1>6 DEF RemoveLock, Unlocked, WrapInv
<1>7. ASSUME NEW c \in Removers, RemoveStep(c) PROVE WrapInv'
  <2>1. c # Free
    BY QueueAssumption DEF Clients
  <2>2. CASE RemoveKeep(c) \/ RemoveUnlock(c)
    BY <2>2 DEF RemoveKeep, RemoveUnlock, WrapInv
  <2>3. CASE RemoveDelete(c)
    <3>1. mux' # Free /\ unwrapped' \in {"none", "start", "back"}
      BY <2>1, <2>3 DEF RemoveDelete, MoveIndex
    <3>2. QED
      BY <3>1 DEF WrapInv
  <2>4. QED
    BY <1>7, <2>2, <2>3 DEF RemoveStep
<1>8. QED
  BY <1>1, <1>2, <1>3, <1>4, <1>5, <1>6, <1>7 DEF Next, GetStep

\* Both hold of every reachable state.
LEMMA WrapInvariance ==
  ASSUME Removers = {} \/ SparesBase
  PROVE  Spec => [](RInv /\ WrapInv)
<1>1. Init => RInv /\ WrapInv
  BY InitRInv DEF Init, WrapInv
<1>2. RInv /\ WrapInv /\ [Next]_vars => RInv' /\ WrapInv'
  BY StepRInv, StepWrapInv
<1>3. QED
  BY <1>1, <1>2, PTL DEF Spec

\* Indices, nodes and the state of the loop stay within their bounds, the
\* lengths observed within the capacity, and only calls under way are raced.
THEOREM RingTyping ==
  ASSUME Removers = {} \/ SparesBase
  PROVE  Spec => []TypeOK
<1> DEFINE HistoryOK == /\ seen \in [Clients -> SUBSET (0 .. N)]
                        /\ raced \subseteq {c \in Clients : pc[c] \in InCall}
<1>1. Init => HistoryOK
  BY DEF Init
<1>2. RInv /\ HistoryOK /\ [Next]_vars => HistoryOK'
  <2> SUFFICES ASSUME RInv, HistoryOK, [Next]_vars PROVE HistoryOK'
    OBVIOUS
  <2>1. RInv'
    BY StepRInv
  <2>2. Len(Queue') \in 0 .. N
    <3>1. QueueOK'
      BY <2>1, QueueSeq, PTL
    <3>2. QED
      BY <3>1 DEF QueueOK
  <2>3. CASE Observe
    <3>1. seen' \in [Clients -> SUBSET (0 .. N)]
      BY <2>2, <2>3 DEF Observe
    <3>2. raced' \subseteq {c \in Clients : pc'[c] \in InCall}
      BY <2>3 DEF Observe
    <3>3. QED
      BY <3>1, <3>2 DEF InCall
  <2>4. CASE UNCHANGED vars
    BY <2>4 DEF vars, InCall
  <2>5. QED
    BY <2>3, <2>4, Observed
<1>3. RInv /\ WrapInv /\ HistoryOK => TypeOK
  <2> SUFFICES ASSUME RInv, WrapInv, HistoryOK PROVE TypeOK
    OBVIOUS
  <2>1. rem.cur \in -1 .. N /\ rem.last \in 0 .. N /\ rem.isPrev \in BOOLEAN
    <3>1. CASE mux = Free
      <4>1. rem.cur = 0 /\ rem.last = 0 /\ rem.isPrev = FALSE
        BY <3>1 DEF RInv, NoRemove
      <4>2. rem.cur \in -1 .. N /\ rem.last \in 0 .. N
        BY <4>1, QueueAssumption
      <4>3. rem.isPrev \in BOOLEAN
        BY <4>1, Zenon
      <4>4. QED
        BY <4>2, <4>3
    <3>2. CASE mux # Free
      BY <3>2, QueueAssumption DEF RInv, LoopShape
    <3>3. QED
      BY <3>1, <3>2
  <2>2. QED
    BY <2>1 DEF RInv, Sound, ShapeInv, WrapInv, TypeOK, Elems, Places
<1> HIDE DEF HistoryOK
<1>4. QED
  BY <1>1, <1>2, <1>3, WrapInvariance, PTL DEF Spec

\* The ring implements a bounded first-in first-out queue with deletions.
THEOREM RingIsFIFO ==
  ASSUME Removers = {} \/ SparesBase
  PROVE  Spec => IsFIFO
<1>1. Init => FIFO!Init
  <2> SUFFICES ASSUME Init PROVE Queue = <<>>
    BY DEF FIFO!Init
  <2>1. ContentsOK
    BY InitRInv, ContentsSeq DEF RInv
  <2>2. Len(Contents) = 0
    BY <2>1 DEF ContentsOK, LenOf, Init
  <2>3. QED
    BY <2>1, <2>2 DEF ContentsOK, Queue, Init
<1>2. RInv /\ [Next]_vars => [FIFO!Next]_Queue
  <2> SUFFICES ASSUME RInv, [Next]_vars PROVE [FIFO!Next]_Queue
    OBVIOUS
  <2>1. \A S : FIFO!Select(Queue, S) = Select(Queue, S)
    BY DEF FIFO!Select, FIFO!Selected, Select, Selected
  <2>2. CASE \E v \in Values : Len(Queue) < N /\ Queue' = Append(Queue, v)
    BY <2>2 DEF FIFO!Next, FIFO!Put
  <2>3. CASE Queue # <<>> /\ Queue' = Tail(Queue)
    BY <2>3 DEF FIFO!Next, FIFO!Get
  <2>4. CASE /\ Removers # {} /\ rem.del \in SUBSET Values
             /\ Queue' = Select(Queue, Values \ rem.del)
    BY <2>1, <2>4 DEF FIFO!Next, FIFO!Remove
  <2>5. QED
    BY <2>2, <2>3, <2>4, StepRInv
<1>3. QED
  BY <1>1, <1>2, RingInvariance, PTL DEF Spec, IsFIFO, FIFO!Spec

\* When Remove unlocks, exactly the elements that f deletes are gone, and the
\* others are there in their order.
THEOREM RemoveDeletesExactly ==
  ASSUME Removers = {} \/ SparesBase
  PROVE  Spec => RemoveExact
<1> DEFINE Unlocks == mux # Free /\ mux' = Free => Queue' = Select(Queue, Values \ rem.del)
<1>1. RInv /\ [Next]_vars => [Unlocks]_vars
  <2> SUFFICES ASSUME RInv, Next, mux # Free, mux' = Free
               PROVE  Queue' = Select(Queue, Values \ rem.del)
    BY DEF vars
  <2>1. PICK c \in Removers : RemoveUnlock(c)
    BY DEF Next, GetStep, ReadStep, RemoveStep, Put, StoreWrap, Unlocked, GetLoadStart, GetLoadEnd, GetTake,
           List, LenLoadStart, LenLoadEnd, RemoveLock, RemoveKeep, RemoveDelete
  <2>2. QED
    BY <2>1, UnlockStep
<1>2. QED
  BY <1>1, RingInvariance, PTL DEF Spec, RemoveExact

\* A call that no Get or Remove of another client has overlapped: the start
\* it loaded is still the start, and the element it saw is still there.
Fresh(c) ==
  pc[c] \in InCall /\ c \notin raced =>
    /\ mux = Free /\ unwrapped # "start"
    /\ IF pc[c] = "getLock" THEN start # end ELSE loc[c] = start

\* The history variable holds the present length.
SeenNow(c) == pc[c] = "getEnd" => Len(Queue) \in seen[c]

FreshInv == \A c \in Clients : Fresh(c) /\ SeenNow(c)

\* What the loads of a fresh call tell: an end that is out of its range counts
\* as a full turn.
LEMMA FreshLoads ==
  ASSUME RInv, WrapInv, FreshInv, NEW c \in Clients,
         pc[c] \in {"getEnd", "lenEnd"}, c \notin raced
  PROVE  /\ mux = Free /\ loc[c] = start
         /\ loc[c] = StoredEnd <=> start = end
         /\ LenOf(loc[c], StoredEnd) = LenOf(start, end)
<1>0. start \in 0 .. N /\ end \in 0 .. N /\ N \in Nat \ {0} /\ max = N + 1
  BY QueueAssumption DEF RInv, Sound, ShapeInv, max
<1>1. mux = Free /\ unwrapped # "start" /\ loc[c] = start
  BY DEF FreshInv, Fresh, InCall
<1>2. \/ unwrapped = "none" /\ StoredEnd = end
      \/ unwrapped = "end" /\ StoredEnd = max /\ end = 0 /\ start # 0
  BY <1>1 DEF WrapInv, StoredEnd
<1>3. CASE StoredEnd = end
  BY <1>1, <1>3
<1>4. CASE StoredEnd = max /\ end = 0 /\ start # 0
  BY <1>0, <1>1, <1>4 DEF LenOf
<1>5. QED
  BY <1>1, <1>2, <1>3, <1>4

\* Only the client itself moves on in its call.
LEMMA OwnSteps ==
  ASSUME RInv, Next, NEW c \in Clients, pc[c] \in InCall, pc'[c] # pc[c]
  PROVE  \/ c \in Consumers /\ (GetLoadEnd(c) \/ GetTake(c))
         \/ c \in Readers /\ LenLoadEnd(c)
<1>0. pc \in [Clients -> Places] /\ (mux # Free => pc[mux] = "removing") /\ Free \notin Clients
  BY QueueAssumption DEF RInv, Sound, ShapeInv
<1>1. ASSUME NEW d \in Producers, NEW v \in Values, Put(d, v) PROVE FALSE
  BY <1>0, <1>1 DEF Put, AfterIncrement, InCall, Clients
<1>2. ASSUME NEW d \in Consumers, GetLoadStart(d) PROVE FALSE
  BY <1>0, <1>2 DEF GetLoadStart, InCall, Clients
<1>3. ASSUME NEW d \in Consumers, GetLoadEnd(d) \/ GetTake(d) PROVE d = c
  BY <1>0, <1>3 DEF GetLoadEnd, GetTake, AfterIncrement, InCall, Clients
<1>4. ASSUME NEW d \in Readers, List(d) \/ LenLoadStart(d) PROVE FALSE
  BY <1>0, <1>4 DEF List, LenLoadStart, InCall, Clients
<1>5. ASSUME NEW d \in Readers, LenLoadEnd(d) PROVE d = c
  BY <1>0, <1>5 DEF LenLoadEnd, InCall, Clients
<1>6. ASSUME NEW d \in Clients, StoreWrap(d) PROVE FALSE
  BY <1>0, <1>6 DEF StoreWrap, InCall
<1>7. ASSUME NEW d \in Removers, NEW del, RemoveLock(d, del) PROVE FALSE
  BY <1>0, <1>7 DEF RemoveLock, InCall, Clients
<1>8. ASSUME NEW d \in Removers, RemoveStep(d) PROVE FALSE
  BY <1>0, <1>8 DEF RemoveStep, RemoveKeep, RemoveDelete, RemoveUnlock, InCall, Clients
<1>9. QED
  BY <1>1, <1>2, <1>3, <1>4, <1>5, <1>6, <1>7, <1>8 DEF Next, GetStep, ReadStep

\* And only it loads start, when the call begins.
LEMMA LocSteps ==
  ASSUME RInv, Next, NEW c \in Clients, pc'[c] \in InCall
  PROVE  \/ loc'[c] = StoredStart /\ pc'[c] # "getLock" /\ unwrapped' = unwrapped
         \/ loc'[c] = loc[c] /\ pc[c] \in InCall
<1>0. /\ pc \in [Clients -> Places] /\ loc \in [Clients -> 0 .. max]
      /\ (mux # Free => pc[mux] = "removing") /\ Free \notin Clients
  BY QueueAssumption DEF RInv, Sound, ShapeInv
<1>1. ASSUME NEW d \in Producers, NEW v \in Values, Put(d, v)
      PROVE  loc' = loc /\ pc[c] \in InCall
  BY <1>0, <1>1 DEF Put, AfterIncrement, InCall, Clients
<1>2. ASSUME NEW d \in Consumers, GetLoadStart(d)
      PROVE  \/ loc'[c] = StoredStart /\ pc'[c] # "getLock" /\ unwrapped' = unwrapped
             \/ loc'[c] = loc[c] /\ pc[c] \in InCall
  BY <1>0, <1>2 DEF GetLoadStart, InCall, Clients
<1>3. ASSUME NEW d \in Consumers, GetLoadEnd(d) \/ GetTake(d)
      PROVE  loc' = loc /\ pc[c] \in InCall
  BY <1>0, <1>3 DEF GetLoadEnd, GetTake, AfterIncrement, InCall, Clients
<1>4. ASSUME NEW d \in Readers, LenLoadStart(d)
      PROVE  \/ loc'[c] = StoredStart /\ pc'[c] # "getLock" /\ unwrapped' = unwrapped
             \/ loc'[c] = loc[c] /\ pc[c] \in InCall
  BY <1>0, <1>4 DEF LenLoadStart, InCall, Clients
<1>5. ASSUME NEW d \in Readers, List(d) \/ LenLoadEnd(d)
      PROVE  loc' = loc /\ pc[c] \in InCall
  BY <1>0, <1>5 DEF List, LenLoadEnd, InCall, Clients
<1>6. ASSUME NEW d \in Clients, StoreWrap(d)
      PROVE  loc' = loc /\ pc[c] \in InCall
  BY <1>0, <1>6 DEF StoreWrap, InCall
<1>7. ASSUME NEW d \in Removers, RemoveStep(d) \/ \E del \in SUBSET Values : RemoveLock(d, del)
      PROVE  loc' = loc /\ pc[c] \in InCall
  BY <1>0, <1>7 DEF RemoveStep, RemoveKeep, RemoveDelete, RemoveUnlock, RemoveLock, InCall, Clients
<1>8. QED
  BY <1>1, <1>2, <1>3, <1>4, <1>5, <1>6, <1>7 DEF Next, GetStep, ReadStep

\* While nobody takes or removes, a queue that has an element keeps one.
LEMMA StaysFilled ==
  ASSUME RInv, Next, mux = Free, mux' = Free, start' = start, start # end
  PROVE  start' # end'
<1>0. start \in 0 .. N /\ end \in 0 .. N /\ N \in Nat \ {0} /\ max = N + 1
  BY QueueAssumption DEF RInv, Sound, ShapeInv, max
<1>1. ASSUME NEW d \in Producers, NEW v \in Values, Put(d, v) PROVE start # end'
  BY <1>0, <1>1 DEF Put, Wrap, Full
<1>2. ASSUME NEW d \in Removers, RemoveStep(d) PROVE FALSE
  BY <1>2, QueueAssumption DEF RemoveStep, RemoveKeep, RemoveDelete, RemoveUnlock, Clients
<1>3. ASSUME NEW d, \/ GetStep(d) \/ ReadStep(d) \/ StoreWrap(d)
                    \/ \E del \in SUBSET Values : RemoveLock(d, del)
      PROVE  end' = end
  BY <1>3 DEF GetStep, ReadStep, GetLoadStart, GetLoadEnd, GetTake, List, LenLoadStart,
              LenLoadEnd, StoreWrap, RemoveLock
<1>4. QED
  BY <1>1, <1>2, <1>3 DEF Next

\* A call stays fresh as long as it is not raced.
LEMMA StepFresh ==
  ASSUME RInv, WrapInv, FreshInv, [Next]_vars
  PROVE  FreshInv'
<1>1. CASE UNCHANGED vars
  BY <1>1 DEF vars, FreshInv, Fresh, SeenNow, Queue, Contents, LenOf
<1>2. CASE Next
  <2> SUFFICES ASSUME NEW c \in Clients PROVE Fresh(c)' /\ SeenNow(c)'
    BY DEF FreshInv
  <2>1. Observe
    BY <1>2, Observed
  <2>2. SeenNow(c)'
    BY <2>1 DEF Observe, SeenNow
  <2>3. Fresh(c)'
    <3> SUFFICES ASSUME pc'[c] \in InCall, c \notin raced'
                 PROVE  /\ mux' = Free /\ unwrapped' # "start"
                        /\ IF pc'[c] = "getLock" THEN start' # end' ELSE loc'[c] = start'
      BY DEF Fresh, InCall
    <3>1. c \notin raced /\ mux' = Free /\ unwrapped' # "start" /\ start' = start
      BY <2>1 DEF Observe
    <3>2. CASE pc[c] \in InCall /\ pc'[c] = pc[c] /\ loc'[c] = loc[c]
      <4>1. mux = Free /\ IF pc[c] = "getLock" THEN start # end ELSE loc[c] = start
        BY <3>1, <3>2 DEF FreshInv, Fresh
      <4>2. QED
        BY <1>2, <3>1, <3>2, <4>1, StaysFilled
    <3>3. CASE pc[c] \in InCall /\ pc'[c] # pc[c]
      <4>1. GetLoadEnd(c)
        BY <1>2, <3>3, OwnSteps DEF GetTake, AfterIncrement, LenLoadEnd, InCall, RInv, Sound, ShapeInv
      <4>2. pc[c] = "getEnd" /\ pc'[c] = "getLock" /\ loc[c] # StoredEnd /\ end' = end
        BY <3>3, <4>1 DEF GetLoadEnd, InCall, RInv, Sound, ShapeInv
      <4>3. start # end
        BY <3>1, <4>2, FreshLoads
      <4>4. QED
        BY <3>1, <4>2, <4>3
    <3>4. CASE loc'[c] = StoredStart /\ pc'[c] # "getLock" /\ unwrapped' = unwrapped
      BY <3>1, <3>4 DEF StoredStart
    <3>5. QED
      BY <1>2, <3>2, <3>3, <3>4, LocSteps
  <2>4. QED
    BY <2>2, <2>3
<1>3. QED
  BY <1>1, <1>2

\* All three hold of every reachable state.
LEMMA FreshInvariance ==
  ASSUME Removers = {} \/ SparesBase
  PROVE  Spec => [](RInv /\ WrapInv /\ FreshInv)
<1>1. Init => RInv /\ WrapInv /\ FreshInv
  BY InitRInv DEF Init, WrapInv, FreshInv, Fresh, SeenNow, InCall
<1>2. RInv /\ WrapInv /\ FreshInv /\ [Next]_vars => (RInv /\ WrapInv /\ FreshInv)'
  BY StepRInv, StepWrapInv, StepFresh
<1>3. QED
  BY <1>1, <1>2, PTL DEF Spec

\* Between the two stores of a Put as well, a Len that only Puts overlap
\* answers the number of elements.
THEOREM LenCountsAmongPuts ==
  ASSUME Removers = {} \/ SparesBase
  PROVE  Spec => []LenExactAmongPuts
<1>1. RInv /\ WrapInv /\ FreshInv => LenExactAmongPuts
  <2> SUFFICES ASSUME RInv, WrapInv, FreshInv, NEW c \in Readers,
                      pc[c] = "lenEnd", c \notin raced
               PROVE  LenOf(loc[c], StoredEnd) = Len(Queue)
    BY DEF LenExactAmongPuts
  <2>1. mux = Free /\ LenOf(loc[c], StoredEnd) = LenOf(start, end)
    BY FreshLoads DEF Clients
  <2>2. Len(Contents) = LenOf(start, end)
    BY ContentsSeq DEF RInv, ContentsOK
  <2>3. QED
    BY <2>1, <2>2 DEF Queue
<1>2. QED
  BY <1>1, FreshInvariance, PTL

\* A Get that meets an empty node behind its test was overtaken by another
\* client's Get or Remove, whatever the producers do.
THEOREM PanicOnlyWhenRaced ==
  ASSUME Removers = {} \/ SparesBase
  PROVE  Spec => PanicNeedsRace
<1> DEFINE PanicStep == \A c \in Consumers :
              pc[c] = "getLock" /\ pc'[c] = "panicked" => c \in raced
<1>1. RInv /\ WrapInv /\ FreshInv /\ [Next]_vars => [PanicStep]_vars
  <2> SUFFICES ASSUME RInv, FreshInv, Next, NEW c \in Consumers,
                      pc[c] = "getLock", pc'[c] = "panicked", c \notin raced
               PROVE  FALSE
    BY DEF vars
  <2>1. c \in Clients /\ pc \in [Clients -> Places]
    BY DEF Clients, RInv, Sound, ShapeInv
  <2>2. GetTake(c)
    BY <2>1, OwnSteps DEF InCall, GetLoadEnd, LenLoadEnd
  <2>3. ring[start + 1] = Nil
    BY <2>1, <2>2 DEF GetTake, AfterIncrement, Move, RInv, Sound, ShapeInv
  <2>4. start = end
    BY <2>3, QueueAssumption DEF RInv, Sound, ShapeInv, Occupied
  <2>5. start # end
    BY <2>1 DEF FreshInv, Fresh, InCall
  <2>6. QED
    BY <2>4, <2>5
<1>2. QED
  BY <1>1, FreshInvariance, PTL DEF Spec, PanicNeedsRace

\* A Get that answers QueueNull was under way while the queue was empty, or
\* was overlapped by another client's Get or Remove.
THEOREM NullOnlyWhenEmpty ==
  ASSUME Removers = {} \/ SparesBase
  PROVE  Spec => NullMeansEmpty
<1> DEFINE NullStep == \A c \in Consumers :
              pc[c] = "getEnd" /\ pc'[c] = "idle" => 0 \in seen[c] \/ c \in raced
<1>1. RInv /\ WrapInv /\ FreshInv /\ [Next]_vars => [NullStep]_vars
  <2> SUFFICES ASSUME RInv, WrapInv, FreshInv, Next, NEW c \in Consumers,
                      pc[c] = "getEnd", pc'[c] = "idle", c \notin raced
               PROVE  0 \in seen[c]
    BY DEF vars
  <2>1. c \in Clients /\ pc \in [Clients -> Places]
    BY DEF Clients, RInv, Sound, ShapeInv
  <2>2. GetLoadEnd(c)
    BY <2>1, OwnSteps DEF InCall, GetTake, LenLoadEnd
  <2>3. loc[c] = StoredEnd
    BY <2>1, <2>2 DEF GetLoadEnd
  <2>4. mux = Free /\ start = end
    BY <2>1, <2>3, FreshLoads
  <2>5. Len(Queue) = 0
    <3>1. Queue = Contents /\ Len(Contents) = LenOf(start, end)
      BY <2>4, ContentsSeq DEF ContentsOK, Queue, RInv
    <3>2. LenOf(start, end) = 0
      BY <2>4 DEF LenOf, RInv, Sound, ShapeInv
    <3>3. QED
      BY <3>1, <3>2
  <2>6. QED
    BY <2>1, <2>5 DEF FreshInv, SeenNow
<1>2. QED
  BY <1>1, FreshInvariance, PTL DEF Spec, NullMeansEmpty

-----------------------------------------------------------------------------
(* Goroutines that append to an ArraySet at the same time do not get in    *)
(* each other's way and lose nothing, and one goroutine stores no value    *)
(* twice, for any capacity, any elements and any finite number of          *)
(* goroutines.  A full callback that resets the set is allowed where only  *)
(* one goroutine uses the set.                                             *)

\* The goroutines that hold an index past the capacity.
Over == {a \in Appenders : apc[a] \in {"giveBack", "giveUp"}}

ASType ==
  /\ arr \in [Slots -> Elements \cup {Zero}]
  /\ cur \in Int /\ cur >= -1
  /\ callback \in Callbacks
  /\ apc \in [Appenders -> {"idle", "bump", "giveBack", "callback", "retry",
                            "giveUp", "store", "panicked"}]
  /\ aval \in [Appenders -> Elements \cup {Zero}]
  /\ slot \in [Appenders -> Int]

\* One goroutine at most uses the set; the others never start a call.
Alone == \A a, b \in using : a = b
OnlyUsers == using \subseteq Appenders /\ \A a \in Appenders \ using : apc[a] = "idle"

\* Where the counter may be shared: see Shareable.
Fits == callback # "flush" \/ Alone

\* The counter has been pushed past the last slot by each of them and by
\* nobody else; above it every slot is free, and so is a slot promised to a
\* goroutine.
ASInv ==
  /\ ASType
  /\ Over # {} => cur >= Size - 1 + Cardinality(Over)
  /\ cur <= Size - 1 + Cardinality(Over)
  /\ \A i \in Slots : i > cur => arr[i] = Zero
  /\ \A a \in Appenders : apc[a] = "store" =>
       /\ slot[a] \in Slots
       /\ slot[a] <= cur
       /\ arr[slot[a]] = Zero
       /\ \A b \in Appenders \ {a} : apc[b] = "store" => slot[b] # slot[a]

\* An accepted value was handed over or is in a slot that nobody will store to.
Settled(i) == i <= cur /\ \A a \in Appenders : apc[a] = "store" => slot[a] # i
Kept ==
  \A v \in accepted : v \in handed \/ \E i \in Slots : Settled(i) /\ arr[i] = v

\* A slot up to the counter holds an accepted value or is promised.
Promised(i) == \E a \in Appenders : apc[a] = "store" /\ slot[a] = i
Backed == \A i \in Slots : i <= cur => arr[i] \in accepted \/ Promised(i)

\* Of a goroutine that is alone: the value it is about to append is not in the
\* slots before the one it gets, and past a callback the set is full or empty.
AloneInv ==
  /\ \A i, j \in Slots : i < j /\ j <= cur /\ arr[i] = arr[j] =>
       \E a \in using : apc[a] = "store" /\ slot[a] = j
  /\ \A a \in Appenders :
       /\ apc[a] = "bump" => ~Include(aval[a])
       /\ apc[a] = "callback" => cur >= Size - 1
       /\ apc[a] = "retry" => cur = -1 \/ cur >= Size - 1
       /\ apc[a] = "store" =>
            slot[a] = cur /\ \A i \in Slots : i < cur => arr[i] # aval[a]

SetInv ==
  /\ OnlyUsers /\ DOMAIN apc = Appenders
  /\ Fits => ASInv /\ Kept /\ Backed
  /\ Alone => AloneInv

\* The goroutines that hold such an index are finitely many.
LEMMA OverFinite == IsFiniteSet(Over) /\ Cardinality(Over) \in Nat
  BY ArraySetAssumption, FS_Subset, FS_CardinalityType DEF Over

\* A new set satisfies the invariant.
LEMMA ASInitInv == ASInit => ASInv
<1> SUFFICES ASSUME ASInit PROVE ASInv
  OBVIOUS
<1>1. Over = {}
  BY DEF ASInit, Over
<1>2. ASType
  BY ArraySetAssumption DEF ASInit, ASType, NewArray
<1>3. Cardinality(Over) = 0 /\ Size \in Nat \ {0}
  BY <1>1, FS_EmptySet, ArraySetAssumption
<1>4. QED
  BY <1>1, <1>2, <1>3 DEF ASInit, ASInv, NewArray

\* Taking an index: a free slot that nobody else has, or one past the end.
LEMMA TakeIndexInv ==
  ASSUME ASInv, NEW a \in Appenders, NEW full \in {"giveBack", "giveUp"},
         apc[a] \in {"bump", "retry"}, TakeIndex(a, full),
         UNCHANGED <<arr, callback, aval>>
  PROVE  ASInv'
<1>0. Size \in Nat \ {0} /\ cur \in Int /\ cur >= -1
  BY ArraySetAssumption DEF ASInv, ASType
<1>1. ASType'
  BY <1>0 DEF ASInv, ASType, TakeIndex
<1>2. a \notin Over
  BY DEF Over
<1>3. CASE cur + 1 < Size
  <2>1. cur' = cur + 1 /\ slot' = [slot EXCEPT ![a] = cur + 1]
        /\ apc' = [apc EXCEPT ![a] = "store"]
    BY <1>3 DEF TakeIndex
  <2>2. Over = {}
    BY <1>0, <1>3, OverFinite DEF ASInv
  <2>3. Over' = {}
    BY <2>1, <2>2 DEF Over, ASInv, ASType
  <2>4. /\ \A i \in Slots : i > cur' => arr'[i] = Zero
        /\ cur' <= Size - 1 + Cardinality(Over')
    BY <1>0, <1>3, <2>1, <2>3, FS_EmptySet DEF ASInv, Slots
  <2>5. ASSUME NEW b \in Appenders, apc'[b] = "store"
        PROVE  /\ slot'[b] \in Slots
               /\ slot'[b] <= cur'
               /\ arr'[slot'[b]] = Zero
               /\ \A c \in Appenders \ {b} : apc'[c] = "store" => slot'[c] # slot'[b]
    <3>1. cur + 1 \in Slots /\ arr[cur + 1] = Zero
      BY <1>0, <1>3 DEF ASInv, Slots
    <3>2. \A c \in Appenders \ {a} :
            apc'[c] = apc[c] /\ slot'[c] = slot[c] /\ (apc[c] = "store" => slot[c] <= cur)
      BY <2>1 DEF ASInv, ASType
    <3>3. slot'[a] = cur + 1
      BY <2>1 DEF ASInv, ASType
    <3>4. \A c \in Appenders : slot[c] \in Int
      BY DEF ASInv, ASType
    <3>5. CASE b = a
      BY <1>0, <2>1, <3>1, <3>2, <3>3, <3>4, <3>5
    <3>6. CASE b # a
      BY <1>0, <2>1, <2>5, <3>2, <3>3, <3>4, <3>6 DEF ASInv
    <3>7. QED
      BY <3>5, <3>6
  <2>6. QED
    BY <1>1, <2>3, <2>4, <2>5 DEF ASInv
<1>4. CASE ~(cur + 1 < Size)
  <2>1. cur' = cur + 1 /\ slot' = [slot EXCEPT ![a] = cur + 1]
        /\ apc' = [apc EXCEPT ![a] = full]
    BY <1>4 DEF TakeIndex
  <2>2. Over' = Over \cup {a}
    BY <2>1 DEF Over, ASInv, ASType
  <2>3. Cardinality(Over') = Cardinality(Over) + 1
    BY <1>2, <2>2, OverFinite, FS_AddElement
  <2>4. /\ cur' >= Size - 1 + Cardinality(Over')
        /\ cur' <= Size - 1 + Cardinality(Over')
    <3>1. CASE Over = {}
      BY <1>0, <1>4, <2>1, <2>3, <3>1, FS_EmptySet DEF ASInv
    <3>2. CASE Over # {}
      BY <1>0, <2>1, <2>3, <3>2, OverFinite DEF ASInv
    <3>3. QED
      BY <3>1, <3>2
  <2>5. \A i \in Slots : i > cur' => arr'[i] = Zero
    BY <1>0, <2>1 DEF ASInv, Slots
  <2>6. ASSUME NEW b \in Appenders, apc'[b] = "store"
        PROVE  /\ slot'[b] \in Slots
               /\ slot'[b] <= cur'
               /\ arr'[slot'[b]] = Zero
               /\ \A c \in Appenders \ {b} : apc'[c] = "store" => slot'[c] # slot'[b]
    <3>1. \A c \in Appenders : apc'[c] = "store" =>
            c # a /\ apc[c] = "store" /\ slot'[c] = slot[c]
      BY <2>1 DEF ASInv, ASType
    <3>2. slot[b] \in Int
      BY DEF ASInv, ASType
    <3>3. QED
      BY <1>0, <2>1, <2>6, <3>1, <3>2 DEF ASInv
  <2>7. QED
    BY <1>1, <2>4, <2>5, <2>6 DEF ASInv
<1>5. QED
  BY <1>3, <1>4

\* Giving an index back: the counter does not fall below the last slot.
LEMMA GiveBackInv ==
  ASSUME ASInv, NEW a \in Appenders, a \in Over, cur' = cur - 1,
         NEW next \in {"idle", "callback"}, apc' = [apc EXCEPT ![a] = next],
         slot' = [slot EXCEPT ![a] = -1],
         aval' \in [Appenders -> Elements \cup {Zero}],
         UNCHANGED <<arr, callback>>
  PROVE  ASInv'
<1>0. Size \in Nat \ {0} /\ cur \in Int /\ cur >= -1
  BY ArraySetAssumption DEF ASInv, ASType
<1>1. Over' = Over \ {a}
  BY DEF Over, ASInv, ASType
<1>2. Cardinality(Over') = Cardinality(Over) - 1
  BY <1>1, OverFinite, FS_RemoveElement
<1>3. Cardinality(Over) \in Nat /\ Cardinality(Over) >= 1
  <2>1. Cardinality(Over) # 0
    BY OverFinite, FS_EmptySet
  <2>2. QED
    BY <2>1, OverFinite
<1>4. /\ cur' >= Size - 1 + Cardinality(Over') /\ cur' >= Size - 1
      /\ cur' <= Size - 1 + Cardinality(Over')
  <2>1. cur >= Size - 1 + Cardinality(Over) /\ cur <= Size - 1 + Cardinality(Over)
    BY DEF ASInv
  <2>2. QED
    BY <1>0, <1>2, <1>3, <2>1
<1>5. ASType'
  <2>1. cur' \in Int /\ cur' >= -1
    BY <1>0, <1>4
  <2>2. slot' \in [Appenders -> Int]
    BY DEF ASInv, ASType
  <2>3. apc' \in [Appenders -> {"idle", "bump", "giveBack", "callback", "retry",
                               "giveUp", "store", "panicked"}]
    BY DEF ASInv, ASType
  <2>4. QED
    BY <2>1, <2>2, <2>3 DEF ASInv, ASType
<1>6. \A i \in Slots : ~(i > cur')
  BY <1>0, <1>4 DEF Slots
<1>7. ASSUME NEW b \in Appenders, apc'[b] = "store"
      PROVE  /\ slot'[b] \in Slots
             /\ slot'[b] <= cur'
             /\ arr'[slot'[b]] = Zero
             /\ \A c \in Appenders \ {b} : apc'[c] = "store" => slot'[c] # slot'[b]
  <2>1. \A c \in Appenders : apc'[c] = "store" =>
          c # a /\ apc[c] = "store" /\ slot'[c] = slot[c]
    BY DEF ASInv, ASType
  <2>2. slot[b] \in Slots
    BY <1>7, <2>1 DEF ASInv
  <2>3. slot[b] <= cur'
    BY <1>0, <1>4, <2>2 DEF Slots
  <2>4. QED
    BY <1>7, <2>1, <2>2, <2>3 DEF ASInv
<1>8. QED
  BY <1>4, <1>5, <1>6, <1>7 DEF ASInv

\* Every step keeps the invariant.
LEMMA ASNextInv ==
  ASSUME OnlyUsers, Fits, ASInv, [ASNext]_setVars
  PROVE  ASInv'
<1>0. Size \in Nat \ {0} /\ cur \in Int /\ cur >= -1
  BY ArraySetAssumption DEF ASInv, ASType
<1>1. CASE UNCHANGED setVars
  BY <1>1 DEF setVars, ASInv, ASType, Over
<1>2. CASE ResetSet
  <2>1. Over' = {}
    BY <1>2 DEF ResetSet, Over
  <2>2. Cardinality(Over') = 0
    BY <2>1, FS_EmptySet
  <2>3. QED
    BY <1>0, <1>2, <2>1, <2>2 DEF ResetSet, ASInv, ASType, NewArray
\* A step that changes neither the array nor the counter, and that neither
\* takes nor gives back an index.
<1>3. ASSUME NEW a \in Appenders, apc[a] \notin {"giveBack", "giveUp", "store"},
             NEW next \in {"idle", "bump", "retry"}, apc' = [apc EXCEPT ![a] = next],
             aval' \in [Appenders -> Elements \cup {Zero}],
             slot' = slot \/ slot' = [slot EXCEPT ![a] = -1],
             UNCHANGED <<arr, cur, callback>>
      PROVE  ASInv'
  <2>1. Over' = Over
    BY <1>3 DEF Over, ASInv, ASType
  <2>2. ASType'
    BY <1>3 DEF ASInv, ASType
  <2>3. \A c \in Appenders : apc'[c] = "store" => apc[c] = "store" /\ slot'[c] = slot[c]
    BY <1>3 DEF ASInv, ASType
  <2>4. QED
    BY <1>3, <2>1, <2>2, <2>3 DEF ASInv
<1>4. ASSUME NEW a \in Appenders, NEW v \in Elements, AppendScan(a, v)
      PROVE  ASInv'
  BY <1>3, <1>4 DEF AppendScan, ASInv, ASType
<1>5. ASSUME NEW a \in Appenders, Bump(a) PROVE ASInv'
  BY <1>5, TakeIndexInv DEF Bump
<1>6. ASSUME NEW a \in Appenders, Retry(a) PROVE ASInv'
  BY <1>6, TakeIndexInv DEF Retry
<1>7. ASSUME NEW a \in Appenders, GiveBack(a) PROVE ASInv'
  <2>1. a \in Over /\ cur' = cur - 1 /\ UNCHANGED <<arr, callback>>
        /\ slot' = [slot EXCEPT ![a] = -1]
        /\ aval' \in [Appenders -> Elements \cup {Zero}]
    BY <1>7 DEF GiveBack, Return, Over, ASInv, ASType
  <2>2. \E next \in {"idle", "callback"} : apc' = [apc EXCEPT ![a] = next]
    BY <1>7 DEF GiveBack, Return
  <2>3. QED
    BY <2>1, <2>2, GiveBackInv
<1>8. ASSUME NEW a \in Appenders, GiveUp(a) PROVE ASInv'
  <2>1. a \in Over /\ cur' = cur - 1 /\ UNCHANGED <<arr, callback>>
        /\ slot' = [slot EXCEPT ![a] = -1]
        /\ aval' \in [Appenders -> Elements \cup {Zero}]
        /\ apc' = [apc EXCEPT ![a] = "idle"]
    BY <1>8 DEF GiveUp, Return, Over, ASInv, ASType
  <2>2. QED
    BY <2>1, GiveBackInv
<1>9. ASSUME NEW a \in Appenders, FullCallback(a) PROVE ASInv'
  <2>1. CASE callback # "flush"
    <3>1. /\ apc[a] = "callback" /\ UNCHANGED <<arr, cur, callback>>
          /\ slot' = slot \/ slot' = [slot EXCEPT ![a] = -1]
          /\ aval' \in [Appenders -> Elements \cup {Zero}]
      BY <1>9, <2>1 DEF FullCallback, Return, ASInv, ASType
    <3>2. \E next \in {"idle", "retry"} : apc' = [apc EXCEPT ![a] = next]
      BY <1>9, <2>1 DEF FullCallback, Return
    <3>3. QED
      BY <1>3, <3>1, <3>2
  \* The goroutine is alone: the others hold no index.
  <2>2. CASE callback = "flush"
    <3>1. /\ apc[a] = "callback" /\ apc' = [apc EXCEPT ![a] = "retry"]
          /\ arr' = NewArray /\ cur' = -1 /\ UNCHANGED <<aval, slot, callback>>
      BY <1>9, <2>2 DEF FullCallback
    <3>2. \A b \in Appenders \ {a} : apc[b] = "idle"
      BY <2>2, <3>1 DEF OnlyUsers, Fits, Alone
    <3>3. \A b \in Appenders : apc'[b] \in {"idle", "retry"}
      BY <3>1, <3>2 DEF ASInv, ASType
    <3>4. Over' = {} /\ Cardinality(Over') = 0
      BY <3>3, FS_EmptySet DEF Over
    <3>5. ASType'
      BY <1>0, <3>1 DEF ASInv, ASType, NewArray
    <3>6. QED
      BY <1>0, <3>1, <3>3, <3>4, <3>5 DEF ASInv, NewArray
  <2>3. QED
    BY <2>1, <2>2
<1>10. ASSUME NEW a \in Appenders, Store(a) PROVE ASInv'
  <2>1. /\ apc[a] = "store" /\ slot[a] \in Slots /\ slot[a] <= cur
        /\ aval[a] \in Elements \cup {Zero}
    BY <1>10 DEF Store, ASInv, ASType
  <2>2. /\ arr' = [arr EXCEPT ![slot[a]] = aval[a]]
        /\ apc' = [apc EXCEPT ![a] = "idle"]
        /\ slot' = [slot EXCEPT ![a] = -1]
        /\ aval' = [aval EXCEPT ![a] = Zero]
        /\ UNCHANGED <<cur, callback>>
    BY <1>10, <2>1 DEF Store, Return
  <2>3. Over' = Over
    BY <2>1, <2>2 DEF Over, ASInv, ASType
  <2>4. ASType'
    BY <2>1, <2>2 DEF ASInv, ASType
  <2>5. \A i \in Slots : i > cur' => arr'[i] = Zero
    BY <1>0, <2>1, <2>2 DEF ASInv, ASType, Slots
  <2>6. ASSUME NEW b \in Appenders, apc'[b] = "store"
        PROVE  /\ slot'[b] \in Slots
               /\ slot'[b] <= cur'
               /\ arr'[slot'[b]] = Zero
               /\ \A c \in Appenders \ {b} : apc'[c] = "store" => slot'[c] # slot'[b]
    <3>1. \A c \in Appenders : apc'[c] = "store" =>
            c # a /\ apc[c] = "store" /\ slot'[c] = slot[c]
      BY <2>2 DEF ASInv, ASType
    <3>2. slot[b] # slot[a] /\ slot[b] \in Slots /\ arr[slot[b]] = Zero
      BY <2>1, <2>6, <3>1 DEF ASInv
    <3>3. arr'[slot[b]] = Zero
      BY <2>2, <3>2 DEF ASInv, ASType
    <3>4. QED
      BY <2>2, <2>6, <3>1, <3>2, <3>3 DEF ASInv
  <2>7. QED
    BY <2>2, <2>3, <2>4, <2>5, <2>6 DEF ASInv
<1>11. QED
  BY <1>1, <1>2, <1>4, <1>5, <1>6, <1>7, <1>8, <1>9, <1>10 DEF ASNext, AppendStep

\* No step changes who uses the set or the kind of callback.
LEMMA SameUse ==
  ASSUME OnlyUsers, [ASNext]_setVars
  PROVE  UNCHANGED <<using, callback>>
BY DEF ASNext, AppendStep, ResetSet, AppendScan, Bump, GiveBack, FullCallback,
       Retry, GiveUp, Store, setVars

\* A goroutine that does not use the set stays where it is.
LEMMA OnlyUsersStep ==
  ASSUME OnlyUsers, DOMAIN apc = Appenders, [ASNext]_setVars
  PROVE  OnlyUsers' /\ DOMAIN apc' = Appenders
<1>1. UNCHANGED using
  BY SameUse
<1>2. CASE UNCHANGED setVars \/ ResetSet
  BY <1>2 DEF OnlyUsers, setVars, ResetSet
<1>3. ASSUME NEW a \in Appenders, AppendStep(a) PROVE OnlyUsers' /\ DOMAIN apc' = Appenders
  <2>1. a \in using
    BY <1>3 DEF OnlyUsers, AppendStep, AppendScan, Bump, GiveBack, FullCallback,
                Retry, GiveUp, Store
  <2>2. \E next : apc' = [apc EXCEPT ![a] = next]
    BY <1>3 DEF AppendStep, AppendScan, Bump, GiveBack, FullCallback, Retry, GiveUp,
                Store, TakeIndex, Return
  <2>3. QED
    BY <1>1, <2>1, <2>2 DEF OnlyUsers
<1>4. QED
  BY <1>2, <1>3 DEF ASNext

\* What was accepted stays settled or is handed over.
LEMMA KeptStep ==
  ASSUME OnlyUsers, Fits, ASInv, Kept, [ASNext]_setVars
  PROVE  Kept'
<1>0. Size \in Nat \ {0} /\ cur \in Int /\ cur >= -1
  BY ArraySetAssumption DEF ASInv, ASType
<1>1. CASE UNCHANGED setVars
  BY <1>1 DEF setVars, Kept, Settled
<1>2. CASE ResetSet
  BY <1>2 DEF ResetSet, Kept
\* A step that promises no slot that was settled and stores nothing.
<1>3. ASSUME NEW a \in Appenders, UNCHANGED <<arr, accepted, handed>>,
             \A i \in Slots : i <= cur => i <= cur',
             \A b \in Appenders : apc'[b] = "store" =>
               (apc[b] = "store" /\ slot'[b] = slot[b]) \/ slot'[b] > cur
      PROVE  Kept'
  <2>1. ASSUME NEW i \in Slots, Settled(i) PROVE Settled(i)'
    <3>1. i \in Int
      BY DEF Slots
    <3>2. QED
      BY <1>0, <1>3, <2>1, <3>1 DEF Settled
  <2>2. QED
    BY <1>3, <2>1 DEF Kept
<1>4. ASSUME NEW a \in Appenders, NEW v \in Elements, AppendScan(a, v) PROVE Kept'
  BY <1>3, <1>4 DEF AppendScan, ASInv, ASType
<1>5. ASSUME NEW a \in Appenders, Bump(a) \/ Retry(a) PROVE Kept'
  <2>1. /\ UNCHANGED <<arr, accepted, handed>> /\ cur' = cur + 1
        /\ slot' = [slot EXCEPT ![a] = cur + 1]
        /\ \E next : apc' = [apc EXCEPT ![a] = next]
    BY <1>5 DEF Bump, Retry, TakeIndex
  <2>2. \A i \in Slots : i <= cur => i <= cur'
    BY <1>0, <2>1 DEF Slots
  <2>3. \A b \in Appenders : b # a => apc'[b] = apc[b] /\ slot'[b] = slot[b]
    BY <2>1 DEF ASInv, ASType
  <2>4. slot'[a] > cur
    BY <1>0, <2>1 DEF ASInv, ASType
  <2>5. QED
    BY <1>3, <2>1, <2>2, <2>3, <2>4
<1>6. ASSUME NEW a \in Appenders, GiveBack(a) \/ GiveUp(a) PROVE Kept'
  <2>1. /\ UNCHANGED <<arr, accepted, handed>> /\ cur' = cur - 1 /\ a \in Over
        /\ slot' = [slot EXCEPT ![a] = -1]
        /\ \E next \in {"idle", "callback"} : apc' = [apc EXCEPT ![a] = next]
    BY <1>6 DEF GiveBack, GiveUp, Return, Over
  <2>2. \A i \in Slots : i <= cur => i <= cur'
    <3>1. cur >= Size - 1 + Cardinality(Over) /\ Cardinality(Over) # 0
      BY <2>1, OverFinite, FS_EmptySet DEF ASInv
    <3>2. cur' >= Size - 1
      BY <1>0, <2>1, <3>1, OverFinite
    <3>3. QED
      BY <1>0, <2>1, <3>2 DEF Slots
  <2>3. \A b \in Appenders : b # a => apc'[b] = apc[b] /\ slot'[b] = slot[b]
    BY <2>1 DEF ASInv, ASType
  <2>4. apc'[a] # "store"
    BY <2>1 DEF ASInv, ASType
  <2>5. QED
    BY <1>3, <2>1, <2>2, <2>3, <2>4
<1>7. ASSUME NEW a \in Appenders, FullCallback(a) PROVE Kept'
  <2>1. CASE callback # "flush"
    BY <1>3, <1>7, <2>1 DEF FullCallback, Return, ASInv, ASType
  \* What was settled is in the list that the callback takes away.
  <2>2. CASE callback = "flush"
    <3>1. accepted' = accepted /\ handed' = handed \cup Listed
      BY <1>7, <2>2 DEF FullCallback
    <3>2. ASSUME NEW i \in Slots, Settled(i) PROVE arr[i] \in Listed
      BY <3>2 DEF Listed, Settled
    <3>3. QED
      BY <3>1, <3>2 DEF Kept
  <2>3. QED
    BY <2>1, <2>2
<1>8. ASSUME NEW a \in Appenders, Store(a) PROVE Kept'
  <2>1. apc[a] = "store" /\ slot[a] \in Slots /\ slot[a] <= cur
    BY <1>8 DEF Store, ASInv
  <2>2. /\ arr' = [arr EXCEPT ![slot[a]] = aval[a]]
        /\ apc' = [apc EXCEPT ![a] = "idle"]
        /\ slot' = [slot EXCEPT ![a] = -1]
        /\ accepted' = accepted \cup {aval[a]}
        /\ UNCHANGED <<cur, handed>>
    BY <1>8, <2>1 DEF Store, Return
  <2>3. \A b \in Appenders : apc'[b] = "store" =>
          b # a /\ apc[b] = "store" /\ slot'[b] = slot[b] /\ slot[b] # slot[a]
    BY <2>1, <2>2 DEF ASInv, ASType
  <2>4. ASSUME NEW i \in Slots, Settled(i) PROVE Settled(i)' /\ arr'[i] = arr[i]
    <3>1. i # slot[a]
      BY <2>1, <2>4 DEF Settled
    <3>2. arr'[i] = arr[i]
      BY <2>1, <2>2, <3>1 DEF ASInv, ASType
    <3>3. Settled(i)'
      BY <2>2, <2>3, <2>4 DEF Settled
    <3>4. QED
      BY <3>2, <3>3
  <2>5. ASSUME NEW i \in Slots, i = slot[a] PROVE Settled(i)' /\ arr'[i] = aval[a]
    <3>1. arr'[i] = aval[a]
      BY <2>1, <2>2, <2>5 DEF ASInv, ASType
    <3>2. \A b \in Appenders : apc'[b] = "store" => slot'[b] # i
      BY <2>3, <2>5
    <3>3. QED
      BY <2>1, <2>2, <2>5, <3>1, <3>2 DEF Settled
  <2>6. QED
    BY <2>1, <2>2, <2>4, <2>5 DEF Kept
<1>9. QED
  BY <1>1, <1>2, <1>4, <1>5, <1>6, <1>7, <1>8 DEF ASNext, AppendStep

\* The counter runs ahead of the stores by promised slots only.
LEMMA BackedStep ==
  ASSUME OnlyUsers, Fits, ASInv, Backed, [ASNext]_setVars
  PROVE  Backed'
<1>0. Size \in Nat \ {0} /\ cur \in Int /\ cur >= -1 /\ Slots \subseteq Int
  BY ArraySetAssumption DEF ASInv, ASType, Slots
<1>1. CASE UNCHANGED setVars
  BY <1>1 DEF setVars, Backed, Promised
<1>2. CASE ResetSet
  <2>1. \A i \in Slots : ~(i <= cur')
    BY <1>0, <1>2 DEF ResetSet, Slots
  <2>2. QED
    BY <2>1 DEF Backed
\* A step that keeps every promise and lets the counter pass no slot.
<1>3. ASSUME UNCHANGED <<arr, accepted>>,
             \A i \in Slots : i <= cur' => i <= cur,
             \A b \in Appenders : apc[b] = "store" =>
               apc'[b] = "store" /\ slot'[b] = slot[b]
      PROVE  Backed'
  <2>1. \A i \in Slots : Promised(i) => Promised(i)'
    BY <1>3 DEF Promised
  <2>2. QED
    BY <1>3, <2>1 DEF Backed
<1>4. ASSUME NEW a \in Appenders, NEW v \in Elements, AppendScan(a, v) PROVE Backed'
  BY <1>3, <1>4 DEF AppendScan, ASInv, ASType
<1>5. ASSUME NEW a \in Appenders, Bump(a) \/ Retry(a) PROVE Backed'
  <2>1. /\ UNCHANGED <<arr, accepted>> /\ cur' = cur + 1 /\ apc[a] # "store"
        /\ slot' = [slot EXCEPT ![a] = cur + 1]
        /\ \E next : apc' = [apc EXCEPT ![a] = next]
        /\ cur + 1 < Size => apc' = [apc EXCEPT ![a] = "store"]
    BY <1>5 DEF Bump, Retry, TakeIndex
  <2>2. \A b \in Appenders : b # a => apc'[b] = apc[b] /\ slot'[b] = slot[b]
    BY <2>1 DEF ASInv, ASType
  <2>3. \A i \in Slots : Promised(i) => Promised(i)'
    BY <2>1, <2>2 DEF Promised
  <2>4. ASSUME NEW i \in Slots, i = cur + 1 PROVE Promised(i)'
    <3>1. cur + 1 < Size
      BY <1>0, <2>4 DEF Slots
    <3>2. apc'[a] = "store" /\ slot'[a] = i
      BY <2>1, <2>4, <3>1 DEF ASInv, ASType
    <3>3. QED
      BY <3>2 DEF Promised
  <2>5. \A i \in Slots : i <= cur' => i <= cur \/ i = cur + 1
    BY <1>0, <2>1
  <2>6. QED
    BY <2>1, <2>3, <2>4, <2>5 DEF Backed
<1>6. ASSUME NEW a \in Appenders, GiveBack(a) \/ GiveUp(a) PROVE Backed'
  <2>1. /\ UNCHANGED <<arr, accepted>> /\ cur' = cur - 1
        /\ apc[a] # "store"
        /\ slot' = [slot EXCEPT ![a] = -1]
        /\ \E next : apc' = [apc EXCEPT ![a] = next]
    BY <1>6 DEF GiveBack, GiveUp, Return
  <2>2. \A i \in Slots : i <= cur' => i <= cur
    BY <1>0, <2>1
  <2>3. \A b \in Appenders : b # a => apc'[b] = apc[b] /\ slot'[b] = slot[b]
    BY <2>1 DEF ASInv, ASType
  <2>4. QED
    BY <1>3, <2>1, <2>2, <2>3
<1>7. ASSUME NEW a \in Appenders, FullCallback(a) PROVE Backed'
  <2>1. CASE callback # "flush"
    BY <1>3, <1>7, <2>1 DEF FullCallback, Return, ASInv, ASType
  <2>2. CASE callback = "flush"
    <3>1. cur' = -1
      BY <1>7, <2>2 DEF FullCallback
    <3>2. \A i \in Slots : ~(i <= cur')
      BY <1>0, <3>1 DEF Slots
    <3>3. QED
      BY <3>2 DEF Backed
  <2>3. QED
    BY <2>1, <2>2
<1>8. ASSUME NEW a \in Appenders, Store(a) PROVE Backed'
  <2>1. apc[a] = "store" /\ slot[a] \in Slots
    BY <1>8 DEF Store, ASInv
  <2>2. /\ arr' = [arr EXCEPT ![slot[a]] = aval[a]]
        /\ apc' = [apc EXCEPT ![a] = "idle"]
        /\ slot' = [slot EXCEPT ![a] = -1]
        /\ accepted' = accepted \cup {aval[a]}
        /\ UNCHANGED cur
    BY <1>8, <2>1 DEF Store, Return
  <2>3. \A b \in Appenders : b # a => apc'[b] = apc[b] /\ slot'[b] = slot[b]
    BY <2>2 DEF ASInv, ASType
  <2>4. ASSUME NEW i \in Slots, i # slot[a] PROVE Promised(i) => Promised(i)'
    BY <2>3, <2>4 DEF Promised
  <2>5. \A i \in Slots : arr'[i] = IF i = slot[a] THEN aval[a] ELSE arr[i]
    BY <2>1, <2>2 DEF ASInv, ASType
  <2>6. ASSUME NEW i \in Slots, i <= cur' PROVE arr'[i] \in accepted' \/ Promised(i)'
    <3>1. CASE i = slot[a]
      BY <2>2, <2>5, <3>1
    <3>2. CASE i # slot[a]
      BY <2>2, <2>4, <2>5, <2>6, <3>2 DEF Backed
    <3>3. QED
      BY <3>1, <3>2
  <2>7. QED
    BY <2>6 DEF Backed
<1>9. QED
  BY <1>1, <1>2, <1>4, <1>5, <1>6, <1>7, <1>8 DEF ASNext, AppendStep

\* Of a goroutine that is alone the others are idle.
LEMMA OthersIdle ==
  ASSUME OnlyUsers, Alone, NEW a \in Appenders, apc[a] # "idle" \/ a \in using
  PROVE  a \in using /\ \A b \in Appenders \ {a} : apc[b] = "idle"
BY DEF OnlyUsers, Alone

\* One goroutine that appends never stores a value that is in the set.
LEMMA AloneStep ==
  ASSUME OnlyUsers, Alone, ASInv, AloneInv, [ASNext]_setVars
  PROVE  AloneInv'
<1>0. Size \in Nat \ {0} /\ cur \in Int /\ cur >= -1 /\ Slots \subseteq Int
  BY ArraySetAssumption DEF ASInv, ASType, Slots
<1>1. CASE UNCHANGED setVars
  BY <1>1 DEF setVars, AloneInv, Include
<1>2. CASE ResetSet
  <2>1. (\A a \in Appenders : apc'[a] = "idle") /\ cur' = -1
    BY <1>2 DEF ResetSet
  <2>2. \A j \in Slots : ~(j <= cur')
    BY <1>0, <2>1 DEF Slots
  <2>3. QED
    BY <2>1, <2>2 DEF AloneInv
\* Where nobody is about to store, no value is there twice.
<1>3. ASSUME \A b \in Appenders : apc[b] # "store"
      PROVE  \A i, j \in Slots : i < j /\ j <= cur => arr[i] # arr[j]
  BY <1>3 DEF AloneInv, OnlyUsers
<1>4. ASSUME NEW a \in Appenders, NEW v \in Elements, AppendScan(a, v)
      PROVE  AloneInv'
  <2>1. /\ apc[a] = "idle" /\ a \in using /\ ~Include(v)
        /\ apc' = [apc EXCEPT ![a] = "bump"] /\ aval' = [aval EXCEPT ![a] = v]
        /\ UNCHANGED <<arr, cur, using, slot>>
    BY <1>4 DEF AppendScan
  <2>2. \A b \in Appenders \ {a} : apc[b] = "idle"
    BY <2>1, OthersIdle
  <2>3. /\ apc'[a] = "bump" /\ aval'[a] = v
        /\ \A b \in Appenders \ {a} : apc'[b] = "idle"
    BY <2>1, <2>2 DEF ASInv, ASType
  <2>4. \A b \in Appenders : apc[b] # "store"
    BY <2>1, <2>2
  <2>5. \A i \in Slots : arr'[i] # aval'[a]
    BY <2>1, <2>3 DEF Include
  <2>6. \A i, j \in Slots : i < j /\ j <= cur' => arr'[i] # arr'[j]
    BY <1>3, <2>1, <2>4
  <2>7. QED
    BY <2>3, <2>5, <2>6 DEF AloneInv, Include
<1>5. ASSUME NEW a \in Appenders, Bump(a) PROVE AloneInv'
  <2>1. /\ apc[a] = "bump" /\ cur' = cur + 1 /\ slot' = [slot EXCEPT ![a] = cur + 1]
        /\ apc' = [apc EXCEPT ![a] = IF cur + 1 < Size THEN "store" ELSE "giveBack"]
        /\ UNCHANGED <<arr, using, aval>>
    BY <1>5 DEF Bump, TakeIndex
  <2>2. a \in using /\ \A b \in Appenders \ {a} : apc[b] = "idle"
    BY <2>1, OthersIdle
  <2>3. /\ apc'[a] = (IF cur + 1 < Size THEN "store" ELSE "giveBack")
        /\ slot'[a] = cur + 1
        /\ \A b \in Appenders \ {a} : apc'[b] = "idle"
    BY <2>1, <2>2 DEF ASInv, ASType
  <2>4. \A i \in Slots : arr[i] # aval[a]
    BY <2>1 DEF AloneInv, Include
  <2>5. \A i, j \in Slots : i < j /\ j <= cur => arr[i] # arr[j]
    BY <1>3, <2>1, <2>2
  <2>6. CASE cur + 1 < Size
    BY <1>0, <2>1, <2>2, <2>3, <2>4, <2>5, <2>6 DEF AloneInv
  <2>7. CASE ~(cur + 1 < Size)
    <3>1. \A j \in Slots : j <= cur
      BY <1>0, <2>7 DEF Slots
    <3>2. QED
      BY <2>1, <2>3, <2>5, <2>7, <3>1 DEF AloneInv
  <2>8. QED
    BY <2>6, <2>7
<1>6. ASSUME NEW a \in Appenders, Retry(a) PROVE AloneInv'
  <2>1. /\ apc[a] = "retry" /\ cur' = cur + 1 /\ slot' = [slot EXCEPT ![a] = cur + 1]
        /\ apc' = [apc EXCEPT ![a] = IF cur + 1 < Size THEN "store" ELSE "giveUp"]
        /\ UNCHANGED <<arr, using, aval>>
    BY <1>6 DEF Retry, TakeIndex
  <2>2. a \in using /\ \A b \in Appenders \ {a} : apc[b] = "idle"
    BY <2>1, OthersIdle
  <2>3. /\ apc'[a] = (IF cur + 1 < Size THEN "store" ELSE "giveUp")
        /\ slot'[a] = cur + 1
        /\ \A b \in Appenders \ {a} : apc'[b] = "idle"
    BY <2>1, <2>2 DEF ASInv, ASType
  <2>4. \A i, j \in Slots : i < j /\ j <= cur => arr[i] # arr[j]
    BY <1>3, <2>1, <2>2
  <2>5. CASE cur = -1
    <3>1. cur' = 0 /\ apc'[a] = "store" /\ slot'[a] = 0
      BY <1>0, <2>1, <2>3, <2>5
    <3>2. \A i \in Slots : ~(i < 0)
      BY DEF Slots
    <3>3. \A i, j \in Slots : ~(i < j /\ j <= 0)
      BY DEF Slots
    <3>4. QED
      BY <2>3, <3>1, <3>2, <3>3 DEF AloneInv
  <2>6. CASE cur >= Size - 1
    <3>1. (\A j \in Slots : j <= cur) /\ apc'[a] = "giveUp"
      BY <1>0, <2>3, <2>6 DEF Slots
    <3>2. QED
      BY <2>1, <2>3, <2>4, <3>1 DEF AloneInv
  <2>7. QED
    BY <2>1, <2>5, <2>6 DEF AloneInv
<1>7. ASSUME NEW a \in Appenders, GiveBack(a) \/ GiveUp(a) PROVE AloneInv'
  <2>1. /\ apc[a] \in {"giveBack", "giveUp"} /\ a \in Over /\ cur' = cur - 1
        /\ \E next \in {"idle", "callback"} : apc' = [apc EXCEPT ![a] = next]
        /\ UNCHANGED <<arr, using>>
    BY <1>7 DEF GiveBack, GiveUp, Return, Over
  <2>2. a \in using /\ \A b \in Appenders \ {a} : apc[b] = "idle"
    BY <2>1, OthersIdle
  <2>3. /\ apc'[a] \in {"idle", "callback"}
        /\ \A b \in Appenders \ {a} : apc'[b] = "idle"
    BY <2>1, <2>2 DEF ASInv, ASType
  <2>4. cur' >= Size - 1
    <3>1. cur >= Size - 1 + Cardinality(Over) /\ Cardinality(Over) # 0
      BY <2>1, OverFinite, FS_EmptySet DEF ASInv
    <3>2. QED
      BY <1>0, <2>1, <3>1, OverFinite
  <2>5. \A i, j \in Slots : i < j /\ j <= cur => arr[i] # arr[j]
    BY <1>3, <2>1, <2>2
  <2>6. \A j \in Slots : j <= cur
    BY <1>0, <2>1, <2>4 DEF Slots
  <2>7. QED
    BY <2>1, <2>3, <2>4, <2>5, <2>6 DEF AloneInv
<1>8. ASSUME NEW a \in Appenders, FullCallback(a) PROVE AloneInv'
  <2>1. apc[a] = "callback" /\ cur >= Size - 1
    BY <1>8 DEF FullCallback, AloneInv
  <2>2. a \in using /\ \A b \in Appenders \ {a} : apc[b] = "idle"
    BY <2>1, OthersIdle
  <2>3. \A i, j \in Slots : i < j /\ j <= cur => arr[i] # arr[j]
    BY <1>3, <2>1, <2>2
  <2>4. CASE callback # "flush"
    <3>1. /\ UNCHANGED <<arr, cur, using>>
          /\ \E next \in {"idle", "retry"} : apc' = [apc EXCEPT ![a] = next]
      BY <1>8, <2>4 DEF FullCallback, Return
    <3>2. /\ apc'[a] \in {"idle", "retry"}
          /\ \A b \in Appenders \ {a} : apc'[b] = "idle"
      BY <2>2, <3>1 DEF ASInv, ASType
    <3>3. QED
      BY <2>1, <2>3, <3>1, <3>2 DEF AloneInv
  <2>5. CASE callback = "flush"
    <3>1. cur' = -1 /\ apc' = [apc EXCEPT ![a] = "retry"]
      BY <1>8, <2>5 DEF FullCallback
    <3>2. /\ apc'[a] = "retry" /\ \A b \in Appenders \ {a} : apc'[b] = "idle"
      BY <2>2, <3>1 DEF ASInv, ASType
    <3>3. \A j \in Slots : ~(j <= cur')
      BY <1>0, <3>1 DEF Slots
    <3>4. QED
      BY <3>1, <3>2, <3>3 DEF AloneInv
  <2>6. QED
    BY <2>4, <2>5
<1>9. ASSUME NEW a \in Appenders, Store(a) PROVE AloneInv'
  <2>1. /\ apc[a] = "store" /\ slot[a] \in Slots /\ slot[a] = cur
        /\ \A i \in Slots : i < cur => arr[i] # aval[a]
    BY <1>9 DEF Store, ASInv, AloneInv
  <2>2. /\ arr' = [arr EXCEPT ![cur] = aval[a]]
        /\ apc' = [apc EXCEPT ![a] = "idle"]
        /\ UNCHANGED <<cur, using>>
    BY <1>9, <2>1 DEF Store, Return
  <2>3. a \in using /\ \A b \in Appenders \ {a} : apc[b] = "idle"
    BY <2>1, OthersIdle
  <2>4. \A b \in Appenders : apc'[b] = "idle"
    BY <2>2, <2>3 DEF ASInv, ASType
  <2>5. ASSUME NEW i \in Slots, NEW j \in Slots, i < j, j <= cur, arr'[i] = arr'[j]
        PROVE  FALSE
    <3>1. i # cur /\ i < cur /\ arr'[i] = arr[i]
      BY <1>0, <2>1, <2>2, <2>5 DEF ASInv, ASType
    <3>2. CASE j = cur
      BY <2>1, <2>2, <2>5, <3>1, <3>2 DEF ASInv, ASType
    <3>3. CASE j # cur
      <4>1. arr[i] = arr[j]
        BY <2>1, <2>2, <2>5, <3>1, <3>3 DEF ASInv, ASType
      <4>2. PICK b \in using : apc[b] = "store" /\ slot[b] = j
        BY <2>5, <4>1 DEF AloneInv
      <4>3. b = a
        BY <2>3 DEF Alone
      <4>4. QED
        BY <2>1, <3>3, <4>2, <4>3
    <3>4. QED
      BY <3>2, <3>3
  <2>6. QED
    BY <2>2, <2>4, <2>5 DEF AloneInv
<1>10. QED
  BY <1>1, <1>2, <1>4, <1>5, <1>6, <1>7, <1>8, <1>9 DEF ASNext, AppendStep

\* A set with at most one user has no two.
LEMMA AtMostOne ==
  ASSUME OnlyUsers, Cardinality(using) <= 1
  PROVE  Alone
<1> SUFFICES ASSUME NEW a \in using, NEW b \in using, a # b PROVE FALSE
  BY DEF Alone
<1>1. IsFiniteSet(using)
  BY ArraySetAssumption, FS_Subset DEF OnlyUsers
<1>2. IsFiniteSet({a}) /\ Cardinality({a}) = 1
  BY FS_Singleton
<1>3. Cardinality({a} \cup {b}) = 2
  BY <1>2, FS_AddElement
<1>4. {a} \cup {b} \in SUBSET using
  OBVIOUS
<1>5. Cardinality({a} \cup {b}) <= Cardinality(using)
  BY <1>1, <1>4, FS_Subset
<1>6. Cardinality(using) \in Nat
  BY <1>1, FS_CardinalityType
<1>7. QED
  BY <1>3, <1>5, <1>6

\* Every behaviour keeps the three parts of the invariant.
LEMMA SetInvariance == ASSpec => []SetInv
<1>1. ASInit => SetInv
  <2> SUFFICES ASSUME ASInit PROVE SetInv
    OBVIOUS
  <2>1. Kept /\ Backed
    <3>1. \A i \in Slots : ~(i <= cur)
      BY ArraySetAssumption DEF ASInit, Slots
    <3>2. QED
      BY <3>1 DEF ASInit, Kept, Backed
  <2>2. AloneInv
    <3>1. \A j \in Slots : ~(j <= cur)
      BY ArraySetAssumption DEF ASInit, Slots
    <3>2. QED
      BY <3>1 DEF ASInit, AloneInv
  <2>3. OnlyUsers
    BY DEF ASInit, OnlyUsers
  <2>4. DOMAIN apc = Appenders
    BY DEF ASInit
  <2>5. QED
    BY <2>1, <2>2, <2>3, <2>4, ASInitInv DEF SetInv
<1>2. SetInv /\ [ASNext]_setVars => SetInv'
  <2> SUFFICES ASSUME SetInv, [ASNext]_setVars PROVE SetInv'
    OBVIOUS
  <2>1. OnlyUsers /\ DOMAIN apc = Appenders
    BY DEF SetInv
  <2>2. OnlyUsers' /\ DOMAIN apc' = Appenders
    BY <2>1, OnlyUsersStep
  <2>3. (Fits' <=> Fits) /\ (Alone' <=> Alone)
    BY <2>1, SameUse DEF Fits, Alone
  <2>4. Fits => ASInv' /\ Kept' /\ Backed'
    BY <2>1, ASNextInv, KeptStep, BackedStep DEF SetInv
  <2>5. Alone => AloneInv'
    BY <2>1, AloneStep DEF SetInv, Fits
  <2>6. QED
    BY <2>2, <2>3, <2>4, <2>5 DEF SetInv
<1>3. QED
  BY <1>1, <1>2, PTL DEF ASSpec

\* Concurrent calls of Append never store into the same slot, over an element
\* or outside the array.
THEOREM AppendersDisjoint == ASSpec => []StoresFree
<1>1. SetInv => StoresFree
  <2> SUFFICES ASSUME SetInv, Shareable PROVE StoresFree
    BY DEF StoresFree
  <2>1. Fits
    BY AtMostOne DEF SetInv, Shareable, Fits
  <2>2. QED
    BY <2>1 DEF SetInv, ASInv, StoresFree
<1>2. QED
  BY <1>1, SetInvariance, PTL

\* What Append has stored stays in the array or was handed to the callback,
\* and between calls List is all of it and nothing else.
THEOREM AppendedStays == ASSpec => []NothingLost
<1>1. SetInv => NothingLost
  <2> SUFFICES ASSUME SetInv, Shareable PROVE NothingLost
    BY DEF NothingLost
  <2>1. ASInv /\ Kept /\ Backed
    BY AtMostOne DEF SetInv, Shareable, Fits
  <2>2. accepted \subseteq {arr[i] : i \in Slots} \cup handed
    BY <2>1 DEF Kept
  <2>3. accepted \subseteq Listed \cup handed
    BY <2>1 DEF Kept, Settled, Listed
  <2>a. \A i \in Slots : i > cur => arr[i] = Zero
    BY <2>1 DEF ASInv
  <2>b. ASSUME \A a \in Appenders : apc[a] = "idle" PROVE Listed \subseteq accepted
    BY <2>1, <2>b DEF Backed, Promised, Listed
  <2>4. ASSUME \A a \in Appenders : apc[a] = "idle" PROVE cur < Size
    <3>1. Over = {}
      BY <2>4 DEF Over
    <3>2. Cardinality(Over) = 0 /\ Size \in Nat /\ cur \in Int
      BY <2>1, <3>1, FS_EmptySet, ArraySetAssumption DEF ASInv, ASType
    <3>3. QED
      BY <2>1, <3>2 DEF ASInv
  <2>5. QED
    BY <2>2, <2>3, <2>4, <2>a, <2>b DEF NothingLost
<1>2. QED
  BY <1>1, SetInvariance, PTL

\* One goroutine that appends stores no value twice, whatever its callback does.
THEOREM ValuesUnique == ASSpec => []Unique
<1>1. SetInv => Unique
  BY AtMostOne DEF SetInv, AloneInv, Unique
<1>2. QED
  BY <1>1, SetInvariance, PTL

-----------------------------------------------------------------------------
(* The ordered Set, for any finite set of items and any length of a call.  *)

\* A member's index is below the length of the set at the end of the call that
\* brought it in, and stays so until the next deletion; two members of which
\* one was inserted after the other have their indices in that order.
OrderInv ==
  /\ DOMAIN content \subseteq Items
  /\ \A x \in DOMAIN content : content[x] \in Nat
  /\ fresh \subseteq DOMAIN content
  /\ \A x \in fresh : content[x] < SetLen(content)
  /\ \A p \in ahead : /\ p[1] \in DOMAIN content /\ p[2] \in DOMAIN content
                      /\ content[p[1]] < content[p[2]]

\* The place of an item is that of its first occurrence.
LEMMA PlaceOf ==
  ASSUME NEW n \in Nat, NEW xs, DOMAIN xs = 1 .. n, NEW x \in Range(xs)
  PROVE  Place(xs, x) \in 1 .. n /\ xs[Place(xs, x)] = x
<1> DEFINE T == {i \in 1 .. n : xs[i] = x}
<1>1. T \subseteq Nat /\ T # {}
  BY DEF Range
<1> HIDE DEF T
<1>2. PICK m \in T : \A k \in T : m <= k
  BY <1>1, LeastNatural
<1>3. m \in 1 .. n /\ xs[m] = x /\ \A j \in 1 .. m - 1 : xs[j] # x
  <2>1. m \in 1 .. n /\ xs[m] = x
    BY DEF T
  <2>2. ASSUME NEW j \in 1 .. m - 1, xs[j] = x PROVE FALSE
    <3>1. j \in T /\ j < m
      BY <2>1, <2>2 DEF T
    <3>2. QED
      BY <1>2, <2>1, <3>1
  <2>3. QED
    BY <2>1, <2>2
<1>4. \E i \in DOMAIN xs : xs[i] = x /\ \A j \in 1 .. i - 1 : xs[j] # x
  BY <1>3
<1>5. Place(xs, x) \in DOMAIN xs /\ xs[Place(xs, x)] = x
  BY <1>4 DEF Place
<1>6. QED
  BY <1>5

\* The new items of a batch are finitely many, and an item has fewer new ones
\* before it than one whose turn is later, and fewer than there are.
LEMMA TurnsCount ==
  ASSUME NEW s, NEW n \in Nat, NEW xs \in [1 .. n -> Items],
         NEW y \in NewIn(s, xs)
  PROVE  /\ IsFiniteSet(NewIn(s, xs)) /\ IsFiniteSet(NewBefore(s, xs, y))
         /\ Cardinality(NewBefore(s, xs, y)) \in Nat
         /\ Cardinality(NewBefore(s, xs, y)) < Cardinality(NewIn(s, xs))
         /\ \A x \in NewIn(s, xs) : Place(xs, x) < Place(xs, y) =>
              Cardinality(NewBefore(s, xs, x)) < Cardinality(NewBefore(s, xs, y))
<1>1. NewIn(s, xs) \subseteq Items /\ NewIn(s, xs) \subseteq Range(xs)
  BY DEF NewIn, Range
<1>2. IsFiniteSet(NewIn(s, xs))
  BY <1>1, BatchAssumption, FS_Subset
<1>3. \A x \in NewIn(s, xs) : Place(xs, x) \in Nat
  BY <1>1, PlaceOf
<1>4. \A x \in NewIn(s, xs) : /\ NewBefore(s, xs, x) \in SUBSET NewIn(s, xs)
                              /\ x \notin NewBefore(s, xs, x)
  BY <1>3 DEF NewBefore
<1>5. \A x \in NewIn(s, xs) : /\ IsFiniteSet(NewBefore(s, xs, x))
                              /\ Cardinality(NewBefore(s, xs, x)) \in Nat
  BY <1>2, <1>4, FS_Subset, FS_CardinalityType
<1>6. Cardinality(NewIn(s, xs)) \in Nat
  BY <1>2, FS_CardinalityType
<1>7. Cardinality(NewBefore(s, xs, y)) < Cardinality(NewIn(s, xs))
  <2>1. /\ Cardinality(NewBefore(s, xs, y)) <= Cardinality(NewIn(s, xs))
        /\ Cardinality(NewBefore(s, xs, y)) # Cardinality(NewIn(s, xs))
    BY <1>2, <1>4, FS_Subset
  <2>2. QED
    BY <1>5, <1>6, <2>1
<1>8. ASSUME NEW x \in NewIn(s, xs), Place(xs, x) < Place(xs, y)
      PROVE  Cardinality(NewBefore(s, xs, x)) < Cardinality(NewBefore(s, xs, y))
  <2>1. NewBefore(s, xs, x) \in SUBSET NewBefore(s, xs, y)
    BY <1>3, <1>8 DEF NewBefore
  <2>2. x \in NewBefore(s, xs, y) /\ x \notin NewBefore(s, xs, x)
    BY <1>4, <1>8 DEF NewBefore
  <2>3. IsFiniteSet(NewBefore(s, xs, y))
    BY <1>5
  <2>4. /\ Cardinality(NewBefore(s, xs, x)) <= Cardinality(NewBefore(s, xs, y))
        /\ Cardinality(NewBefore(s, xs, x)) # Cardinality(NewBefore(s, xs, y))
    BY <2>1, <2>2, <2>3, FS_Subset
  <2>5. QED
    BY <1>5, <2>4
<1>9. QED
  BY <1>2, <1>5, <1>7, <1>8

\* What Insert makes of a map: the old indices stay, the new ones follow the
\* length in the order of their turns and stay below the new length.
LEMMA InsertedOrder ==
  ASSUME NEW s, IsFiniteSet(DOMAIN s), DOMAIN s \subseteq Items,
         \A x \in DOMAIN s : s[x] \in Nat,
         NEW n \in Nat, NEW xs \in [1 .. n -> Items]
  PROVE  LET t == Inserted(s, xs)
         IN  /\ DOMAIN t = DOMAIN s \cup NewIn(s, xs) /\ DOMAIN t \subseteq Items
             /\ \A x \in DOMAIN t : t[x] \in Nat
             /\ SetLen(s) \in Nat /\ SetLen(t) \in Nat /\ SetLen(s) <= SetLen(t)
             /\ \A x \in DOMAIN s : t[x] = s[x]
             /\ \A x \in NewIn(s, xs) : SetLen(s) <= t[x] /\ t[x] < SetLen(t)
             /\ \A p \in InTurn(s, xs) : /\ p[1] \in NewIn(s, xs) /\ p[2] \in NewIn(s, xs)
                                         /\ t[p[1]] < t[p[2]]
<1> DEFINE t == Inserted(s, xs)
           new == NewIn(s, xs)
           c(x) == Cardinality(NewBefore(s, xs, x))
<1>1. /\ DOMAIN t = DOMAIN s \cup new /\ DOMAIN t \subseteq Items
      /\ DOMAIN s \cap new = {}
  BY DEF Inserted, NewIn, Range
<1>2. \A x \in DOMAIN s : t[x] = s[x]
  BY DEF Inserted
<1>3. \A x \in new : t[x] = SetLen(s) + c(x)
  BY DEF Inserted, NewIn
<1>4. IsFiniteSet(new)
  BY BatchAssumption, FS_Subset, <1>1
<1>5. SetLen(s) \in Nat /\ Cardinality(new) \in Nat
  BY <1>4, FS_CardinalityType DEF SetLen
<1>6. SetLen(t) = SetLen(s) + Cardinality(new)
  <2>1. Cardinality(DOMAIN s \cup new)
          = Cardinality(DOMAIN s) + Cardinality(new) - Cardinality(DOMAIN s \cap new)
    BY <1>4, FS_Union
  <2>2. Cardinality(DOMAIN s \cap new) = 0
    BY <1>1, FS_EmptySet
  <2>3. QED
    BY <1>1, <1>5, <2>1, <2>2 DEF SetLen
<1>7. \A x \in new : c(x) \in Nat /\ c(x) < Cardinality(new)
  BY TurnsCount
<1>8. \A x, y \in new : Place(xs, x) < Place(xs, y) => c(x) < c(y)
  BY TurnsCount
<1>9. \A p \in InTurn(s, xs) :
        p[1] \in new /\ p[2] \in new /\ Place(xs, p[1]) < Place(xs, p[2])
  BY DEF InTurn
<1> HIDE DEF t, new, c
<1>10. \A x \in new : /\ t[x] \in Nat /\ SetLen(s) <= t[x] /\ t[x] < SetLen(t)
  BY <1>3, <1>5, <1>6, <1>7
<1>11. \A p \in InTurn(s, xs) : t[p[1]] < t[p[2]]
  BY <1>3, <1>5, <1>7, <1>8, <1>9
<1>12. \A x \in DOMAIN t : t[x] \in Nat
  BY <1>1, <1>2, <1>10
<1>13. SetLen(t) \in Nat /\ SetLen(s) <= SetLen(t)
  BY <1>5, <1>6
<1>14. QED
  BY <1>1, <1>2, <1>5, <1>9, <1>10, <1>11, <1>12, <1>13 DEF t, new

\* New and everything built on it.
LEMMA NewSetOrder ==
  ASSUME NEW n \in Nat, NEW xs \in [1 .. n -> Items], NewSet(xs)
  PROVE  OrderInv'
<1> DEFINE s == <<>>
<1>1. DOMAIN s = {} /\ IsFiniteSet(DOMAIN s) /\ DOMAIN s \subseteq Items
  BY FS_EmptySet
<1>2. NewIn(s, xs) = Range(xs)
  BY <1>1 DEF NewIn
<1>3. content' = Inserted(s, xs) /\ fresh' = Range(xs) /\ ahead' = InTurn(s, xs)
  BY DEF NewSet
<1> HIDE DEF s
<1> DEFINE t == Inserted(s, xs)
<1>4. content' = t /\ SetLen(content)' = SetLen(t)
  BY <1>3 DEF SetLen
<1>5. /\ DOMAIN t = Range(xs) /\ DOMAIN t \subseteq Items
      /\ \A x \in DOMAIN t : t[x] \in Nat
      /\ \A x \in Range(xs) : t[x] < SetLen(t)
      /\ \A p \in InTurn(s, xs) : /\ p[1] \in Range(xs) /\ p[2] \in Range(xs)
                                  /\ t[p[1]] < t[p[2]]
  <2> DEFINE new == NewIn(s, xs)
  <2>1. \A x \in DOMAIN s : s[x] \in Nat
    BY <1>1
  <2>2. /\ DOMAIN t = DOMAIN s \cup new /\ DOMAIN t \subseteq Items
        /\ \A x \in DOMAIN t : t[x] \in Nat
        /\ \A x \in new : t[x] < SetLen(t)
        /\ \A p \in InTurn(s, xs) : p[1] \in new /\ p[2] \in new /\ t[p[1]] < t[p[2]]
    BY <1>1, <2>1, InsertedOrder
  <2>3. new = Range(xs)
    BY <1>2
  <2> HIDE DEF t, new
  <2>4. QED
    BY <1>1, <2>2, <2>3
<1> HIDE DEF t
<1>6. QED
  BY <1>3, <1>4, <1>5 DEF OrderInv

LEMMA InsertOrder ==
  ASSUME OrderInv, NEW n \in Nat, NEW xs \in [1 .. n -> Items], Insert(xs)
  PROVE  OrderInv'
<1> DEFINE t == Inserted(content, xs)
           new == NewIn(content, xs)
<1>1. IsFiniteSet(DOMAIN content)
  BY BatchAssumption, FS_Subset DEF OrderInv
<1>2. /\ DOMAIN t = DOMAIN content \cup new /\ DOMAIN t \subseteq Items
      /\ \A x \in DOMAIN t : t[x] \in Nat
      /\ SetLen(content) \in Nat /\ SetLen(t) \in Nat /\ SetLen(content) <= SetLen(t)
      /\ \A x \in DOMAIN content : t[x] = content[x]
      /\ \A x \in new : SetLen(content) <= t[x] /\ t[x] < SetLen(t)
      /\ \A p \in InTurn(content, xs) : p[1] \in new /\ p[2] \in new /\ t[p[1]] < t[p[2]]
  BY <1>1, InsertedOrder DEF OrderInv
<1>3. content' = t /\ SetLen(content)' = SetLen(t) /\ fresh' = fresh \cup new
      /\ ahead' = ahead \cup InTurn(content, xs) \cup (fresh \X new)
  BY DEF Insert, SetLen
<1> HIDE DEF t, new
<1>4. \A x \in fresh' : x \in DOMAIN t /\ t[x] < SetLen(t)
  BY <1>2, <1>3 DEF OrderInv
<1>5. ASSUME NEW p \in ahead'
      PROVE  p[1] \in DOMAIN t /\ p[2] \in DOMAIN t /\ t[p[1]] < t[p[2]]
  <2>1. CASE p \in ahead
    BY <1>2, <2>1 DEF OrderInv
  <2>2. CASE p \in InTurn(content, xs)
    BY <1>2, <2>2
  <2>3. CASE p \in fresh \X new
    <3>1. p[1] \in fresh /\ p[2] \in new
      BY <2>3
    <3>2. p[1] \in DOMAIN content /\ content[p[1]] < SetLen(content)
      BY <3>1 DEF OrderInv
    <3>3. QED
      BY <1>2, <3>1, <3>2
  <2>4. QED
    BY <1>3, <1>5, <2>1, <2>2, <2>3
<1>6. QED
  BY <1>2, <1>3, <1>4, <1>5 DEF OrderInv

\* A deletion leaves the indices alone and starts a new count.
LEMMA DeleteOrder ==
  ASSUME OrderInv, NEW S, Delete(S)
  PROVE  OrderInv'
<1>1. /\ DOMAIN content' = DOMAIN content \ S
      /\ \A x \in DOMAIN content \ S : content'[x] = content[x]
  BY DEF Delete, Without
<1>2. \A p \in ahead' : p \in ahead /\ p[1] \notin S /\ p[2] \notin S
  BY DEF Delete
<1>3. CASE S \cap DOMAIN content = {}
  <2>1. DOMAIN content' = DOMAIN content /\ fresh' = fresh
    BY <1>1, <1>3 DEF Delete
  <2>2. SetLen(content)' = SetLen(content)
    BY <2>1 DEF SetLen
  <2>3. QED
    BY <1>1, <1>2, <1>3, <2>1, <2>2 DEF OrderInv
<1>4. CASE S \cap DOMAIN content # {}
  <2>1. fresh' = {}
    BY <1>4 DEF Delete
  <2>2. QED
    BY <1>1, <1>2, <2>1 DEF OrderInv
<1>5. QED
  BY <1>3, <1>4

\* The lists of a finite set.
LEMMA WalksAreBatches ==
  ASSUME NEW S, S \subseteq Items, NEW l \in Walks(S)
  PROVE  /\ Cardinality(S) \in Nat
         /\ l \in [1 .. Cardinality(S) -> Items]
         /\ l \in [1 .. Cardinality(S) -> S]
BY BatchAssumption, FS_Subset, FS_CardinalityType DEF Walks, Bijection, Injection

LEMMA OrderStep ==
  ASSUME OrderInv, [OSNext]_osVars
  PROVE  OrderInv'
<1>1. CASE UNCHANGED osVars
  BY <1>1 DEF osVars, OrderInv, SetLen
<1>2. ASSUME NEW xs \in Batches, NewSet(xs) \/ Insert(xs) \/ Delete(Range(xs))
      PROVE  OrderInv'
  <2>1. PICK n \in 1 .. MaxBatch : xs \in [1 .. n -> Items]
    BY DEF Batches
  <2>2. n \in Nat
    BY BatchAssumption
  <2>3. QED
    BY <1>2, <2>1, <2>2, NewSetOrder, InsertOrder, DeleteOrder
<1>3. CASE PopAny
  BY <1>3, DeleteOrder DEF PopAny
<1>4. ASSUME NEW S, S \subseteq Items, NEW l \in Walks(S), NewSet(l) PROVE OrderInv'
  BY <1>4, WalksAreBatches, NewSetOrder
<1>5. DOMAIN content \subseteq Items
  BY DEF OrderInv
<1>6. CASE Clone
  <2>1. PICK l \in ListsOf(content) : NewSet(l)
    BY <1>6 DEF Clone
  <2>2. l \in Walks(DOMAIN content)
    BY DEF ListsOf
  <2>3. QED
    BY <1>4, <1>5, <2>1, <2>2
<1>7. ASSUME NEW S2 \in SUBSET Items, Difference(S2) PROVE OrderInv'
  <2>1. PICK l \in Walks(DOMAIN content \ S2) : NewSet(l)
    BY <1>7 DEF Difference
  <2>2. QED
    BY <1>4, <1>5, <2>1
<1>8. ASSUME NEW S2 \in SUBSET Items, Union(S2) PROVE OrderInv'
  <2>1. PICK l \in Walks(DOMAIN content), m \in Walks(S2) : NewSet(l \o m)
    BY <1>8 DEF Union
  <2> DEFINE j == Cardinality(DOMAIN content)
             k == Cardinality(S2)
  <2>2. /\ j \in Nat /\ k \in Nat
        /\ l \in [1 .. j -> Items] /\ m \in [1 .. k -> Items]
    BY <1>5, WalksAreBatches
  <2> HIDE DEF j, k
  <2>3. j + k \in Nat /\ l \o m \in [1 .. j + k -> Items]
    <3>1. l \in Seq(Items) /\ Len(l) = j /\ m \in Seq(Items) /\ Len(m) = k
      BY <2>2
    <3>2. l \o m \in Seq(Items) /\ Len(l \o m) = j + k
      BY <3>1
    <3>3. l \o m \in [1 .. Len(l \o m) -> Items]
      BY <3>2, LenProperties
    <3>4. QED
      BY <2>2, <3>2, <3>3
  <2>4. QED
    BY <2>1, <2>3, NewSetOrder
<1>9. ASSUME NEW S2 \in SUBSET Items, Intersection(S2) PROVE OrderInv'
  <2>1. \E S : S \subseteq Items /\ \E l \in Walks(S) : NewSet(l)
    <3>1. CASE SetLen(content) < Cardinality(S2)
      <4>1. \E l \in Walks({x \in DOMAIN content : x \in S2}) : NewSet(l)
        BY <1>9, <3>1 DEF Intersection
      <4>2. {x \in DOMAIN content : x \in S2} \subseteq Items
        BY <1>5
      <4>3. QED
        BY <4>1, <4>2
    <3>2. CASE ~(SetLen(content) < Cardinality(S2))
      <4>1. \E l \in Walks({x \in S2 : x \in DOMAIN content}) : NewSet(l)
        BY <1>9, <3>2 DEF Intersection
      <4>2. {x \in S2 : x \in DOMAIN content} \subseteq Items
        BY <1>5
      <4>3. QED
        BY <4>1, <4>2
    <3>3. QED
      BY <3>1, <3>2
  <2>2. QED
    BY <1>4, <2>1
<1>10. QED
  BY <1>1, <1>2, <1>3, <1>6, <1>7, <1>8, <1>9 DEF OSNext

\* List puts members in the order they were inserted in, unless there was a
\* deletion in between, whatever order the map is walked in.
THEOREM InsertionOrder == OSSpec => []ListKeepsOrder
<1>1. OSInit => OrderInv
  BY FS_EmptySet DEF OSInit, OrderInv
<1>2. OrderInv => ListKeepsOrder
  <2> SUFFICES ASSUME OrderInv, NEW l \in ListsOf(content), NEW p \in ahead
               PROVE  Place(l, p[1]) < Place(l, p[2])
    BY DEF ListKeepsOrder
  <2> DEFINE n == Cardinality(DOMAIN content)
  <2>1. l \in Walks(DOMAIN content) /\ DOMAIN content \subseteq Items
    BY DEF ListsOf, OrderInv
  <2>2. n \in Nat /\ l \in [1 .. n -> Items] /\ l \in [1 .. n -> DOMAIN content]
    BY <2>1, WalksAreBatches
  <2>3. \A x \in DOMAIN content : \E i \in 1 .. n : l[i] = x
    BY <2>1 DEF Walks, Bijection, Surjection
  <2>4. p[1] \in DOMAIN content /\ p[2] \in DOMAIN content
        /\ content[p[1]] < content[p[2]]
        /\ content[p[1]] \in Nat /\ content[p[2]] \in Nat
    BY DEF OrderInv
  <2>5. \A i, j \in 1 .. n : i < j => content[l[i]] <= content[l[j]]
    BY <2>2 DEF ListsOf
  <2> HIDE DEF n
  <2>6. p[1] \in Range(l) /\ p[2] \in Range(l)
    BY <2>2, <2>3, <2>4 DEF Range
  <2>7. /\ Place(l, p[1]) \in 1 .. n /\ l[Place(l, p[1])] = p[1]
        /\ Place(l, p[2]) \in 1 .. n /\ l[Place(l, p[2])] = p[2]
    BY <2>2, <2>6, PlaceOf
  <2> DEFINE a == Place(l, p[1])
             b == Place(l, p[2])
  <2>8. a \in 1 .. n /\ b \in 1 .. n /\ content[l[a]] < content[l[b]]
        /\ content[l[a]] \in Nat /\ content[l[b]] \in Nat
    BY <2>4, <2>7
  <2> HIDE DEF a, b
  <2>9. ~(b < a) /\ a # b
    BY <2>5, <2>8
  <2>10. a < b
    BY <2>8, <2>9
  <2>11. QED
    BY <2>10 DEF a, b
<1>3. OrderInv /\ [OSNext]_osVars => OrderInv'
  BY OrderStep
<1>4. QED
  BY <1>1, <1>2, <1>3, PTL DEF OSSpec
=============================================================================
