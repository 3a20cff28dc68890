----------------------------- MODULE OrderedSet -----------------------------
(***************************************************************************)
(* sets.Set of sets/sets.go: a map from each member to the length the set  *)
(* had when the member was inserted.  List sorts by that index.  Deleting  *)
(* a member shortens the set and leaves the other indices alone, so that   *)
(* the next member may get an index that is already in use; sort.Sort is   *)
(* not stable and a map is walked in any order, so members with the same   *)
(* index come out in any order.                                            *)
(***************************************************************************)
EXTENDS Naturals, FiniteSets, Sequences, Functions

CONSTANTS
  Items,      \* the values put into the set
  MaxBatch    \* the longest list of arguments a call is given

ASSUME BatchAssumption == IsFiniteSet(Items) /\ MaxBatch \in Nat \ {0}

VARIABLES
  content,    \* the map: its domain are the members
  fresh,      \* auxiliary: members inserted since the last deletion
  ahead       \* auxiliary: <<x, y>> when y was inserted after x with no
              \* deletion in between

osVars == <<content, fresh, ahead>>

Batches == UNION {[1 .. n -> Items] : n \in 1 .. MaxBatch}

SetLen(s) == Cardinality(DOMAIN s)
Place(xs, x) == CHOOSE i \in DOMAIN xs : xs[i] = x /\ \A j \in 1 .. i - 1 : xs[j] # x
NewIn(s, xs) == Range(xs) \ DOMAIN s
\* The pairs of members that a batch brings in one after the other.
InTurn(s, xs) ==
  {p \in NewIn(s, xs) \X NewIn(s, xs) : Place(xs, p[1]) < Place(xs, p[2])}

\* The new items whose turn comes before that of x.
NewBefore(s, xs, x) == {z \in NewIn(s, xs) : Place(xs, z) < Place(xs, x)}

\* Mutant: the length is read once, before the loop.
InsertedHoisted(s, xs) ==
  [x \in DOMAIN s \cup Range(xs) |-> IF x \in DOMAIN s THEN s[x] ELSE SetLen(s)]

\* Insert: each new item gets the length of the set at its turn.
Inserted(s, xs) ==
  [x \in DOMAIN s \cup Range(xs) |->
     IF x \in DOMAIN s THEN s[x]
     ELSE SetLen(s) + Cardinality(NewBefore(s, xs, x))]

\* The orders in which a walk over the map may meet the members of S.
Walks(S) == Bijection(1 .. Cardinality(S), S)

Without(s, S) == [x \in DOMAIN s \ S |-> s[x]]

\* List: every order a sort by index may end in.
ListsOf(s) ==
  {l \in Walks(DOMAIN s) :
     \A i, j \in DOMAIN l : i < j => s[l[i]] <= s[l[j]]}

OSInit == content = <<>> /\ fresh = {} /\ ahead = {}

\* New, and every operation that builds its result by inserting into a new set.
NewSet(xs) ==
  /\ content' = Inserted(<<>>, xs)
  /\ fresh' = Range(xs)
  /\ ahead' = InTurn(<<>>, xs)

Insert(xs) ==
  /\ content' = Inserted(content, xs)
  /\ fresh' = fresh \cup NewIn(content, xs)
  /\ ahead' = ahead \cup InTurn(content, xs) \cup (fresh \X NewIn(content, xs))

\* Deleting what is not there changes nothing.
Delete(S) ==
  /\ content' = Without(content, S)
  /\ fresh' = IF S \cap DOMAIN content = {} THEN fresh ELSE {}
  /\ ahead' = {p \in ahead : p[1] \notin S /\ p[2] \notin S}

PopAny == \E x \in DOMAIN content : Delete({x})

\* Clone inserts the members in the order of List.
Clone == \E l \in ListsOf(content) : NewSet(l)

\* The results of the set operations, inserted in the order of the map walk.
Difference(S2) == \E l \in Walks(DOMAIN content \ S2) : NewSet(l)
Union(S2) ==
  \E l \in Walks(DOMAIN content), m \in Walks(S2) : NewSet(l \o m)
Intersection(S2) ==
  LET walk  == IF SetLen(content) < Cardinality(S2) THEN DOMAIN content ELSE S2
      other == IF SetLen(content) < Cardinality(S2) THEN S2 ELSE DOMAIN content
  IN  \E l \in Walks({x \in walk : x \in other}) : NewSet(l)

OSNext ==
  \/ \E xs \in Batches : NewSet(xs) \/ Insert(xs) \/ Delete(Range(xs))
  \/ PopAny
  \/ Clone
  \/ \E S2 \in SUBSET Items : Difference(S2) \/ Union(S2) \/ Intersection(S2)

OSSpec == OSInit /\ [][OSNext]_osVars

-----------------------------------------------------------------------------
(* Properties.                                                             *)

\* "a collection of unique comparable values that preserves insertion order",
\* as far as the code keeps it: List puts two members in the order they were
\* inserted in, unless there was a deletion between the two insertions, and
\* every operation that builds a new set puts its indices in order again.
ListKeepsOrder ==
  \A l \in ListsOf(content) :
    \A p \in ahead : Place(l, p[1]) < Place(l, p[2])
=============================================================================
