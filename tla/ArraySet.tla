------------------------------- MODULE ArraySet -------------------------------
(***************************************************************************)
(* sets.ArraySet of sets/array.go: a fixed-capacity collection of unique   *)
(* values.  Append scans the whole backing array for the value, takes an   *)
(* index from an atomic counter and stores the value there; a full set     *)
(* gives the index back and asks its callback, if it has one, to make      *)
(* room.  Goroutines that append at the same time meet between these       *)
(* steps: only the counter is atomic.                                      *)
(***************************************************************************)
EXTENDS Integers, FiniteSets

CONSTANTS
  Size,        \* the capacity
  Elements,    \* the values appended
  Zero,        \* the zero value of the element type: an unused slot
  Appenders,   \* goroutines that call Append
  Callbacks    \* what the full callback may be: see FullCallback

ASSUME ArraySetAssumption ==
  /\ Size \in Nat \ {0}
  /\ IsFiniteSet(Appenders)
  /\ Callbacks \subseteq {"none", "fail", "keep", "flush"}

VARIABLES
  arr,        \* the backing array
  cur,        \* the atomic counter: index of the last element
  callback,   \* the kind of full callback
  using,      \* the goroutines that use the set
  apc,        \* where each appender is in Append
  aval,       \* the value it appends
  slot,       \* the index it got from the counter
  accepted,   \* history: the values stored since the last Reset of the program
  handed      \* history: the values the callback has taken away

setVars == <<arr, cur, callback, using, apc, aval, slot, accepted,
             handed>>

Slots == 0 .. Size - 1
NewArray == [i \in Slots |-> Zero]

\* Include: the scan covers the unused slots too.
Include(v) == \E i \in Slots : arr[i] = v

\* List and the callback see the array up to the counter.
Listed == {arr[i] : i \in {j \in Slots : j <= cur}}

ASInit ==
  /\ arr = NewArray
  /\ cur = -1
  /\ callback \in Callbacks
  /\ using \in SUBSET Appenders
  /\ apc = [a \in Appenders |-> "idle"]
  /\ aval = [a \in Appenders |-> Zero]
  /\ slot = [a \in Appenders |-> -1]
  /\ accepted = {}
  /\ handed = {}

-----------------------------------------------------------------------------
\* Mutant: Append does not look for the value.
AppendBlindly(a, v) ==
  /\ a \in using
  /\ apc[a] = "idle"
  /\ apc' = [apc EXCEPT ![a] = "bump"]
  /\ aval' = [aval EXCEPT ![a] = v]
  /\ UNCHANGED <<arr, cur, callback, using, slot, accepted, handed>>

\* Append(v): a value that is found is skipped.
AppendScan(a, v) ==
  /\ a \in using
  /\ apc[a] = "idle"
  /\ ~Include(v)
  /\ apc' = [apc EXCEPT ![a] = "bump"]
  /\ aval' = [aval EXCEPT ![a] = v]
  /\ UNCHANGED <<arr, cur, callback, using, slot, accepted, handed>>

\* Mutant: the counter is read and written back, not incremented atomically.
TakeIndexTorn(a, full) ==
  /\ cur' = IF slot[a] = -1 THEN cur ELSE slot[a]
  /\ slot' = [slot EXCEPT ![a] = IF slot[a] = -1 THEN cur + 1 ELSE -1]
  /\ apc' = [apc EXCEPT ![a] =
               IF slot[a] = -1 THEN @ ELSE IF slot[a] < Size THEN "store" ELSE full]

\* atomic.AddInt64(&s.cur, 1)
TakeIndex(a, full) ==
  /\ cur' = cur + 1
  /\ slot' = [slot EXCEPT ![a] = cur + 1]
  /\ apc' = [apc EXCEPT ![a] = IF cur + 1 < Size THEN "store" ELSE full]

Bump(a) ==
  /\ apc[a] = "bump"
  /\ TakeIndex(a, "giveBack")
  /\ UNCHANGED <<arr, callback, using, aval, accepted, handed>>

\* Append returns.
Return(a) ==
  /\ apc' = [apc EXCEPT ![a] = "idle"]
  /\ aval' = [aval EXCEPT ![a] = Zero]
  /\ slot' = [slot EXCEPT ![a] = -1]

\* The set is full: atomic.AddInt64(&s.cur, -1), then ErrorSetFull or the
\* callback.
GiveBack(a) ==
  /\ apc[a] = "giveBack"
  /\ cur' = cur - 1
  /\ \/ callback = "none" /\ Return(a)
     \/ /\ callback # "none"
        /\ apc' = [apc EXCEPT ![a] = "callback"]
        /\ slot' = [slot EXCEPT ![a] = -1]
        /\ UNCHANGED aval
  /\ UNCHANGED <<arr, callback, using, accepted, handed>>

\* The callback returns an error ("fail"), returns without making room
\* ("keep"), or takes the elements away and calls Reset ("flush").
FullCallback(a) ==
  /\ apc[a] = "callback"
  /\ \/ /\ callback = "fail"
        /\ Return(a)
        /\ UNCHANGED <<arr, cur, handed>>
     \/ /\ callback = "keep"
        /\ apc' = [apc EXCEPT ![a] = "retry"]
        /\ UNCHANGED <<arr, cur, aval, slot, handed>>
     \/ /\ callback = "flush"
        /\ apc' = [apc EXCEPT ![a] = "retry"]
        /\ arr' = NewArray
        /\ cur' = -1
        /\ handed' = handed \cup Listed
        /\ UNCHANGED <<aval, slot>>
  /\ UNCHANGED <<callback, using, accepted>>

Retry(a) ==
  /\ apc[a] = "retry"
  /\ TakeIndex(a, "giveUp")
  /\ UNCHANGED <<arr, callback, using, aval, accepted, handed>>

\* Mutant: the second index is not given back.
GiveUpKeeps(a) ==
  /\ apc[a] = "giveUp"
  /\ Return(a)
  /\ UNCHANGED <<arr, cur, callback, using, accepted, handed>>

\* Still full: Append returns nil although the value is not in the set.
GiveUp(a) ==
  /\ apc[a] = "giveUp"
  /\ cur' = cur - 1
  /\ Return(a)
  /\ UNCHANGED <<arr, callback, using, accepted, handed>>

\* s.arr[idx] = value; the range check of Go panics on a negative index.
Store(a) ==
  /\ apc[a] = "store"
  /\ \/ /\ slot[a] \in Slots
        /\ arr' = [arr EXCEPT ![slot[a]] = aval[a]]
        /\ accepted' = accepted \cup {aval[a]}
        /\ Return(a)
     \/ /\ slot[a] \notin Slots
        /\ apc' = [apc EXCEPT ![a] = "panicked"]
        /\ UNCHANGED <<arr, aval, slot, accepted>>
  /\ UNCHANGED <<cur, callback, using, handed>>

\* Reset, called by the program while nothing is being appended.
ResetSet ==
  /\ \A a \in Appenders : apc[a] = "idle"
  /\ arr' = NewArray
  /\ cur' = -1
  /\ accepted' = {}
  /\ handed' = {}
  /\ UNCHANGED <<callback, using, apc, aval, slot>>

AppendStep(a) ==
  \/ \E v \in Elements : AppendScan(a, v)
  \/ Bump(a) \/ GiveBack(a) \/ FullCallback(a) \/ Retry(a) \/ GiveUp(a) \/ Store(a)

ASNext == ResetSet \/ \E a \in Appenders : AppendStep(a)

ASSpec == ASInit /\ [][ASNext]_setVars

-----------------------------------------------------------------------------
(* Properties.                                                             *)

\* A callback that resets the set while another goroutine holds an index past
\* the capacity lets the counter run below -1; apart from that use, the
\* counter is safe to share.
Shareable == callback # "flush" \/ Cardinality(using) <= 1

\* Goroutines that append at the same time never store into the same slot,
\* over an element, or outside the array, although an index past the capacity
\* is taken first and given back later.
StoresFree ==
  Shareable =>
    \A a \in Appenders : apc[a] = "store" =>
      /\ slot[a] \in Slots
      /\ arr[slot[a]] = Zero
      /\ \A b \in Appenders \ {a} : apc[b] = "store" => slot[b] # slot[a]

\* What was stored stays in the set or has been handed to the callback, and
\* between calls List is exactly what is in the array: it does not panic, the
\* counter is not behind the stores (every slot after it is unused, and what
\* was stored is listed) and not ahead of them (whatever is listed was stored).
NothingLost ==
  Shareable =>
    /\ accepted \subseteq {arr[i] : i \in Slots} \cup handed
    /\ (\A a \in Appenders : apc[a] = "idle") =>
         /\ cur < Size
         /\ \A i \in Slots : i > cur => arr[i] = Zero
         /\ accepted \subseteq Listed \cup handed
         /\ Listed \subseteq accepted

\* "a fixed-capacity collection of unique values": one goroutine that appends
\* never stores a value twice, also around a callback that empties the set.
Unique ==
  Cardinality(using) <= 1 =>
    \A i, j \in Slots : i < j /\ j <= cur /\ arr[i] = arr[j] =>
      \E a \in using : apc[a] = "store" /\ slot[a] = j
=============================================================================
