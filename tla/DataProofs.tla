----------------------------- MODULE DataProofs -----------------------------
(***************************************************************************)
(* Proofs about ForeachSet, Logging, Buffers and ErrorValues.              *)
(***************************************************************************)
EXTENDS ForeachSet, Logging, Buffers, ErrorValues, SelectionProofs,
        FiniteSetTheorems, SequenceTheorems, TLAPS

-----------------------------------------------------------------------------
(* ForeachSet, for sets of any size, any page size, cursor and server.     *)

ScanType ==
  scan \in [pc : {"idle", "scan", "call", "returned"}, size : Nat,
            pageSize : Nat \ {0}, from : Nat, cursor : Nat, next : Nat \ {0}, last : Nat,
            got : Nat, ctxDone : BOOLEAN, result : {"none", "nil", "error"},
            visited : SUBSET Nat, stopped : BOOLEAN, short : BOOLEAN]

\* Before SSCAN f has been called for the members behind the cursor, from the
\* first cursor on.
BehindCursor ==
  scan.pc = "scan" =>
    /\ scan.cursor <= scan.size
    /\ ~scan.stopped => scan.from + 1 .. scan.cursor \subseteq scan.visited

\* Within a page f has been called for the members before the next, and a
\* page that will end the scan without one that was short reaches the end.
WithinPage ==
  scan.pc = "call" =>
    /\ scan.last <= scan.size
    /\ scan.next <= scan.last + 1
    /\ scan.cursor = 0 \/ scan.cursor = scan.last
    /\ ~scan.stopped => scan.from + 1 .. scan.next - 1 \subseteq scan.visited
    /\ scan.got < scan.pageSize /\ ~scan.short => scan.last = scan.size

ScanInv ==
  /\ ScanType
  /\ scan.visited \subseteq 1 .. scan.size
  /\ BehindCursor
  /\ WithinPage
  /\ VisitsEveryMember

LEMMA ScanInit == FInit => ScanInv
  BY PageAssumption
     DEF FInit, Called, ScanInv, ScanType, BehindCursor, WithinPage,
         VisitsEveryMember, DefaultPageSize

LEMMA ScanNext == ScanInv /\ [FNext]_scanVars => ScanInv'
<1> SUFFICES ASSUME ScanInv, [FNext]_scanVars PROVE ScanInv'
  OBVIOUS
<1> USE DEF ScanInv, ScanType
<1>1. ASSUME NEW n \in 0 .. MaxMembers, NEW c \in 0 .. MaxMembers, NEW s \in PageSizes,
             ForeachCall(n, s, c)
      PROVE  ScanInv'
  <2> DEFINE size == IF s = 0 THEN DefaultPageSize ELSE s
  <2>1. n \in Nat /\ c \in Nat /\ size \in Nat \ {0} /\ (c = 0 \/ c < n)
    BY <1>1, PageAssumption DEF DefaultPageSize, ForeachCall
  <2> HIDE DEF size
  <2>2. CASE scan' = Called("returned", n, s, c, "error")
    BY <2>1, <2>2 DEF Called, size, BehindCursor, WithinPage, VisitsEveryMember
  <2>3. CASE n = 0 /\ scan' = Called("returned", n, s, c, "nil")
    BY <2>1, <2>3 DEF Called, size, BehindCursor, WithinPage, VisitsEveryMember
  <2>4. CASE n > 0 /\ scan' = Called("scan", n, s, c, "none")
    BY <2>1, <2>4 DEF Called, size, BehindCursor, WithinPage, VisitsEveryMember
  <2> QED
    BY <1>1, <2>2, <2>3, <2>4 DEF ForeachCall
<1>2. ASSUME NEW m \in 0 .. MaxMembers, SScan(m) PROVE ScanInv'
  <2> DEFINE end == scan.cursor + m
  <2>1. m \in Nat /\ end \in Nat
    BY PageAssumption
  <2>2. ScanType'
    <3> DEFINE sh == scan.short \/ (m < scan.pageSize /\ end # scan.size)
               cur == IF end = scan.size THEN 0 ELSE end
    <3>1. sh \in BOOLEAN /\ cur \in Nat /\ scan.cursor + 1 \in Nat \ {0}
      BY <2>1
    <3>2. scan' = [scan EXCEPT !.pc = "call", !.next = scan.cursor + 1, !.last = end,
                               !.got = m, !.cursor = cur, !.short = sh]
      BY <1>2 DEF SScan
    <3> HIDE DEF sh, cur, end
    <3> QED
      BY <2>1, <3>1, <3>2
  <2>3. /\ scan'.pc = "call" /\ scan'.size = scan.size /\ scan'.pageSize = scan.pageSize
        /\ scan'.from = scan.from
        /\ scan'.next = scan.cursor + 1 /\ scan'.last = end /\ scan'.got = m
        /\ scan'.cursor = IF end = scan.size THEN 0 ELSE end
        /\ scan'.visited = scan.visited /\ scan'.stopped = scan.stopped
        /\ scan'.short = (scan.short \/ (m < scan.pageSize /\ end # scan.size))
    BY <1>2 DEF SScan
  <2>4. end <= scan.size /\ scan.pc = "scan"
    BY <1>2 DEF SScan
  <2>5. WithinPage'
    <3>1. scan'.last <= scan'.size /\ scan'.next <= scan'.last + 1
      BY <2>1, <2>3, <2>4
    <3>2. scan'.cursor = 0 \/ scan'.cursor = scan'.last
      BY <2>3
    <3>3. ~scan'.stopped => scan'.from + 1 .. scan'.next - 1 \subseteq scan'.visited
      BY <2>3, <2>4 DEF BehindCursor
    <3>4. scan'.got < scan'.pageSize /\ ~scan'.short => scan'.last = scan'.size
      BY <2>3
    <3> QED
      BY <3>1, <3>2, <3>3, <3>4 DEF WithinPage
  <2>6. BehindCursor' /\ VisitsEveryMember'
    BY <2>3 DEF BehindCursor, VisitsEveryMember
  <2>7. (scan.visited \subseteq 1 .. scan.size)'
    BY <2>3
  <2> QED
    BY <2>2, <2>5, <2>6, <2>7
<1>3. CASE SScanFails
  BY <1>3 DEF SScanFails, Returned, BehindCursor, WithinPage, VisitsEveryMember
<1>4. CASE CallF
  <2> DEFINE seen == scan.visited \cup {scan.next}
  <2>1. /\ scan.pc = "call" /\ scan.next <= scan.last /\ scan.last <= scan.size
        /\ seen \subseteq 1 .. scan.size /\ seen \in SUBSET Nat
        /\ scan.next + 1 \in Nat \ {0} /\ scan.last + 1 \in Nat \ {0}
    BY <1>4 DEF CallF, WithinPage
  <2>2. CASE scan' = [scan EXCEPT !.visited = seen, !.next = @ + 1]
    <3>1. ~scan.stopped => scan.from + 1 .. scan.next \subseteq seen
      BY <2>1 DEF WithinPage
    <3>2. ScanType'
      <4> HIDE DEF seen
      <4> QED  BY <2>1, <2>2
    <3>3. /\ scan'.pc = "call" /\ scan'.next = scan.next + 1 /\ scan'.visited = seen
          /\ scan'.last = scan.last /\ scan'.size = scan.size /\ scan'.got = scan.got
          /\ scan'.pageSize = scan.pageSize /\ scan'.cursor = scan.cursor
          /\ scan'.from = scan.from
          /\ scan'.stopped = scan.stopped /\ scan'.short = scan.short
      BY <2>1, <2>2
    <3>4. WithinPage'
      BY <2>1, <3>1, <3>3 DEF WithinPage
    <3>5. BehindCursor' /\ VisitsEveryMember'
      BY <3>3 DEF BehindCursor, VisitsEveryMember
    <3> QED
      BY <2>1, <3>2, <3>3, <3>4, <3>5
  <2>3. CASE scan' = [scan EXCEPT !.visited = seen, !.next = scan.last + 1,
                                  !.stopped = TRUE]
    <3>1. ScanType'
      <4> HIDE DEF seen
      <4> QED  BY <2>1, <2>3
    <3>2. /\ scan'.pc = "call" /\ scan'.next = scan.last + 1 /\ scan'.visited = seen
          /\ scan'.last = scan.last /\ scan'.size = scan.size /\ scan'.got = scan.got
          /\ scan'.pageSize = scan.pageSize /\ scan'.cursor = scan.cursor
          /\ scan'.from = scan.from
          /\ scan'.stopped = TRUE /\ scan'.short = scan.short
      BY <2>1, <2>3
    <3>3. WithinPage' /\ BehindCursor' /\ VisitsEveryMember'
      BY <2>1, <3>2 DEF WithinPage, BehindCursor, VisitsEveryMember
    <3> QED
      BY <2>1, <3>1, <3>2, <3>3
  <2>4. CASE scan' = [scan EXCEPT !.visited = seen, !.pc = "returned", !.result = "error"]
    BY <2>1, <2>4 DEF BehindCursor, WithinPage, VisitsEveryMember
  <2> QED
    BY <1>4, <2>2, <2>3, <2>4 DEF CallF, Returned
<1>5. CASE PageDone
  <2>1. scan.pc = "call" /\ scan.next > scan.last
    BY <1>5 DEF PageDone
  <2>2. ~scan.stopped => scan.from + 1 .. scan.last \subseteq scan.visited
    BY <2>1 DEF WithinPage
  <2>3. CASE scan.got < scan.pageSize /\ scan' = [scan EXCEPT !.pc = "returned", !.result = "nil"]
    BY <2>1, <2>2, <2>3 DEF BehindCursor, WithinPage, VisitsEveryMember
  <2>4. CASE scan' = [scan EXCEPT !.pc = "scan"]
    <3>1. /\ scan'.pc = "scan" /\ scan'.cursor = scan.cursor /\ scan'.size = scan.size
          /\ scan'.visited = scan.visited /\ scan'.stopped = scan.stopped
          /\ scan'.from = scan.from /\ ScanType'
      BY <2>4
    <3>2. scan.cursor = 0 \/ scan.cursor = scan.last
      BY <2>1 DEF WithinPage
    <3>3. scan.last <= scan.size /\ scan.cursor <= scan.size
      BY <2>1, <3>2 DEF WithinPage
    <3>4. scan.cursor = 0 => scan.from + 1 .. scan.cursor = {}
      OBVIOUS
    <3>5. BehindCursor'
      BY <2>2, <3>1, <3>2, <3>3, <3>4 DEF BehindCursor
    <3> QED
      BY <3>1, <3>5 DEF WithinPage, VisitsEveryMember
  <2> QED
    BY <1>5, <2>3, <2>4 DEF PageDone, Returned
<1>6. CASE ContextEnds
  BY <1>6 DEF ContextEnds, BehindCursor, WithinPage, VisitsEveryMember
<1>7. CASE Spins \/ UNCHANGED scanVars
  BY <1>7 DEF Spins, scanVars, BehindCursor, WithinPage, VisitsEveryMember
<1> QED
  BY <1>1, <1>2, <1>3, <1>4, <1>5, <1>6, <1>7 DEF FNext

\* A ForeachSet that returns nil has called f for every member from its cursor
\* on, for a set of any size and any page size and cursor, unless f stopped it or the server sent a short
\* page before the last.
THEOREM ForeachVisitsAll == FSpec => []VisitsEveryMember
<1>1. ScanInv => VisitsEveryMember
  BY DEF ScanInv
<1> QED
  BY <1>1, ScanInit, ScanNext, PTL DEF FSpec

-----------------------------------------------------------------------------
(* The default logger, for any number of goroutines.                       *)

Inside == {"check", "make", "makeDat"}
Calling == Inside \cup {"do", "loadTyp", "loadDat", "peekTyp", "peekDat"}

LogKinds == {"nil", "app", "filter"}

LogTypes ==
  /\ once \in {"new", "running", "done"}
  /\ root \in [typ : LogKinds, dat : Goroutines \cup {AppLogger, NoData}]
  /\ DOMAIN lpc = Goroutines /\ DOMAIN job = Goroutines /\ DOMAIN ctx = Goroutines
  /\ words \in [Goroutines -> [typ : LogKinds, dat : {NoData}]]
  /\ early \in BOOLEAN
  /\ \A p \in Goroutines :
       lpc[p] \in Calling => job[p].op \in {"default", "trace", "context"}

\* One goroutine at a time is inside the once, and only while it runs.
OneInside ==
  \A p \in Goroutines : lpc[p] \in Inside =>
    /\ once = "running"
    /\ \A q \in Goroutines : lpc[q] \in Inside => q = p

\* What has been made when: nothing before the once runs, nothing by whoever
\* is inside it until the logger is stored.
MadeInOnce ==
  /\ once = "new" => made = {}
  /\ \A p \in Goroutines :
       /\ lpc[p] \in {"check", "make"} => made = {}
       /\ lpc[p] = "make" => ~early
       /\ lpc[p] = "makeDat" => p \in made
  /\ \A x, y \in made : x = y

\* A logger that was set before the first use is seen by the first use.
SetIsSeen ==
  /\ early => root.typ # "nil" /\ made = {}
  /\ \A p \in Goroutines : lpc[p] = "setDat" => root.typ # "nil"

\* Every data word is that of a logger that was made or set.
DataKnown ==
  /\ made \subseteq Goroutines
  /\ root.dat \in made \cup {AppLogger, NoData}
  /\ \A p \in Goroutines : ctx[p].logger.dat \in made \cup {AppLogger, NoData}

LogInv == LogTypes /\ OneInside /\ MadeInOnce /\ SetIsSeen /\ DataKnown

LEMMA LogInit == LInit => LogInv
<1> SUFFICES ASSUME LInit PROVE LogInv
  OBVIOUS
<1>1. LogTypes /\ OneInside /\ MadeInOnce /\ SetIsSeen
  <2>1. LogTypes
    BY DEF LInit, LogTypes, NilLogger, Inside, Calling, LogKinds
  <2>2. OneInside /\ MadeInOnce
    BY DEF LInit, OneInside, MadeInOnce, Inside
  <2>3. SetIsSeen
    BY DEF LInit, SetIsSeen
  <2> QED
    BY <2>1, <2>2, <2>3
<1>2. NoCtx.logger.dat = NoData
  BY DEF NoCtx, Logger, NilLogger
<1>3. DataKnown
  BY <1>2 DEF LInit, DataKnown, NilLogger
<1> QED
  BY <1>1, <1>3 DEF LogInv

\* What a call leaves in the context has the data word it has loaded.
LEMMA FinishedData ==
  ASSUME NEW p \in Goroutines, NEW l, NEW kvs,
         job[p].op \in {"default", "trace", "context"}
  PROVE  Finished(p, l, kvs).logger.dat = l.dat
  BY DEF Finished, Logger

LEMMA LogNext == LogInv /\ [LNext]_logVars => LogInv'
<1> SUFFICES ASSUME LogInv, [LNext]_logVars PROVE LogInv'
  OBVIOUS
<1> USE DEF LogInv, LogTypes, OneInside, MadeInOnce, SetIsSeen, DataKnown, Moves,
        Inside, Calling, LogKinds
<1>1. ASSUME NEW p \in Goroutines, SetTyp(p) PROVE LogInv'
  <2>1. TypeOf(AppLogger) = "app"
    BY GoroutineAssumption DEF TypeOf
  <2>2. LogTypes'
    BY <1>1, <2>1 DEF SetTyp
  <2>3. root'.typ = "app" /\ root'.dat = root.dat
    BY <1>1, <2>1 DEF SetTyp
  <2>4. OneInside' /\ MadeInOnce' /\ SetIsSeen'
    BY <1>1, <2>3 DEF SetTyp
  <2>5. DataKnown'
    BY <1>1, <2>3 DEF SetTyp
  <2> QED
    BY <2>2, <2>4, <2>5
<1>2. ASSUME NEW p \in Goroutines, SetDat(p) PROVE LogInv'
  BY <1>2 DEF SetDat
<1>3. ASSUME NEW p \in Goroutines, Do(p) PROVE LogInv'
  BY <1>3 DEF Do
<1>4. ASSUME NEW p \in Goroutines, Check(p) PROVE LogInv'
  BY <1>4 DEF Check
<1>5. ASSUME NEW p \in Goroutines, MakeTyp(p) PROVE LogInv'
  <2>1. LogTypes'
    BY <1>5 DEF MakeTyp
  <2>2. root'.typ = "filter" /\ root'.dat = root.dat
    BY <1>5 DEF MakeTyp
  <2>3. OneInside' /\ MadeInOnce'
    BY <1>5 DEF MakeTyp
  <2>4. SetIsSeen' /\ DataKnown'
    BY <1>5, <2>2 DEF MakeTyp
  <2> QED
    BY <2>1, <2>3, <2>4
<1>6. ASSUME NEW p \in Goroutines, MakeDat(p) PROVE LogInv'
  BY <1>6 DEF MakeDat
<1>7. ASSUME NEW p \in Goroutines, LoadTyp(p) \/ PeekTyp(p) PROVE LogInv'
  BY <1>7 DEF LoadTyp, PeekTyp
<1>8. ASSUME NEW p \in Goroutines, LoadDat(p) PROVE LogInv'
  <2> DEFINE l == [words[p] EXCEPT !.dat = root.dat]
  <2>1. ctx' = [ctx EXCEPT ![p] = Finished(p, l, <<>>)]
    BY <1>8 DEF LoadDat, Returns
  <2>2. ctx'[p].logger.dat = root.dat
    BY <1>8, <2>1, FinishedData DEF LoadDat
  <2>3. DataKnown'
    BY <1>8, <2>1, <2>2 DEF LoadDat
  <2>4. LogTypes'
    BY <1>8, <2>1 DEF LoadDat, Returns, NilLogger
  <2>5. OneInside' /\ MadeInOnce' /\ SetIsSeen'
    BY <1>8 DEF LoadDat
  <2> QED
    BY <2>3, <2>4, <2>5
<1>9. ASSUME NEW p \in Goroutines, PeekDat(p) PROVE LogInv'
  <2> DEFINE l == [words[p] EXCEPT !.dat = root.dat]
             kvs == IF job[p].op = "trace" THEN job[p].kvs ELSE <<>>
  <2>1. CASE lpc' = [lpc EXCEPT ![p] = "do"] /\ UNCHANGED <<job, ctx>>
    <3>1. LogTypes'
      BY <1>9, <2>1 DEF PeekDat, NilLogger
    <3> QED
      BY <1>9, <2>1, <3>1 DEF PeekDat
  <2>2. CASE lpc' = [lpc EXCEPT ![p] = "idle"] /\ Returns(p, l, kvs)
    <3>1. ctx' = [ctx EXCEPT ![p] = Finished(p, l, kvs)]
      BY <2>2 DEF Returns
    <3>2. ctx'[p].logger.dat = root.dat
      BY <1>9, <3>1, FinishedData DEF PeekDat
    <3>3. DataKnown'
      BY <1>9, <3>1, <3>2 DEF PeekDat
    <3>4. LogTypes'
      BY <1>9, <2>2, <3>1 DEF PeekDat, Returns, NilLogger
    <3>5. OneInside' /\ MadeInOnce' /\ SetIsSeen'
      BY <1>9, <2>2 DEF PeekDat
    <3> QED
      BY <3>3, <3>4, <3>5
  <2> QED
    BY <1>9, <2>1, <2>2 DEF PeekDat
<1>10. ASSUME NEW p \in Goroutines, CallDefault(p) PROVE LogInv'
  BY <1>10 DEF CallDefault, NoJob
<1>11. ASSUME NEW p \in Goroutines, NEW op \in {"trace", "context"}, NEW kvs,
              CallTrace(p, op, kvs)
       PROVE  LogInv'
  BY <1>11 DEF CallTrace
<1>12. ASSUME NEW p \in Goroutines, NEW kvs, CallContextWith(p, kvs) PROVE LogInv'
  BY <1>12 DEF CallContextWith, With
<1>13. ASSUME NEW p \in Goroutines, NEW opts, NEW kvs, Log(p, opts, kvs) PROVE LogInv'
  BY <1>13 DEF Log
<1>14. ASSUME NEW p \in Goroutines, LogTorn(p) PROVE LogInv'
  BY <1>14 DEF LogTorn
<1>15. CASE UNCHANGED logVars
  BY <1>15 DEF logVars
<1> QED
  BY <1>1, <1>2, <1>3, <1>4, <1>5, <1>6, <1>7, <1>8, <1>9, <1>10, <1>11, <1>12,
     <1>13, <1>14, <1>15 DEF LNext, LoggerStep, LogOver

\* However many goroutines use the logger first or set it, at most one default
\* logger is made, none if one had been set before, and nobody holds another.
THEOREM OneDefaultLogger == LSpec => []OneDefault
<1>1. LogInv => OneDefault
  <2> SUFFICES ASSUME LogInv PROVE OneDefault
    OBVIOUS
  <2>1. Cardinality(made) <= 1
    <3>1. CASE made = {}
      BY <3>1, FS_EmptySet
    <3>2. CASE made # {}
      <4>1. PICK x \in made : made = {x}
        BY <3>2 DEF LogInv, MadeInOnce
      <4> QED
        BY <4>1, FS_Singleton
    <3> QED
      BY <3>1, <3>2
  <2> QED
    BY <2>1 DEF LogInv, SetIsSeen, DataKnown, OneDefault
<1> QED
  BY <1>1, LogInit, LogNext, PTL DEF LSpec

-----------------------------------------------------------------------------
(* The records, for any lists of pairs.                                    *)

LogKeys == {"caller", "traceId", "print"} \cup {v[1] : v \in GivenPairs}
LogValues == {"New"} \cup Nat \cup {v[2] : v \in GivenPairs}
LogPairs == LogKeys \X LogValues

\* The pairs with some of the keys, whatever list they are in.
Keyed(K) == {kv \in LogPairs : kv[1] \in K}
OtherKeys == LogKeys \ {"caller", "print"}

\* Selecting the pairs of a list by their key.
LEMMA PairsKeyed ==
  ASSUME NEW s \in Seq(LogPairs), NEW K
  PROVE  PairsOf(s, K) = Select(s, Keyed(K)) /\ PairsOf(s, K) \in Seq(LogPairs)
<1> DEFINE R == {s[i] : i \in {j \in DOMAIN s : s[j][1] \in K}}
<1>1. Len(s) \in Nat /\ DOMAIN s = 1 .. Len(s) /\ \A i \in 1 .. Len(s) : s[i] \in LogPairs
  OBVIOUS
<1>2. \A i \in 1 .. Len(s) : s[i] \in R <=> s[i] \in Keyed(K)
  <2> SUFFICES ASSUME NEW i \in 1 .. Len(s) PROVE s[i] \in R <=> s[i] \in Keyed(K)
    OBVIOUS
  <2>1. s[i] \in R => s[i][1] \in K
    <3> SUFFICES ASSUME s[i] \in R PROVE s[i][1] \in K
      OBVIOUS
    <3>1. PICK j \in DOMAIN s : s[j][1] \in K /\ s[i] = s[j]
      OBVIOUS
    <3>2. QED
      BY <3>1
  <2>2. s[i][1] \in K => s[i] \in R
    BY <1>1
  <2>3. QED
    BY <1>1, <2>1, <2>2 DEF Keyed
<1>3. PairsOf(s, K) = Select(s, R)
  BY DEF PairsOf
<1> HIDE DEF R
<1>4. Len(s) \in 0 .. Len(s) /\ Len(s) <= Len(s)
  BY <1>1
<1>5. \A i \in 0 .. Len(s) : Selected(s, R)[i] = Selected(s, Keyed(K))[i]
  BY <1>2, <1>4, SelectSame
<1>6. \A i \in 0 .. Len(s) : Selected(s, Keyed(K))[i] \in Seq(LogPairs)
  BY SelectedSteps
<1>7. QED
  BY <1>3, <1>4, <1>5, <1>6 DEF Select

ExtStates ==
  {a \in [out : Seq(LogPairs), caller : Nat, prints : Seq(LogValues)] :
     a.caller <= Len(a.out)}
ExtStart == [out |-> <<>>, caller |-> 0, prints |-> <<>>]

\* A turn of the loop, by the key of the pair.
LEMMA ExtStepCases ==
  ASSUME NEW a \in ExtStates, NEW kv \in LogPairs
  PROVE  /\ kv[1] = "print" =>
              ExtStep(a, kv) = [out |-> a.out, caller |-> a.caller, prints |-> Append(a.prints, kv[2])]
         /\ kv[1] = "caller" /\ a.caller # 0 =>
              ExtStep(a, kv) = [out |-> [a.out EXCEPT ![a.caller] = kv],
                                caller |-> a.caller, prints |-> a.prints]
         /\ kv[1] # "print" /\ (kv[1] = "caller" => a.caller = 0) =>
              ExtStep(a, kv) = [out |-> Append(a.out, kv),
                                caller |-> IF kv[1] = "caller" THEN Len(a.out) + 1 ELSE a.caller,
                                prints |-> a.prints]
<1>1. a = [out |-> a.out, caller |-> a.caller, prints |-> a.prints]
  BY DEF ExtStates
<1>2. a \in [out : Seq(LogPairs), caller : Nat, prints : Seq(LogValues)]
  BY DEF ExtStates
<1>3. kv[1] = "print" =>
              ExtStep(a, kv) = [out |-> a.out, caller |-> a.caller, prints |-> Append(a.prints, kv[2])]
  BY <1>2 DEF ExtStep
<1>4. kv[1] = "caller" /\ a.caller # 0 =>
              ExtStep(a, kv) = [out |-> [a.out EXCEPT ![a.caller] = kv],
                                caller |-> a.caller, prints |-> a.prints]
  BY <1>2 DEF ExtStep
<1>5. kv[1] # "print" /\ (kv[1] = "caller" => a.caller = 0) =>
              ExtStep(a, kv) = [out |-> Append(a.out, kv),
                                caller |-> IF kv[1] = "caller" THEN Len(a.out) + 1 ELSE a.caller,
                                prints |-> a.prints]
  BY <1>2 DEF ExtStep
<1>6. QED
  BY <1>3, <1>4, <1>5

\* A turn of the loop keeps the types.
LEMMA ExtStepType ==
  ASSUME NEW a \in ExtStates, NEW kv \in LogPairs
  PROVE  ExtStep(a, kv) \in ExtStates
<1>1. a.out \in Seq(LogPairs) /\ a.caller \in Nat /\ a.caller <= Len(a.out) /\ a.prints \in Seq(LogValues)
  BY DEF ExtStates
<1>2. kv[2] \in LogValues
  BY DEF LogPairs
<1>3. CASE kv[1] = "print"
  <2>1. Append(a.prints, kv[2]) \in Seq(LogValues)
    BY <1>1, <1>2
  <2> DEFINE q == Append(a.prints, kv[2])
  <2> HIDE DEF q
  <2>2. [out |-> a.out, caller |-> a.caller, prints |-> q] \in ExtStates
    BY <1>1, <2>1 DEF ExtStates, q
  <2>3. QED
    BY <1>3, <2>2, ExtStepCases DEF q
<1>4. CASE kv[1] = "caller" /\ a.caller # 0
  <2> DEFINE t == [a.out EXCEPT ![a.caller] = kv]
  <2>1. t \in Seq(LogPairs) /\ Len(t) = Len(a.out)
    <3>1. a.caller \in 1 .. Len(a.out)
      BY <1>1, <1>4
    <3>2. QED
      BY <1>1, <3>1, ExceptSeq
  <2> HIDE DEF t
  <2>2. [out |-> t, caller |-> a.caller, prints |-> a.prints] \in ExtStates
    BY <1>1, <2>1 DEF ExtStates
  <2>3. QED
    BY <1>4, <2>2, ExtStepCases DEF t
<1>5. CASE kv[1] # "print" /\ (kv[1] = "caller" => a.caller = 0)
  <2> DEFINE t == Append(a.out, kv)
             c == IF kv[1] = "caller" THEN Len(a.out) + 1 ELSE a.caller
  <2>1. t \in Seq(LogPairs) /\ Len(t) = Len(a.out) + 1 /\ Len(a.out) \in Nat
    BY <1>1
  <2>2. c \in Nat /\ c <= Len(t)
    BY <1>1, <2>1
  <2> HIDE DEF t, c
  <2>3. [out |-> t, caller |-> c, prints |-> a.prints] \in ExtStates
    BY <1>1, <2>1, <2>2 DEF ExtStates
  <2>4. QED
    BY <1>5, <2>3, ExtStepCases DEF t, c
<1>6. QED
  BY <1>3, <1>4, <1>5

\* The turns of the loop.
LEMMA ExtStepsOf ==
  ASSUME NEW s \in Seq(LogPairs)
  PROVE  /\ ExtSteps(s)[0] = ExtStart
         /\ \A i \in 1 .. Len(s) : ExtSteps(s)[i] = ExtStep(ExtSteps(s)[i - 1], s[i])
         /\ \A i \in 0 .. Len(s) : ExtSteps(s)[i] \in ExtStates
<1> DEFINE L == Len(s)
           F(f) == [i \in 0 .. L |-> IF i = 0 THEN ExtStart ELSE ExtStep(f[i - 1], s[i])]
           G == [p \in ExtStates \X (1 .. L) |-> ExtStep(p[1], s[p[2]])]
           fits(f) == f = F(f)
           h == ExtSteps(s)
<1>1. L \in Nat /\ \A i \in 1 .. L : s[i] \in LogPairs
  OBVIOUS
<1>2. ExtStart \in ExtStates
  BY DEF ExtStart, ExtStates
<1>3. G \in [ExtStates \X (1 .. L) -> ExtStates]
  BY <1>1, ExtStepType
<1>4. \A a \in ExtStates, i \in 1 .. L : G[<<a, i>>] = ExtStep(a, s[i])
  OBVIOUS
<1>5. h = CHOOSE f : fits(f)
  BY DEF ExtSteps, ExtStart
<1> HIDE DEF G, L
<1>6. PICK f \in [0 .. L -> ExtStates] :
        f[0] = ExtStart /\ \A i \in 1 .. L : f[i] = G[<<f[i - 1], i>>]
  <2>1. Steps(L, ExtStates, ExtStart, G) # {}
    BY <1>1, <1>2, <1>3, Stepwise
  <2>2. QED
    BY <2>1 DEF Steps
<1>7. fits(f)
  <2>1. ASSUME NEW i \in 0 .. L PROVE f[i] = F(f)[i]
    <3>1. CASE i = 0
      BY <1>6, <3>1
    <3>2. CASE i # 0
      <4>1. i \in 1 .. L /\ i - 1 \in 0 .. L
        BY <1>1, <3>2
      <4>2. QED
        BY <1>4, <1>6, <4>1
    <3>3. QED
      BY <3>1, <3>2
  <2>2. QED
    BY <2>1
<1>8. h = F(h)
  <2> HIDE DEF fits, h
  <2>1. fits(h)
    BY <1>5, <1>7
  <2>2. QED
    BY <2>1 DEF fits
<1> HIDE DEF h, fits
<1>9. /\ h[0] = ExtStart
      /\ \A i \in 1 .. L : h[i] = ExtStep(h[i - 1], s[i])
  <2>1. h[0] = F(h)[0] /\ F(h)[0] = ExtStart
    BY <1>1, <1>8
  <2>2. ASSUME NEW i \in 1 .. L PROVE h[i] = ExtStep(h[i - 1], s[i])
    <3>1. i \in 0 .. L /\ i # 0
      BY <1>1
    <3>2. h[i] = F(h)[i]
      BY <1>8, Zenon
    <3>3. F(h)[i] = ExtStep(h[i - 1], s[i])
      BY <3>1
    <3>4. QED
      BY <3>2, <3>3, Zenon
  <2>3. QED
    BY <2>1, <2>2
<1>10. \A i \in 0 .. L : h[i] \in ExtStates
  <2> DEFINE T == {i \in 0 .. L : h[i] \in ExtStates}
  <2>1. 0 \in T
    BY <1>1, <1>2, <1>9
  <2>2. ASSUME NEW n \in 0 .. L - 1, n \in T PROVE n + 1 \in T
    <3>1. n + 1 \in 1 .. L /\ n + 1 \in 0 .. L /\ (n + 1) - 1 = n /\ h[n] \in ExtStates
      BY <1>1, <2>2
    <3>2. h[n + 1] = ExtStep(h[n], s[n + 1]) /\ s[n + 1] \in LogPairs
      BY <1>1, <1>9, <3>1
    <3>3. h[n + 1] \in ExtStates
      BY <3>1, <3>2, ExtStepType
    <3>4. QED
      BY <3>1, <3>3
  <2> HIDE DEF T
  <2>3. 0 .. L \subseteq T
    BY <1>1, <2>1, <2>2, UpTo
  <2>4. QED
    BY <2>3 DEF T
<1>11. QED
  BY <1>9, <1>10 DEF h, L

Seconds(q) == [i \in DOMAIN q |-> q[i][2]]

\* The values of a list with one pair more, and of one pair.
LEMMA SecondsAppend ==
  ASSUME NEW q \in Seq(LogPairs), NEW v \in LogPairs
  PROVE  /\ Seconds(Append(q, v)) = Append(Seconds(q), v[2])
         /\ Seconds(<<v>>) = <<v[2]>>
         /\ Seconds(<<>>) = <<>>
<1>1. \A i \in 1 .. Len(q) : q[i][2] \in LogValues
  BY DEF LogPairs
<1>2. v[2] \in LogValues
  BY DEF LogPairs
<1>3. Seconds(q) \in Seq(LogValues) /\ Len(Seconds(q)) = Len(q) /\ Len(q) \in Nat
  BY <1>1 DEF Seconds
<1> DEFINE n == Len(q)
           x == Append(q, v)
           y == Append(Seconds(q), v[2])
<1>4. x \in Seq(LogPairs) /\ Len(x) = n + 1 /\ x[n + 1] = v /\ \A i \in 1 .. n : x[i] = q[i]
  OBVIOUS
<1>5. y \in Seq(LogValues) /\ Len(y) = n + 1 /\ y[n + 1] = v[2] /\ \A i \in 1 .. n : y[i] = q[i][2]
  BY <1>2, <1>3 DEF Seconds
<1> HIDE DEF x, y
<1>6. \A i \in 1 .. n + 1 : x[i][2] \in LogValues
  BY <1>4 DEF LogPairs
<1>7. Seconds(x) \in Seq(LogValues) /\ Len(Seconds(x)) = n + 1 /\ \A i \in 1 .. n + 1 : Seconds(x)[i] = x[i][2]
  BY <1>3, <1>4, <1>6 DEF Seconds
<1>8. ASSUME NEW i \in 1 .. n + 1 PROVE Seconds(x)[i] = y[i]
  <2>1. Seconds(x)[i] = x[i][2]
    BY <1>7
  <2>2. i = n + 1 \/ i \in 1 .. n
    BY <1>3
  <2>3. QED
    BY <1>4, <1>5, <2>1, <2>2
<1>9. Seconds(x) = y
  BY <1>3, <1>5, <1>7, <1>8, SeqEqual
<1>10. Seconds(<<v>>) = <<v[2]>> /\ Seconds(<<>>) = <<>>
  BY DEF Seconds
<1>11. QED
  BY <1>9, <1>10 DEF x, y

\* After a number of turns: the other pairs so far are in the record, the
\* print values so far have been set aside, and from the first pair on, which
\* is a caller, the record begins with the last caller so far and has no other.
Kept(s, a, i, K) == Select(a.out, Keyed(K)) = Selected(s, Keyed(K))[i]
SetAside(s, a, i) == a.prints = Seconds(Selected(s, Keyed({"print"}))[i])
NoPrints(a) ==
  \A j \in 1 .. Len(a.out) : a.out[j][1] # "print" /\ (a.out[j][1] = "caller" => j = 1)
CallerFirst(s, a, i) ==
  /\ i > 0 => a.caller = 1
  /\ LET c == Selected(s, Keyed({"caller"}))[i]
     IN  i > 0 => Len(c) > 0 /\ c[Len(c)] = a.out[1] /\ a.out[1][1] = "caller"
  /\ i = 0 => a = ExtStart
Turned(s, a, i) ==
  /\ Kept(s, a, i, OtherKeys) /\ Kept(s, a, i, {"traceId"})
  /\ SetAside(s, a, i) /\ NoPrints(a) /\ CallerFirst(s, a, i)

\* A pair appended or a caller replaced.
LEMMA KeptOn ==
  ASSUME NEW s \in Seq(LogPairs), NEW i \in 0 .. Len(s) - 1, NEW a \in ExtStates,
         NEW K, "caller" \notin K, "print" \notin K, Kept(s, a, i, K),
         a.caller # 0 => a.out[a.caller][1] = "caller"
  PROVE  Kept(s, ExtStep(a, s[i + 1]), i + 1, K)
<1> DEFINE kv == s[i + 1]
           S == Keyed(K)
           b == ExtStep(a, kv)
<1>1. /\ kv \in LogPairs /\ i + 1 \in 1 .. Len(s) /\ (i + 1) - 1 = i
      /\ a.out \in Seq(LogPairs) /\ a.caller \in Nat /\ a.caller <= Len(a.out)
  BY DEF ExtStates
<1>2. kv \in S <=> kv[1] \in K
  BY <1>1 DEF Keyed
<1>3. Selected(s, S)[i + 1] = IF kv \in S THEN Append(Selected(s, S)[i], kv) ELSE Selected(s, S)[i]
  BY <1>1, SelectedSteps
<1>4. Select(a.out, S) = Selected(s, S)[i]
  BY DEF Kept
<1> HIDE DEF kv, S
<1>5. CASE kv[1] = "print"
  <2>1. b.out = a.out
    BY <1>1, <1>5, ExtStepCases
  <2>2. kv \notin S
    BY <1>2, <1>5
  <2>3. Select(b.out, S) = Selected(s, S)[i + 1]
    BY <1>3, <1>4, <2>1, <2>2
  <2>4. QED
    BY <2>3 DEF Kept, S, kv
<1>6. CASE kv[1] = "caller" /\ a.caller # 0
  <2> DEFINE t == [a.out EXCEPT ![a.caller] = kv]
             L == Len(a.out)
  <2>1. b.out = t
    <3> DEFINE c == [out |-> t, caller |-> a.caller, prints |-> a.prints]
    <3>1. ExtStep(a, kv) = c
      BY <1>1, <1>6, ExtStepCases
    <3>2. c.out = t
      OBVIOUS
    <3> HIDE DEF c
    <3>3. QED
      BY <3>1, <3>2
  <2>2. a.caller \in 1 .. L /\ L \in Nat
    BY <1>1, <1>6
  <2>3. /\ t \in Seq(LogPairs) /\ Len(t) = L
        /\ \A j \in 1 .. L : t[j] = IF j = a.caller THEN kv ELSE a.out[j]
    BY <1>1, <2>2, ExceptSeq
  <2> HIDE DEF t
  <2>4. kv \notin S /\ a.out[a.caller] \notin S
    BY <1>1, <1>2, <1>6 DEF Keyed, S
  <2>5. \A j \in 1 .. L : (a.out[j] \in S <=> t[j] \in S) /\ (a.out[j] \in S => a.out[j] = t[j])
    BY <2>3, <2>4
  <2>6. L \in 0 .. L /\ L <= Len(t)
    BY <2>2, <2>3
  <2>7. \A j \in 0 .. L : Selected(a.out, S)[j] = Selected(t, S)[j]
    <3> DEFINE o == a.out
    <3>1. /\ o \in Seq(LogPairs) /\ t \in Seq(LogPairs)
          /\ L \in 0 .. Len(o) /\ L <= Len(t)
          /\ \A j \in 1 .. L : (o[j] \in S <=> t[j] \in S) /\ (o[j] \in S => o[j] = t[j])
      BY <1>1, <2>3, <2>5, <2>6
    <3> HIDE DEF o, L
    <3>2. \A j \in 0 .. L : Selected(o, S)[j] = Selected(t, S)[j]
      BY <3>1, SelectSame
    <3>3. QED
      BY <3>2 DEF o
  <2>8. Select(t, S) = Select(a.out, S)
    BY <2>3, <2>6, <2>7 DEF Select
  <2>9. Select(b.out, S) = Selected(s, S)[i + 1]
    BY <1>3, <1>4, <2>1, <2>4, <2>8
  <2>10. QED
    BY <2>9 DEF Kept, S, kv
<1>7. CASE kv[1] # "print" /\ (kv[1] = "caller" => a.caller = 0)
  <2>1. b.out = Append(a.out, kv)
    BY <1>1, <1>7, ExtStepCases
  <2>2. Select(Append(a.out, kv), S) =
          IF kv \in S THEN Append(Select(a.out, S), kv) ELSE Select(a.out, S)
    BY <1>1, SelectAppend
  <2>3. Select(b.out, S) = Selected(s, S)[i + 1]
    BY <1>3, <1>4, <2>1, <2>2
  <2>4. QED
    BY <2>3 DEF Kept, S, kv
<1>8. QED
  BY <1>5, <1>6, <1>7

\* One turn more.
LEMMA TurnedOn ==
  ASSUME NEW s \in Seq(LogPairs), NEW i \in 0 .. Len(s) - 1, NEW a \in ExtStates,
         s[1][1] = "caller", Turned(s, a, i)
  PROVE  Turned(s, ExtStep(a, s[i + 1]), i + 1)
<1> DEFINE kv == s[i + 1]
           b == ExtStep(a, kv)
           P == Keyed({"print"})
           C == Keyed({"caller"})
<1>1. /\ kv \in LogPairs /\ i + 1 \in 1 .. Len(s) /\ (i + 1) - 1 = i /\ i \in Nat
      /\ a.out \in Seq(LogPairs) /\ a.caller \in Nat /\ a.caller <= Len(a.out)
      /\ a.prints \in Seq(LogValues) /\ Len(a.out) \in Nat /\ i \in 0 .. Len(s)
  BY DEF ExtStates
<1>2. (kv \in P <=> kv[1] = "print") /\ (kv \in C <=> kv[1] = "caller")
  BY <1>1 DEF Keyed
<1>3. /\ Selected(s, P)[i + 1] = IF kv \in P THEN Append(Selected(s, P)[i], kv) ELSE Selected(s, P)[i]
      /\ Selected(s, P)[i] \in Seq(LogPairs)
  <2> HIDE DEF P, kv
  <2>1. /\ Selected(s, P)[i + 1] =
             IF s[i + 1] \in P THEN Append(Selected(s, P)[(i + 1) - 1], s[i + 1])
             ELSE Selected(s, P)[(i + 1) - 1]
        /\ Selected(s, P)[i] \in Seq(LogPairs)
    BY <1>1, SelectedSteps
  <2>2. QED
    BY <1>1, <2>1 DEF kv
<1>4. /\ Selected(s, C)[i + 1] = IF kv \in C THEN Append(Selected(s, C)[i], kv) ELSE Selected(s, C)[i]
      /\ Selected(s, C)[i] \in Seq(LogPairs)
  <2> HIDE DEF C, kv
  <2>1. /\ Selected(s, C)[i + 1] =
             IF s[i + 1] \in C THEN Append(Selected(s, C)[(i + 1) - 1], s[i + 1])
             ELSE Selected(s, C)[(i + 1) - 1]
        /\ Selected(s, C)[i] \in Seq(LogPairs)
    BY <1>1, SelectedSteps
  <2>2. QED
    BY <1>1, <2>1 DEF kv
<1>5. i = 0 => a.caller = 0 /\ a.out = <<>> /\ a.prints = <<>> /\ kv[1] = "caller"
  BY DEF Turned, CallerFirst, ExtStart
<1>6. i > 0 => /\ a.caller = 1 /\ Len(Selected(s, C)[i]) > 0
               /\ Selected(s, C)[i][Len(Selected(s, C)[i])] = a.out[1]
               /\ a.out[1][1] = "caller"
  BY DEF Turned, CallerFirst
<1>7. a.caller # 0 => a.out[a.caller][1] = "caller"
  BY <1>1, <1>5, <1>6
<1>8. Kept(s, b, i + 1, OtherKeys) /\ Kept(s, b, i + 1, {"traceId"})
  <2>1. Kept(s, a, i, OtherKeys) /\ Kept(s, a, i, {"traceId"})
    BY DEF Turned
  <2>2. "caller" \notin OtherKeys /\ "print" \notin OtherKeys
    BY DEF OtherKeys
  <2>3. Kept(s, b, i + 1, OtherKeys)
    BY <1>7, <2>1, <2>2, KeptOn
  <2>4. "caller" \notin {"traceId"} /\ "print" \notin {"traceId"}
    OBVIOUS
  <2>5. Kept(s, b, i + 1, {"traceId"})
    BY <1>7, <2>1, <2>4, KeptOn
  <2>6. QED
    BY <2>3, <2>5
<1>9. a.prints = Seconds(Selected(s, P)[i]) /\ NoPrints(a)
  BY DEF Turned, SetAside
<1> HIDE DEF kv, P, C, b
<1>10. CASE kv[1] = "print"
  <2>1. b.out = a.out /\ b.caller = a.caller /\ b.prints = Append(a.prints, kv[2])
    <3>1. b = [out |-> a.out, caller |-> a.caller, prints |-> Append(a.prints, kv[2])]
      BY <1>1, <1>10, ExtStepCases DEF b
    <3>2. QED
      BY <3>1
  <2>2. i > 0 /\ i + 1 > 0 /\ ~(i + 1 = 0)
    BY <1>1, <1>5, <1>10
  <2>3. b.prints = Seconds(Selected(s, P)[i + 1])
    <3>1. Seconds(Append(Selected(s, P)[i], kv)) = Append(Seconds(Selected(s, P)[i]), kv[2])
      BY <1>1, <1>3, SecondsAppend
    <3>2. QED
      BY <1>2, <1>3, <1>9, <1>10, <2>1, <3>1
  <2>4. Selected(s, C)[i + 1] = Selected(s, C)[i]
    BY <1>2, <1>4, <1>10
  <2>5. CallerFirst(s, b, i + 1)
    BY <1>6, <2>1, <2>2, <2>4 DEF CallerFirst, C
  <2>6. NoPrints(b)
    BY <1>9, <2>1 DEF NoPrints
  <2>7. QED
    BY <1>8, <2>3, <2>5, <2>6 DEF Turned, SetAside, P, b, kv
<1>11. CASE kv[1] = "caller" /\ a.caller # 0
  <2>1. b.out = [a.out EXCEPT ![a.caller] = kv] /\ b.caller = a.caller /\ b.prints = a.prints
    BY <1>1, <1>11, ExtStepCases DEF b
  <2>2. i > 0 /\ i + 1 > 0 /\ ~(i + 1 = 0) /\ a.caller = 1 /\ 1 \in 1 .. Len(a.out)
    BY <1>1, <1>5, <1>6, <1>11
  <2>3. /\ b.out \in Seq(LogPairs) /\ Len(b.out) = Len(a.out)
        /\ b.out[1] = kv /\ \A j \in 1 .. Len(a.out) : j # 1 => b.out[j] = a.out[j]
    BY <1>1, <2>1, <2>2, ExceptSeq
  <2>4. b.prints = Seconds(Selected(s, P)[i + 1])
    BY <1>2, <1>3, <1>9, <1>11, <2>1
  <2>5. CallerFirst(s, b, i + 1)
    <3> DEFINE c == Selected(s, C)[i]
               x == Selected(s, C)[i + 1]
    <3>1. x = Append(c, kv) /\ c \in Seq(LogPairs)
      BY <1>2, <1>4, <1>11
    <3> HIDE DEF c, x
    <3>2. Len(x) > 0 /\ x[Len(x)] = kv
      BY <1>1, <3>1
    <3>3. QED
      BY <1>11, <2>1, <2>2, <2>3, <3>2 DEF CallerFirst, C, x
  <2>6. NoPrints(b)
    BY <1>9, <1>11, <2>3 DEF NoPrints
  <2>7. QED
    BY <1>8, <2>4, <2>5, <2>6 DEF Turned, SetAside, P, b, kv
<1>12. CASE kv[1] # "print" /\ (kv[1] = "caller" => a.caller = 0)
  <2> DEFINE n == Len(a.out)
  <2>1. /\ b.out = Append(a.out, kv) /\ b.prints = a.prints
        /\ b.caller = IF kv[1] = "caller" THEN Len(a.out) + 1 ELSE a.caller
    BY <1>1, <1>12, ExtStepCases DEF b
  <2>2. /\ b.out \in Seq(LogPairs) /\ Len(b.out) = n + 1
        /\ b.out[n + 1] = kv /\ \A j \in 1 .. n : b.out[j] = a.out[j]
    BY <1>1, <2>1
  <2>3. b.prints = Seconds(Selected(s, P)[i + 1])
    BY <1>2, <1>3, <1>9, <1>12, <2>1
  <2>4. CASE i = 0
    <3>1. n = 0 /\ kv[1] = "caller" /\ b.caller = 1 /\ b.out[1] = kv /\ Len(b.out) = 1
      BY <1>5, <2>1, <2>2, <2>4
    <3>2. NoPrints(b)
      BY <3>1 DEF NoPrints
    <3> DEFINE c == Selected(s, C)[i]
               x == Selected(s, C)[i + 1]
    <3>3. x = Append(c, kv) /\ c \in Seq(LogPairs)
      BY <1>2, <1>4, <3>1
    <3> HIDE DEF c, x
    <3>4. Len(x) > 0 /\ x[Len(x)] = kv
      BY <1>1, <3>3
    <3>5. CallerFirst(s, b, i + 1)
      BY <2>4, <3>1, <3>4 DEF CallerFirst, C, x
    <3>6. QED
      BY <1>8, <2>3, <3>2, <3>5 DEF Turned, SetAside, P, b, kv
  <2>5. CASE i # 0
    <3>1. i > 0 /\ i + 1 > 0 /\ ~(i + 1 = 0) /\ a.caller = 1 /\ kv[1] # "caller" /\ n > 0
      <4>1. i > 0 /\ i + 1 > 0 /\ ~(i + 1 = 0)
        BY <1>1, <2>5
      <4>2. a.caller = 1
        BY <1>6, <4>1
      <4>3. kv[1] # "caller"
        BY <1>12, <4>2
      <4>4. n > 0
        BY <1>1, <4>2
      <4>5. QED
        BY <4>1, <4>2, <4>3, <4>4
    <3>2. b.caller = 1 /\ b.out[1] = a.out[1]
      BY <1>1, <2>1, <2>2, <3>1
    <3>3. Selected(s, C)[i + 1] = Selected(s, C)[i]
      BY <1>2, <1>4, <3>1
    <3>4. CallerFirst(s, b, i + 1)
      BY <1>6, <3>1, <3>2, <3>3 DEF CallerFirst, C
    <3>5. NoPrints(b)
      <4> SUFFICES ASSUME NEW j \in 1 .. Len(b.out)
                   PROVE  b.out[j][1] # "print" /\ (b.out[j][1] = "caller" => j = 1)
        BY DEF NoPrints
      <4>1. CASE j = n + 1
        BY <1>12, <2>2, <3>1, <4>1
      <4>2. CASE j # n + 1
        <5>1. j \in 1 .. n
          BY <1>1, <2>2, <4>2
        <5>2. QED
          BY <1>9, <2>2, <5>1 DEF NoPrints
      <4>3. QED
        BY <4>1, <4>2
    <3>6. QED
      BY <1>8, <2>3, <3>4, <3>5 DEF Turned, SetAside, P, b, kv
  <2>6. QED
    BY <2>4, <2>5
<1>13. QED
  BY <1>10, <1>11, <1>12

\* All turns.
LEMMA ExtLogTurned ==
  ASSUME NEW s \in Seq(LogPairs), Len(s) > 0, s[1][1] = "caller"
  PROVE  Turned(s, ExtLog(s), Len(s)) /\ ExtLog(s) \in ExtStates
<1> DEFINE L == Len(s)
           h == ExtSteps(s)
           T == {i \in 0 .. L : Turned(s, h[i], i)}
<1>1. L \in Nat
  OBVIOUS
<1>2. /\ h[0] = ExtStart
      /\ \A i \in 1 .. L : h[i] = ExtStep(h[i - 1], s[i])
      /\ \A i \in 0 .. L : h[i] \in ExtStates
  BY ExtStepsOf
<1>3. \A S : Selected(s, S)[0] = <<>> /\ Select(<<>>, S) = <<>>
  <2>1. \A S : Selected(s, S)[0] = <<>>
    BY SelectedSteps
  <2> DEFINE e == <<>>
  <2>2. e \in Seq(LogPairs) /\ Len(e) = 0 /\ e = <<>>
    OBVIOUS
  <2> HIDE DEF e
  <2>3. ASSUME NEW S PROVE Select(e, S) = <<>>
    <3>1. \A i \in 1 .. Len(e) : e[i] \notin S
      BY <2>2
    <3>2. QED
      BY <2>2, <3>1, SelectFew
  <2>4. QED
    BY <2>1, <2>2, <2>3
<1> HIDE DEF h
<1>4. 0 \in T
  <2>1. ExtStart.out = <<>> /\ ExtStart.prints = <<>> /\ Len(ExtStart.out) = 0
    BY DEF ExtStart
  <2>2. Kept(s, ExtStart, 0, OtherKeys) /\ Kept(s, ExtStart, 0, {"traceId"})
    BY <1>3, <2>1 DEF Kept
  <2>3. SetAside(s, ExtStart, 0)
    <3>1. Seconds(<<>>) = <<>>
      BY DEF Seconds
    <3>2. QED
      BY <1>3, <2>1, <3>1 DEF SetAside
  <2>4. NoPrints(ExtStart) /\ CallerFirst(s, ExtStart, 0)
    BY <2>1 DEF NoPrints, CallerFirst
  <2>5. Turned(s, ExtStart, 0)
    BY <2>2, <2>3, <2>4 DEF Turned
  <2>6. QED
    BY <1>1, <1>2, <2>5
<1>5. ASSUME NEW n \in 0 .. L - 1, n \in T PROVE n + 1 \in T
  <2>1. n + 1 \in 1 .. L /\ n + 1 \in 0 .. L /\ n \in 0 .. L /\ (n + 1) - 1 = n
    BY <1>1
  <2>2. h[n + 1] = ExtStep(h[n], s[n + 1]) /\ h[n] \in ExtStates
    BY <1>2, <2>1
  <2>3. Turned(s, h[n], n)
    BY <1>5
  <2>4. Turned(s, ExtStep(h[n], s[n + 1]), n + 1)
    BY <2>2, <2>3, TurnedOn
  <2>5. QED
    BY <2>1, <2>2, <2>4
<1> HIDE DEF T
<1>6. 0 .. L \subseteq T
  BY <1>1, <1>4, <1>5, UpTo
<1>7. L \in T
  BY <1>1, <1>6
<1>8. Turned(s, h[L], L) /\ h[L] \in ExtStates
  BY <1>1, <1>2, <1>7 DEF T
<1>9. QED
  BY <1>8 DEF ExtLog, h

\* The other pairs of a list.
LEMMA OtherKeyed ==
  ASSUME NEW q \in Seq(LogPairs)
  PROVE  OtherPairs(q) = Select(q, Keyed(OtherKeys))
<1> DEFINE K == KeysOf(q) \ {"caller", "print"}
<1>1. Len(q) \in Nat /\ DOMAIN q = 1 .. Len(q) /\ \A i \in 1 .. Len(q) : q[i] \in LogPairs
  OBVIOUS
<1>2. OtherPairs(q) = Select(q, Keyed(K))
  BY PairsKeyed DEF OtherPairs
<1>3. \A i \in 1 .. Len(q) : q[i][1] \in K <=> q[i][1] \in OtherKeys
  BY <1>1 DEF KeysOf, OtherKeys, LogPairs
<1> HIDE DEF K
<1>4. \A i \in 1 .. Len(q) : q[i] \in Keyed(K) <=> q[i] \in Keyed(OtherKeys)
  BY <1>1, <1>3 DEF Keyed
<1>5. Len(q) \in 0 .. Len(q) /\ Len(q) <= Len(q)
  BY <1>1
<1>6. \A i \in 0 .. Len(q) : Selected(q, Keyed(K))[i] = Selected(q, Keyed(OtherKeys))[i]
  BY <1>4, <1>5, SelectSame
<1>7. QED
  BY <1>2, <1>5, <1>6 DEF Select

\* A list whose first trace id is t, with no other but those the program gave;
\* a list without one; and a list with those the program gave alone.
Traced(s, t) ==
  \E k \in 1 .. Len(s) :
    /\ s[k] = Pair("traceId", t)
    /\ \A i \in 1 .. Len(s) :
         s[i][1] = "traceId" => i = k \/ (i > k /\ s[i] \in GivenPairs)
Untraced(s) == \A i \in 1 .. Len(s) : s[i][1] # "traceId"
OnlyGiven(s) ==
  \A i \in 1 .. Len(s) : s[i][1] = "traceId" => s[i] \in GivenPairs

\* Selecting from a list whose first element of a set is known, and whose other
\* elements of the set lie in another set.
Headed(q, v, G) ==
  Len(q) > 0 /\ q[1] = v /\ \A i \in 2 .. Len(q) : q[i] \in G

LEMMA HeadedAppend ==
  ASSUME NEW V, NEW q \in Seq(V), NEW v, NEW G, NEW w \in V, Headed(q, v, G), w \in G
  PROVE  Headed(Append(q, w), v, G)
<1> DEFINE n == Len(q)
           x == Append(q, w)
<1>1. /\ n \in Nat /\ Len(x) = n + 1 /\ x[n + 1] = w
      /\ \A i \in 1 .. n : x[i] = q[i]
  OBVIOUS
<1>2. n > 0 /\ q[1] = v /\ \A i \in 2 .. n : q[i] \in G
  BY DEF Headed
<1> HIDE DEF x, n
<1>3. 1 \in 1 .. n /\ \A i \in 2 .. n + 1 : i = n + 1 \/ (i \in 2 .. n /\ i \in 1 .. n)
  BY <1>1, <1>2
<1>4. Len(x) > 0
  BY <1>1
<1>5. \A i \in 2 .. n + 1 : x[i] \in G
  BY <1>1, <1>2, <1>3
<1> QED BY <1>1, <1>2, <1>3, <1>4, <1>5 DEF Headed, x

LEMMA SelectHeaded ==
  ASSUME NEW V, NEW s \in Seq(V), NEW S, NEW G, NEW k \in 1 .. Len(s), s[k] \in S,
         \A i \in 1 .. Len(s) : s[i] \in S => i = k \/ (i > k /\ s[i] \in G)
  PROVE  Headed(Select(s, S), s[k], G)
<1> DEFINE h == Selected(s, S)
           L == Len(s)
           T == {i \in 0 .. L : /\ i < k => h[i] = <<>>
                                /\ i >= k => Headed(h[i], s[k], G)}
<1>1. L \in Nat /\ k \in 1 .. L /\ \A i \in 1 .. L : s[i] \in V
  OBVIOUS
<1>2. /\ h[0] = <<>>
      /\ \A i \in 1 .. L :
           h[i] = IF s[i] \in S THEN Append(h[i - 1], s[i]) ELSE h[i - 1]
      /\ \A i \in 0 .. L : h[i] \in Seq(V)
  BY SelectedSteps
<1>3. Select(s, S) = h[L]
  BY DEF Select
<1>4. \A i \in 1 .. L : s[i] \in S => i = k \/ (i > k /\ s[i] \in G)
  OBVIOUS
<1> HIDE DEF h, L
<1>5. 0 \in T
  BY <1>1, <1>2
<1>6. ASSUME NEW n \in 0 .. L - 1, n \in T PROVE n + 1 \in T
  <2>1. /\ n + 1 \in 1 .. L /\ n + 1 \in 0 .. L /\ (n + 1) - 1 = n /\ n \in 0 .. L
        /\ n \in Nat /\ k \in Nat
    BY <1>1
  <2>2. /\ h[n + 1] = IF s[n + 1] \in S THEN Append(h[n], s[n + 1]) ELSE h[n]
        /\ h[n] \in Seq(V) /\ s[n + 1] \in V
    BY <1>1, <1>2, <2>1
  <2>3. CASE n + 1 < k
    <3>1. n < k /\ ~(n + 1 >= k) /\ n + 1 # k /\ ~(n + 1 > k)
      BY <2>1, <2>3
    <3>2. s[n + 1] \notin S
      BY <1>4, <2>1, <3>1
    <3> QED BY <1>6, <2>1, <2>2, <3>1, <3>2
  <2>4. CASE n + 1 = k
    <3>1. n < k /\ ~(n + 1 < k)
      BY <2>1, <2>4
    <3>2. h[n] = <<>> /\ s[n + 1] \in S
      BY <1>6, <2>4, <3>1
    <3>3. \A v \in V : Append(<<>>, v) = <<v>> /\ Len(<<v>>) = 1 /\ <<v>>[1] = v
      OBVIOUS
    <3>4. h[n + 1] = <<s[k]>> /\ s[k] \in V
      BY <2>2, <2>4, <3>2, <3>3
    <3>5. Headed(h[n + 1], s[k], G)
      BY <3>3, <3>4 DEF Headed
    <3> QED BY <2>1, <3>1, <3>5
  <2>5. CASE n + 1 > k
    <3>1. n >= k /\ ~(n + 1 < k) /\ n + 1 # k
      BY <2>1, <2>5
    <3>2. Headed(h[n], s[k], G)
      BY <1>6, <3>1
    <3>3. s[n + 1] \in S => s[n + 1] \in G
      BY <1>4, <2>1, <3>1
    <3>4. s[n + 1] \in S => Headed(Append(h[n], s[n + 1]), s[k], G)
      BY <2>2, <3>2, <3>3, HeadedAppend
    <3>5. Headed(h[n + 1], s[k], G)
      BY <2>2, <3>2, <3>4
    <3> QED BY <2>1, <3>1, <3>5
  <2> QED BY <2>1, <2>3, <2>4, <2>5
<1> HIDE DEF T
<1>7. 0 .. L \subseteq T
  BY <1>1, <1>5, <1>6, UpTo
<1>8. L \in T /\ L >= k
  BY <1>1, <1>7
<1> QED BY <1>3, <1>8 DEF T

\* What extLogger.Log makes of a list that begins with a caller.
LEMMA RecordOf ==
  ASSUME NEW s \in Seq(LogPairs), Len(s) > 0, s[1][1] = "caller"
  PROVE  LET out == ExtLog(s).out
             callers == ValuesOf(s, "caller")
         IN  /\ OtherPairs(out) = OtherPairs(s)
             /\ ValuesOf(out, "caller") = <<callers[Len(callers)]>>
             /\ out[1][1] = "caller"
             /\ "print" \notin KeysOf(out) /\ ExtLog(s).prints = ValuesOf(s, "print")
             /\ \A t \in Nat : Traced(s, t) => CarriesTrace(out, t)
<1> DEFINE a == ExtLog(s)
           out == a.out
           callers == ValuesOf(s, "caller")
<1>1. Turned(s, a, Len(s)) /\ a \in ExtStates
  BY ExtLogTurned
<1>2. out \in Seq(LogPairs) /\ Len(out) \in Nat /\ Len(s) \in Nat /\ DOMAIN out = 1 .. Len(out)
      /\ a.caller <= Len(out)
  BY <1>1 DEF ExtStates
<1>3. \A K : PairsOf(s, K) = Select(s, Keyed(K)) /\ PairsOf(s, K) \in Seq(LogPairs)
  BY PairsKeyed
<1> HIDE DEF a
<1>4. \A K : PairsOf(out, K) = Select(out, Keyed(K))
  BY <1>2, PairsKeyed
<1>5. OtherPairs(out) = OtherPairs(s)
  <2>1. Select(out, Keyed(OtherKeys)) = Select(s, Keyed(OtherKeys))
    BY <1>1 DEF Turned, Kept, Select
  <2>2. QED
    BY <1>2, <2>1, OtherKeyed
<1> DEFINE c == Select(s, Keyed({"caller"}))
<1>6. a.caller = 1 /\ Len(c) > 0 /\ c[Len(c)] = out[1] /\ out[1][1] = "caller"
  BY <1>1 DEF Turned, CallerFirst, Select
<1>7. \A j \in 1 .. Len(out) : out[j][1] # "print" /\ (out[j][1] = "caller" => j = 1)
  BY <1>1 DEF Turned, NoPrints
<1>8. callers[Len(callers)] = out[1][2]
  <2>1. c \in Seq(LogPairs) /\ PairsOf(s, {"caller"}) = c
    BY <1>3
  <2>2. callers = Seconds(c)
    BY <2>1 DEF ValuesOf, Seconds
  <2> HIDE DEF c
  <2>3. DOMAIN c = 1 .. Len(c) /\ Len(c) \in Nat
    BY <2>1
  <2>4. \A i \in 1 .. Len(c) : c[i][2] \in LogValues
    BY <2>1 DEF LogPairs
  <2>5. Len(Seconds(c)) = Len(c)
    BY <2>3, <2>4 DEF Seconds
  <2>6. Seconds(c)[Len(c)] = c[Len(c)][2]
    BY <1>6, <2>3 DEF Seconds
  <2>7. QED
    BY <1>6, <2>2, <2>5, <2>6
<1>9. ASSUME NEW k, NEW p \in 1 .. Len(out),
             \A j \in 1 .. Len(out) : out[j][1] = k <=> j = p
      PROVE  ValuesOf(out, k) = <<out[p][2]>>
  <2> DEFINE o == out
             S == Keyed({k})
  <2>1. o \in Seq(LogPairs) /\ p \in 1 .. Len(o) /\ o[p] \in LogPairs
    BY <1>2
  <2>2. \A j \in 1 .. Len(o) : o[j] \in S <=> j = p
    BY <1>2, <1>9 DEF Keyed
  <2>3. PairsOf(o, {k}) = Select(o, S)
    BY <1>4
  <2> HIDE DEF o, S
  <2>4. Select(o, S) = <<o[p]>>
    BY <2>1, <2>2, SelectFew
  <2>5. ValuesOf(o, k) = Seconds(<<o[p]>>)
    BY <2>3, <2>4 DEF ValuesOf, Seconds
  <2>6. <<>> \in Seq(LogPairs)
    OBVIOUS
  <2>7. Seconds(<<o[p]>>) = <<o[p][2]>>
    BY <2>1, <2>6, SecondsAppend
  <2>8. QED
    BY <2>5, <2>7 DEF o
<1>10. ValuesOf(out, "caller") = <<callers[Len(callers)]>>
  <2>1. 1 \in 1 .. Len(out)
    BY <1>2, <1>6
  <2>2. \A j \in 1 .. Len(out) : out[j][1] = "caller" <=> j = 1
    BY <1>6, <1>7
  <2>3. ValuesOf(out, "caller") = <<out[1][2]>>
    BY <1>9, <2>1, <2>2
  <2>4. QED
    BY <1>8, <2>3
<1>11. "print" \notin KeysOf(out)
  BY <1>2, <1>7 DEF KeysOf
<1>12. a.prints = ValuesOf(s, "print")
  <2>1. a.prints = Seconds(Select(s, Keyed({"print"})))
    BY <1>1 DEF Turned, SetAside, Select
  <2>2. QED
    BY <1>3, <2>1 DEF ValuesOf, Seconds
<1>13. ASSUME NEW t \in Nat, Traced(s, t) PROVE CarriesTrace(out, t)
  <2> DEFINE S == Keyed({"traceId"})
             v == Pair("traceId", t)
             q == Select(s, S)
             ids == ValuesOf(out, "traceId")
  <2>1. PICK k \in 1 .. Len(s) :
          /\ s[k] = v
          /\ \A i \in 1 .. Len(s) :
               s[i][1] = "traceId" => i = k \/ (i > k /\ s[i] \in GivenPairs)
    BY <1>13 DEF Traced
  <2>2. v[1] = "traceId" /\ v[2] = t
    BY DEF Pair
  <2>3. s[k] \in S /\ \A i \in 1 .. Len(s) : s[i] \in S => s[i][1] = "traceId"
    <3>1. \A i \in 1 .. Len(s) : s[i] \in LogPairs
      OBVIOUS
    <3>2. QED
      BY <2>1, <2>2, <3>1 DEF Keyed
  <2>4. \A u \in S : u \in LogPairs /\ u[1] = "traceId"
    BY DEF Keyed
  <2>5. PairsOf(out, {"traceId"}) = q /\ q \in Seq(LogPairs)
    <3>1. Select(out, S) = Select(s, S)
      BY <1>1 DEF Turned, Kept, Select, S
    <3>2. QED
      BY <1>3, <1>4, <3>1
  <2>6. ids = Seconds(q)
    BY <2>5 DEF ValuesOf, Seconds
  <2> HIDE DEF S, v
  <2> DEFINE G == GivenPairs \cap S
  <2>7. Headed(q, v, G)
    <3>1. \A i \in 1 .. Len(s) : s[i] \in S => i = k \/ (i > k /\ s[i] \in G)
      BY <2>1, <2>3
    <3> HIDE DEF G
    <3>2. QED
      BY <2>1, <2>3, <3>1, SelectHeaded
  <2> HIDE DEF q, ids
  <2>8. /\ Len(q) \in Nat /\ Len(q) > 0 /\ q[1] = v
        /\ \A i \in 2 .. Len(q) : q[i] \in GivenPairs /\ q[i] \in S
    BY <2>5, <2>7 DEF Headed
  <2>9. \A i \in 1 .. Len(q) : q[i] \in S
    <3>1. \A i \in 1 .. Len(q) : i = 1 \/ i \in 2 .. Len(q)
      BY <2>8
    <3>2. QED
      BY <2>1, <2>3, <2>8, <3>1
  <2>10. \A i \in 1 .. Len(q) : q[i] = Pair("traceId", q[i][2]) /\ q[i][2] \in LogValues
    BY <2>4, <2>9 DEF LogPairs, Pair
  <2>11. Len(ids) = Len(q) /\ \A i \in 1 .. Len(q) : ids[i] = q[i][2]
    BY <2>5, <2>6, <2>10 DEF Seconds
  <2>12. 1 \in 1 .. Len(q) /\ \A i \in 2 .. Len(q) : i \in 1 .. Len(q)
    BY <2>8
  <2>13. \A i \in 2 .. Len(ids) : Pair("traceId", ids[i]) \in GivenPairs
    BY <2>8, <2>10, <2>11, <2>12
  <2>14. Len(ids) > 0 /\ ids[1] = t
    BY <2>2, <2>8, <2>11, <2>12
  <2>15. QED
    BY <2>13, <2>14 DEF CarriesTrace, ids
<1>14. QED
  BY <1>5, <1>6, <1>10, <1>11, <1>12, <1>13 DEF a

\* Lists put together.
LEMMA PairsConcat ==
  ASSUME NEW a \in Seq(LogPairs), NEW b \in Seq(LogPairs)
  PROVE  /\ a \o b \in Seq(LogPairs)
         /\ Len(a) > 0 => Len(a \o b) > 0 /\ (a \o b)[1] = a[1]
         /\ \A t : Traced(a, t) /\ OnlyGiven(b) => Traced(a \o b, t)
         /\ \A t : Untraced(a) /\ Traced(b, t) => Traced(a \o b, t)
<1> DEFINE x == a \o b
           m == Len(a)
           n == Len(b)
<1>1. /\ x \in Seq(LogPairs) /\ Len(x) = m + n /\ m \in Nat /\ n \in Nat
      /\ \A i \in 1 .. m + n : x[i] = IF i <= m THEN a[i] ELSE b[i - m]
  BY ConcatProperties
<1> HIDE DEF x, m, n
<1>2. \A i \in 1 .. m : i \in 1 .. m + n /\ x[i] = a[i]
  BY <1>1
<1>3. \A i \in m + 1 .. m + n : i \in 1 .. m + n /\ i - m \in 1 .. n /\ x[i] = b[i - m]
  BY <1>1
<1>4. \A i \in 1 .. m + n : i \in 1 .. m \/ i \in m + 1 .. m + n
  BY <1>1
<1>5. m > 0 => Len(x) > 0 /\ x[1] = a[1]
  BY <1>1, <1>2
<1>6. ASSUME NEW t, Traced(a, t), OnlyGiven(b) PROVE Traced(x, t)
  <2>1. PICK k \in 1 .. m :
          /\ a[k] = Pair("traceId", t)
          /\ \A i \in 1 .. m :
               a[i][1] = "traceId" => i = k \/ (i > k /\ a[i] \in GivenPairs)
    BY <1>6 DEF Traced, m
  <2>2. \A i \in 1 .. n : b[i][1] = "traceId" => b[i] \in GivenPairs
    BY <1>6 DEF OnlyGiven, n
  <2>3. ASSUME NEW i \in 1 .. m + n, x[i][1] = "traceId"
        PROVE  i = k \/ (i > k /\ x[i] \in GivenPairs)
    <3>1. CASE i \in 1 .. m
      BY <1>2, <2>1, <2>3, <3>1
    <3>2. CASE i \in m + 1 .. m + n
      <4>1. i > k
        BY <1>1, <2>1, <3>2
      <4>2. i - m \in 1 .. n /\ x[i] = b[i - m]
        BY <1>3, <3>2
      <4>3. x[i] \in GivenPairs
        BY <2>2, <2>3, <4>2
      <4> QED BY <4>1, <4>3
    <3> QED BY <1>4, <3>1, <3>2
  <2>4. k \in 1 .. m + n /\ x[k] = Pair("traceId", t)
    BY <1>2, <2>1
  <2>5. QED
    BY <1>1, <2>3, <2>4 DEF Traced
<1>7. ASSUME NEW t, Untraced(a), Traced(b, t) PROVE Traced(x, t)
  <2>1. PICK k \in 1 .. n :
          /\ b[k] = Pair("traceId", t)
          /\ \A i \in 1 .. n :
               b[i][1] = "traceId" => i = k \/ (i > k /\ b[i] \in GivenPairs)
    BY <1>7 DEF Traced, n
  <2>2. \A i \in 1 .. m : a[i][1] # "traceId"
    BY <1>7 DEF Untraced, m
  <2>3. m + k \in m + 1 .. m + n /\ (m + k) - m = k
    BY <1>1, <2>1
  <2>4. ASSUME NEW i \in 1 .. m + n, x[i][1] = "traceId"
        PROVE  i = m + k \/ (i > m + k /\ x[i] \in GivenPairs)
    <3>1. i \in m + 1 .. m + n
      BY <1>2, <1>4, <2>2, <2>4
    <3>2. i - m \in 1 .. n /\ x[i] = b[i - m]
      BY <1>3, <3>1
    <3>3. i - m = k \/ (i - m > k /\ x[i] \in GivenPairs)
      BY <2>1, <2>4, <3>2
    <3>4. (i - m = k => i = m + k) /\ (i - m > k => i > m + k)
      BY <1>1, <2>1
    <3>5. QED
      BY <3>3, <3>4
  <2>5. x[m + k] = Pair("traceId", t) /\ m + k \in 1 .. m + n
    BY <1>3, <2>1, <2>3
  <2>6. QED
    BY <1>1, <2>4, <2>5 DEF Traced
<1>8. QED
  BY <1>1, <1>5, <1>6, <1>7 DEF x, m

\* The pairs a program gives.
GivenLists == {q \in Seq(LogPairs) : OnlyGiven(q)}

LEMMA ListsGiven ==
  ASSUME NEW S, S \subseteq GivenPairs, NEW n \in Nat, NEW q \in Lists(S, n)
  PROVE  q \in GivenLists
<1>1. PICK k \in 0 .. n : q \in [1 .. k -> S]
  BY DEF Lists
<1>2. \A v \in S : v \in LogPairs
  <2> SUFFICES ASSUME NEW v \in S PROVE v \in LogPairs
    OBVIOUS
  <2>1. v = <<v[1], v[2]>> /\ v \in GivenPairs
    BY PairAssumption
  <2>2. v[1] \in LogKeys /\ v[2] \in LogValues
    BY <2>1 DEF LogKeys, LogValues
  <2>3. <<v[1], v[2]>> \in LogPairs
    BY <2>2 DEF LogPairs
  <2> QED BY <2>1, <2>3, Zenon
<1>3. q \in [1 .. k -> LogPairs] /\ k \in Nat
  BY <1>1, <1>2
<1>4. q \in Seq(LogPairs) /\ Len(q) = k
  BY <1>3
<1>5. \A i \in 1 .. k : q[i] \in GivenPairs
  BY <1>1
<1>6. QED
  BY <1>4, <1>5 DEF OnlyGiven, GivenLists

\* No pairs, the pairs of New and a trace id.
LEMMA KnownPairs ==
  /\ <<>> \in GivenLists
  /\ \A l : OwnPairs(l) \in Seq(LogPairs) /\ Untraced(OwnPairs(l))
  /\ \A l : l.typ = "filter" => Len(OwnPairs(l)) > 0 /\ OwnPairs(l)[1][1] = "caller"
  /\ \A t \in Nat : <<Pair("traceId", t)>> \in Seq(LogPairs) /\ Traced(<<Pair("traceId", t)>>, t)
<1>3. ASSUME NEW v \in LogPairs
      PROVE  <<v>> \in Seq(LogPairs) /\ Len(<<v>>) = 1 /\ <<v>>[1] = v
  OBVIOUS
<1>4. <<>> \in Seq(LogPairs) /\ Len(<<>>) = 0 /\ Untraced(<<>>)
  BY DEF Untraced
<1>5. ASSUME NEW v \in LogPairs, v[1] # "traceId" PROVE Untraced(<<v>>)
  BY <1>3, <1>5 DEF Untraced
<1>7. /\ Pair("caller", "New") \in LogPairs /\ Pair("caller", "New")[1] = "caller"
      /\ Pair("caller", "New")[1] # "traceId"
  BY DEF Pair, LogPairs, LogKeys, LogValues
<1>8. <<>> \in GivenLists
  BY <1>4 DEF GivenLists, OnlyGiven
<1>9. ASSUME NEW l
      PROVE  /\ OwnPairs(l) \in Seq(LogPairs) /\ Untraced(OwnPairs(l))
             /\ l.typ = "filter" => Len(OwnPairs(l)) > 0 /\ OwnPairs(l)[1][1] = "caller"
  <2> DEFINE v == Pair("caller", "New")
  <2>1. OwnPairs(l) = IF l.typ = "filter" THEN <<v>> ELSE <<>>
    BY DEF OwnPairs
  <2>2. v \in LogPairs /\ v[1] = "caller" /\ v[1] # "traceId"
    BY <1>7
  <2> HIDE DEF v
  <2>3. <<v>> \in Seq(LogPairs) /\ Len(<<v>>) = 1 /\ <<v>>[1] = v /\ Untraced(<<v>>)
    BY <1>3, <1>5, <2>2
  <2>4. CASE l.typ = "filter"
    BY <2>1, <2>2, <2>3, <2>4
  <2>5. CASE l.typ # "filter"
    BY <1>4, <2>1, <2>5
  <2>6. QED
    BY <2>4, <2>5
<1>10. ASSUME NEW t \in Nat
       PROVE  <<Pair("traceId", t)>> \in Seq(LogPairs) /\ Traced(<<Pair("traceId", t)>>, t)
  <2> DEFINE v == Pair("traceId", t)
  <2>1. v \in LogPairs
    BY DEF Pair, LogPairs, LogKeys, LogValues
  <2>2. <<v>> \in Seq(LogPairs) /\ Len(<<v>>) = 1 /\ <<v>>[1] = v
    BY <1>3, <2>1
  <2>3. Traced(<<v>>, t)
    BY <2>2 DEF Traced
  <2>4. QED
    BY <2>2, <2>3
<1>11. QED
  BY <1>8, <1>9, <1>10

\* The contexts and calls of the goroutines.
LogData == Goroutines \cup {AppLogger, NoData}
Contexts ==
  [trace : Nat, logger : [typ : LogKinds, dat : LogData, kvs : Seq(LogPairs)],
   given : BOOLEAN]
Jobs ==
  [op : {"none", "default", "trace", "context"}, trace : Nat, kvs : GivenLists]

\* A logger of New has a caller first, and one trace id, that of its context,
\* unless it was given to the context.
Bound(c) ==
  c.logger.typ = "filter" =>
    /\ Len(c.logger.kvs) > 0 /\ c.logger.kvs[1][1] = "caller"
    /\ ~c.given => Traced(c.logger.kvs, c.trace)

CtxInv ==
  /\ issued \in Nat
  /\ ctx \in [Goroutines -> Contexts] /\ job \in [Goroutines -> Jobs]
  /\ \A p \in Goroutines : Bound(ctx[p])

\* What a call leaves in the context.
LEMMA FinishedBound ==
  ASSUME NEW p \in Goroutines, NEW l \in [typ : LogKinds, dat : LogData],
         NEW kvs \in GivenLists, job[p] \in Jobs,
         job[p].op \in {"default", "trace", "context"}
  PROVE  Finished(p, l, kvs) \in Contexts /\ Bound(Finished(p, l, kvs))
<1> DEFINE j == job[p]
           t == <<Pair("traceId", j.trace)>>
           o == OwnPairs(l)
           d == [trace |-> 0, logger |-> Logger(l, o), given |-> TRUE]
           tr == [trace |-> 0, logger |-> Logger(l, o \o kvs \o t), given |-> TRUE]
           c == [trace |-> j.trace, logger |-> Logger(l, o \o t \o j.kvs), given |-> FALSE]
<1>1. j.trace \in Nat /\ j.kvs \in Seq(LogPairs) /\ OnlyGiven(j.kvs) /\ kvs \in Seq(LogPairs)
  BY DEF Jobs, GivenLists
<1>2. /\ t \in Seq(LogPairs) /\ Traced(t, j.trace) /\ o \in Seq(LogPairs) /\ Untraced(o)
      /\ l.typ = "filter" => Len(o) > 0 /\ o[1][1] = "caller"
  BY <1>1, KnownPairs
<1>3. Finished(p, l, kvs) = IF j.op = "default" THEN d ELSE IF j.op = "trace" THEN tr ELSE c
  BY DEF Finished
<1>4. \A q : /\ Logger(l, q).typ = l.typ /\ Logger(l, q).kvs = q
             /\ q \in Seq(LogPairs) =>
                  Logger(l, q) \in [typ : LogKinds, dat : LogData, kvs : Seq(LogPairs)]
  BY DEF Logger
<1> HIDE DEF t, o, j
<1>5. d \in Contexts /\ Bound(d)
  BY <1>2, <1>4 DEF Contexts, Bound
<1>6. tr \in Contexts /\ Bound(tr)
  <2>1. /\ o \o kvs \in Seq(LogPairs)
        /\ l.typ = "filter" => Len(o \o kvs) > 0 /\ (o \o kvs)[1][1] = "caller"
    BY <1>1, <1>2, PairsConcat
  <2> DEFINE x == o \o kvs
             y == x \o t
  <2> HIDE DEF x
  <2>2. /\ y \in Seq(LogPairs)
        /\ l.typ = "filter" => Len(y) > 0 /\ y[1][1] = "caller"
    BY <1>2, <2>1, PairsConcat DEF x
  <2> HIDE DEF y
  <2>3. tr = [trace |-> 0, logger |-> Logger(l, y), given |-> TRUE]
    BY DEF y, x
  <2>4. QED
    BY <1>4, <2>2, <2>3 DEF Contexts, Bound
<1>7. c \in Contexts /\ Bound(c)
  <2> DEFINE x == o \o t
             y == x \o j.kvs
  <2>1. /\ x \in Seq(LogPairs) /\ Traced(x, j.trace)
        /\ l.typ = "filter" => Len(x) > 0 /\ x[1][1] = "caller"
    BY <1>1, <1>2, PairsConcat
  <2> HIDE DEF x
  <2>2. /\ y \in Seq(LogPairs) /\ Traced(y, j.trace)
        /\ l.typ = "filter" => Len(y) > 0 /\ y[1][1] = "caller"
    BY <1>1, <2>1, PairsConcat
  <2> HIDE DEF y
  <2>3. c = [trace |-> j.trace, logger |-> Logger(l, y), given |-> FALSE]
    BY DEF y, x
  <2>4. QED
    BY <1>1, <1>4, <2>2, <2>3 DEF Contexts, Bound
<1> HIDE DEF d, tr, c
<1>8. QED
  BY <1>3, <1>5, <1>6, <1>7

\* A call that returns.
LEMMA ReturnsBound ==
  ASSUME LogInv, CtxInv, NEW p \in Goroutines, lpc[p] \in {"loadDat", "peekDat"},
         NEW kvs \in GivenLists,
         Returns(p, [words[p] EXCEPT !.dat = root.dat], kvs), UNCHANGED issued
  PROVE  CtxInv'
<1> DEFINE l == [words[p] EXCEPT !.dat = root.dat]
           f == Finished(p, l, kvs)
<1>1. l \in [typ : LogKinds, dat : LogData]
  BY DEF LogInv, LogTypes, LogData
<1>2. job[p] \in Jobs /\ job[p].op \in {"default", "trace", "context"}
  BY DEF LogInv, LogTypes, Calling, CtxInv
<1>3. ctx' = [ctx EXCEPT ![p] = f] /\ job' = [job EXCEPT ![p] = NoJob]
  BY DEF Returns
<1> HIDE DEF l
<1>4. f \in Contexts /\ Bound(f)
  BY <1>1, <1>2, FinishedBound
<1>5. NoJob \in Jobs
  BY KnownPairs DEF NoJob, Jobs
<1> HIDE DEF f
<1>6. QED
  BY <1>3, <1>4, <1>5 DEF CtxInv

\* Every step keeps the loggers of the contexts in shape.
LEMMA CtxNext == LogInv /\ CtxInv /\ [LNext]_logVars => CtxInv'
<1> SUFFICES ASSUME LogInv, CtxInv, [LNext]_logVars PROVE CtxInv'
  OBVIOUS
<1>1. CASE UNCHANGED <<ctx, job, issued>>
  BY <1>1 DEF CtxInv
<1>2. ASSUME NEW p \in Goroutines, LoadDat(p) PROVE CtxInv'
  <2>1. lpc[p] = "loadDat"
    BY <1>2 DEF LoadDat, Moves
  <2> DEFINE e == <<>>
  <2>2. Returns(p, [words[p] EXCEPT !.dat = root.dat], e) /\ UNCHANGED issued
    BY <1>2 DEF LoadDat
  <2>3. e \in GivenLists
    BY KnownPairs
  <2> HIDE DEF e
  <2>4. QED
    BY <2>1, <2>2, <2>3, ReturnsBound
<1>3. ASSUME NEW p \in Goroutines, PeekDat(p) PROVE CtxInv'
  <2> DEFINE l == [words[p] EXCEPT !.dat = root.dat]
             kvs == IF job[p].op = "trace" THEN job[p].kvs ELSE <<>>
  <2>1. lpc[p] = "peekDat" /\ UNCHANGED issued
    BY <1>3 DEF PeekDat, Moves
  <2>2. UNCHANGED <<job, ctx>> \/ Returns(p, l, kvs)
    BY <1>3 DEF PeekDat
  <2>3. kvs \in GivenLists
    BY KnownPairs DEF CtxInv, Jobs
  <2> HIDE DEF kvs
  <2>4. CASE Returns(p, l, kvs)
    BY <2>1, <2>3, <2>4, ReturnsBound
  <2>5. CASE UNCHANGED <<job, ctx>>
    BY <1>1, <2>1, <2>5
  <2>6. QED
    BY <2>2, <2>4, <2>5
<1>4. ASSUME NEW p \in Goroutines, CallDefault(p) PROVE CtxInv'
  <2>1. [NoJob EXCEPT !.op = "default"] \in Jobs
    BY KnownPairs DEF NoJob, Jobs
  <2>2. QED
    BY <1>4, <2>1 DEF CallDefault, CtxInv
<1>5. ASSUME NEW p \in Goroutines, NEW op \in {"trace", "context"},
             NEW kvs \in GivenLists, CallTrace(p, op, kvs)
      PROVE  CtxInv'
  <2>1. issued + 1 \in Nat /\ issued' = issued + 1 /\ UNCHANGED ctx
    BY <1>5 DEF CallTrace, CtxInv
  <2>2. [op |-> op, trace |-> issued + 1, kvs |-> kvs] \in Jobs
    BY <2>1 DEF Jobs
  <2>3. job' = [job EXCEPT ![p] = [op |-> op, trace |-> issued + 1, kvs |-> kvs]]
    BY <1>5 DEF CallTrace
  <2>4. QED
    BY <2>1, <2>2, <2>3 DEF CtxInv
<1>6. ASSUME NEW p \in Goroutines, NEW kvs \in GivenLists, CallContextWith(p, kvs) PROVE CtxInv'
  <2> DEFINE g == ctx[p].logger
             x == g.kvs \o kvs
             w == With(g, kvs)
             c == [trace |-> issued + 1, given |-> TRUE, logger |-> w]
  <2>1. issued + 1 \in Nat /\ issued' = issued + 1 /\ UNCHANGED job /\ ctx' = [ctx EXCEPT ![p] = c]
    BY <1>6 DEF CallContextWith, CtxInv
  <2>2. /\ g \in [typ : LogKinds, dat : LogData, kvs : Seq(LogPairs)]
        /\ g.typ = "filter" => Len(g.kvs) > 0 /\ g.kvs[1][1] = "caller"
    BY DEF CtxInv, Contexts, Bound
  <2> HIDE DEF g
  <2>3. /\ x \in Seq(LogPairs)
        /\ g.typ = "filter" => Len(x) > 0 /\ x[1][1] = "caller"
    <3>1. g.kvs \in Seq(LogPairs) /\ kvs \in Seq(LogPairs)
      BY <2>2 DEF GivenLists
    <3>2. QED
      BY <2>2, <3>1, PairsConcat
  <2>4. w = [g EXCEPT !.kvs = x]
    BY DEF With
  <2> HIDE DEF x, w
  <2>5. w \in [typ : LogKinds, dat : LogData, kvs : Seq(LogPairs)] /\ w.typ = g.typ /\ w.kvs = x
    BY <2>2, <2>3, <2>4
  <2>6. c \in Contexts /\ Bound(c)
    BY <2>1, <2>3, <2>5 DEF Contexts, Bound
  <2> HIDE DEF c
  <2>7. QED
    BY <2>1, <2>6 DEF CtxInv
<1>7. ASSUME NEW p \in Goroutines, LoggerStep(p) PROVE CtxInv'
  <2>1. CASE \/ SetTyp(p) \/ SetDat(p) \/ Do(p) \/ Check(p) \/ MakeTyp(p)
             \/ MakeDat(p) \/ LoadTyp(p) \/ PeekTyp(p) \/ LogTorn(p)
    BY <1>1, <2>1
    DEF SetTyp, SetDat, Do, Check, MakeTyp, MakeDat, LoadTyp, PeekTyp, LogTorn
  <2>2. CASE \E opts, kvs : Log(p, opts, kvs)
    BY <1>1, <2>2 DEF Log
  <2>3. CASE \E kvs \in Lists(BoundPairs, MaxBound) :
               \/ CallTrace(p, "trace", kvs) \/ CallTrace(p, "context", kvs)
               \/ CallContextWith(p, kvs)
    <3>1. PICK kvs \in Lists(BoundPairs, MaxBound) :
            \/ CallTrace(p, "trace", kvs) \/ CallTrace(p, "context", kvs)
            \/ CallContextWith(p, kvs)
      BY <2>3
    <3>2. kvs \in GivenLists
      BY ListsGiven, LogBoundAssumption DEF GivenPairs
    <3>3. QED
      BY <1>5, <1>6, <3>1, <3>2
  <2>4. QED
    BY <1>2, <1>3, <1>4, <1>7, <2>1, <2>2, <2>3 DEF LoggerStep
<1>8. QED
  BY <1>1, <1>7 DEF LNext, LogOver, logVars

\* Nothing but Log writes a record.
LEMMA OnlyLogWrites ==
  ASSUME [LNext]_logVars
  PROVE  \/ UNCHANGED written
         \/ \E p \in Goroutines, opts \in Lists(Options, 1), kvs \in Lists(RecordPairs, MaxPairs) :
              Log(p, opts, kvs)
<1>1. ASSUME NEW p \in Goroutines, LoggerStep(p)
      PROVE  \/ UNCHANGED written
             \/ \E opts \in Lists(Options, 1), kvs \in Lists(RecordPairs, MaxPairs) :
                  Log(p, opts, kvs)
  BY <1>1 DEF LoggerStep, SetTyp, SetDat, Do, Check, MakeTyp, MakeDat, LoadTyp,
              PeekTyp, LogTorn, LoadDat, PeekDat, CallDefault, CallTrace, CallContextWith
<1>2. QED
  BY <1>1 DEF LNext, LogOver, logVars

\* A record that is written has what was given to it.
LEMMA RecordNext == LogInv /\ CtxInv /\ RecordExact /\ [LNext]_logVars => RecordExact'
<1> SUFFICES ASSUME LogInv, CtxInv, RecordExact, [LNext]_logVars PROVE RecordExact'
  OBVIOUS
<1>1. CASE UNCHANGED written
  BY <1>1 DEF RecordExact
<1>2. ASSUME NEW p \in Goroutines, NEW opts \in Lists(Options, 1),
             NEW kvs \in Lists(RecordPairs, MaxPairs), Log(p, opts, kvs)
      PROVE  RecordExact'
  <2> DEFINE c == ctx[p]
             x == c.logger.kvs \o opts
             s == x \o kvs
  <2>1. c \in Contexts /\ Bound(c) /\ c.logger.typ = "filter"
    BY <1>2 DEF CtxInv, Log
  <2>2. /\ written'.in = s /\ written'.out = ExtLog(s).out /\ written'.prints = ExtLog(s).prints
        /\ written'.trace = c.trace /\ written'.own = ~c.given
    BY <1>2 DEF Log
  <2>3. /\ c.logger.kvs \in Seq(LogPairs) /\ Len(c.logger.kvs) > 0
        /\ c.logger.kvs[1][1] = "caller" /\ c.trace \in Nat
        /\ ~c.given => Traced(c.logger.kvs, c.trace)
    BY <2>1 DEF Contexts, Bound
  <2>4. opts \in Seq(LogPairs) /\ OnlyGiven(opts)
    <3>1. opts \in GivenLists
      BY ListsGiven DEF GivenPairs
    <3>2. QED
      BY <3>1 DEF GivenLists
  <2>5. kvs \in Seq(LogPairs) /\ OnlyGiven(kvs)
    <3>1. kvs \in GivenLists
      BY ListsGiven, LogBoundAssumption DEF GivenPairs
    <3>2. QED
      BY <3>1 DEF GivenLists
  <2> HIDE DEF c
  <2>6. /\ x \in Seq(LogPairs) /\ Len(x) > 0 /\ x[1][1] = "caller"
        /\ ~c.given => Traced(x, c.trace)
    BY <2>3, <2>4, PairsConcat
  <2> HIDE DEF x
  <2>7. /\ s \in Seq(LogPairs) /\ Len(s) > 0 /\ s[1][1] = "caller"
        /\ ~c.given => Traced(s, c.trace)
    BY <2>5, <2>6, PairsConcat
  <2> HIDE DEF s
  <2> DEFINE out == ExtLog(s).out
             callers == ValuesOf(s, "caller")
  <2>8. /\ OtherPairs(out) = OtherPairs(s)
        /\ ValuesOf(out, "caller") = <<callers[Len(callers)]>>
        /\ out[1][1] = "caller"
        /\ "print" \notin KeysOf(out) /\ ExtLog(s).prints = ValuesOf(s, "print")
        /\ \A t \in Nat : Traced(s, t) => CarriesTrace(out, t)
    BY <2>7, RecordOf
  <2>9. ~c.given => CarriesTrace(out, c.trace)
    BY <2>3, <2>7, <2>8
  <2>10. QED
    BY <2>2, <2>8, <2>9 DEF RecordExact
<1>3. QED
  BY <1>1, <1>2, OnlyLogWrites

\* Whatever pairs are bound and given, trace ids among them, in whatever order
\* contexts and loggers are made and replaced by however many goroutines: a
\* record has the other pairs in order, one caller, the last, no print value,
\* and first of all trace ids that of the context whose own logger wrote it.
THEOREM RecordsExact == LSpec => []RecordExact
<1>1. LInit => CtxInv
  <2> SUFFICES ASSUME LInit PROVE CtxInv
    OBVIOUS
  <2>1. NoJob \in Jobs
    BY KnownPairs DEF NoJob, Jobs
  <2>2. NoCtx \in Contexts /\ NoCtx.logger.typ = "nil"
    <3>1. <<>> \in Seq(LogPairs)
      OBVIOUS
    <3>2. QED
      BY <3>1 DEF NoCtx, Contexts, Logger, NilLogger, LogKinds, LogData
  <2>3. Bound(NoCtx)
    BY <2>2 DEF Bound
  <2>4. QED
    BY <2>1, <2>2, <2>3 DEF LInit, CtxInv
<1>2. LInit => RecordExact
  BY DEF LInit, RecordExact
<1>3. QED
  BY <1>1, <1>2, LogInit, LogNext, CtxNext, RecordNext, PTL DEF LSpec

-----------------------------------------------------------------------------
(* A copy through PreReader and LimitedWriter, for any lengths and limits. *)

LEMMA MinOfTwo ==
  ASSUME NEW a \in Nat, NEW b \in Nat
  PROVE  Min({a, b}) = IF a <= b THEN a ELSE b
  BY DEF Min

\* The bytes of a stretch of the stream, two stretches in a row, and a part.
LEMMA BytesSeq ==
  ASSUME NEW a \in Nat, NEW n \in Nat
  PROVE  Bytes(a, n) \in Seq(Nat) /\ Len(Bytes(a, n)) = n
  BY DEF Bytes

LEMMA BytesConcat ==
  ASSUME NEW a \in Nat, NEW n \in Nat, NEW k \in Nat
  PROVE  Bytes(a, n) \o Bytes(a + n, k) = Bytes(a, n + k)
  BY DEF Bytes

LEMMA ConcatSeq ==
  ASSUME NEW s \in Seq(Nat), NEW t \in Seq(Nat)
  PROVE  s \o t \in Seq(Nat) /\ Len(s \o t) = Len(s) + Len(t)
  OBVIOUS

\* A chunk cut to what is left of a limit fills it as far as it reaches.
LEMMA CutToLimit ==
  ASSUME NEW st \in Nat, NEW c \in Nat, NEW k \in Nat, NEW left \in Nat,
         NEW max \in Nat, left + k = max, k = IF st <= max THEN st ELSE max
  PROVE  k + (IF c <= left THEN c ELSE left) =
           IF st + c <= max THEN st + c ELSE max
  OBVIOUS

LEMMA BytesPart ==
  ASSUME NEW a \in Nat, NEW n \in Nat, NEW i \in Nat, NEW k \in Nat, i + k <= n
  PROVE  SubSeq(Bytes(a, n), i + 1, i + k) = Bytes(a + i, k)
  BY DEF Bytes

LEMMA BytesHead ==
  ASSUME NEW a \in Nat, NEW n \in Nat, NEW k \in Nat, k <= n
  PROVE  SubSeq(Bytes(a, n), 1, k) = Bytes(a, k)
  BY DEF Bytes

\* What the copy's fields hold.
CopyType ==
  copy \in [pc : {"idle", "fill", "read", "write", "ended"}, len : Nat, pos : Nat,
            buf : Seq(Nat), bufIdx : Nat, maxLen : Nat, N : Nat, MaxN : Nat,
            ignoreError : BOOLEAN, chunk : Seq(Nat), sink : Seq(Nat),
            err : {"none", "nil", "error"}, sinkFailed : BOOLEAN]

\* The number of bytes that io.Copy has read, and what it had read before the
\* chunk in its hands.
Delivered == IF copy.bufIdx >= copy.maxLen THEN copy.pos ELSE copy.bufIdx
Start == Delivered - Len(copy.chunk)
Hidden == copy.ignoreError /\ copy.sinkFailed

\* The prefix is what has been read first; a prefix that is not full is all
\* there is, and nothing is read behind the prefix before it is used up.
PrefixRead ==
  /\ copy.pos <= copy.len
  /\ copy.pc \in {"fill", "read", "write"} =>
       /\ copy.buf = Bytes(0, Len(copy.buf))
       /\ copy.bufIdx <= Len(copy.buf) /\ Len(copy.buf) <= copy.maxLen
       /\ Len(copy.buf) <= copy.pos
       /\ copy.bufIdx < copy.maxLen \/ copy.pc = "fill" => copy.pos = Len(copy.buf)
       /\ copy.pc = "fill" => copy.bufIdx = 0
       /\ copy.pc # "fill" /\ Len(copy.buf) < copy.maxLen => copy.pos = copy.len

\* Nothing is taken from the limit but what has arrived.
LimitCounts == copy.N + Len(copy.sink) = copy.MaxN

\* io.Copy has the bytes behind those it has written.
ChunkFollows ==
  /\ copy.pc \in {"fill", "read"} => copy.chunk = <<>>
  /\ copy.pc = "write" => Start \in Nat /\ copy.chunk = Bytes(Start, Len(copy.chunk))

\* What was read has arrived, as far as the limit goes.
SinkFollows ==
  ~Hidden =>
    /\ copy.sink = Bytes(0, Len(copy.sink))
    /\ copy.pc = "fill" => copy.sink = <<>>
    /\ copy.pc \in {"read", "write"} =>
         /\ Len(copy.sink) = IF Start <= copy.MaxN THEN Start ELSE copy.MaxN
         /\ ~copy.ignoreError => Len(copy.sink) = Start

CopyInv ==
  /\ CopyType
  /\ PrefixRead
  /\ LimitCounts
  /\ ChunkFollows
  /\ SinkFollows
  /\ (copy.err = "nil" => copy.pc = "ended")
  /\ CopiesExactly

LEMMA CopyInit == BufInit => CopyInv
<1> SUFFICES ASSUME BufInit PROVE CopyInv
  OBVIOUS
<1>1. CopyType
  BY DEF BufInit, Opened, CopyType
<1>2. Bytes(0, 0) = <<>> /\ Min({0, 0}) = 0
  BY MinOfTwo DEF Bytes
<1>3. /\ copy.pc = "idle" /\ copy.len = 0 /\ copy.pos = 0 /\ copy.sink = <<>>
      /\ copy.N = 0 /\ copy.MaxN = 0 /\ copy.err = "none"
  BY DEF BufInit, Opened
<1> QED
  BY <1>1, <1>2, <1>3
     DEF CopyInv, PrefixRead, LimitCounts, ChunkFollows, SinkFollows, CopiesExactly

\* io.Copy returns, after Read or Write returned an error or at the end.
LEMMA CopyEnds ==
  ASSUME CopyInv, NEW e \in {"nil", "error"}, copy' = CopyEnded(copy, e),
         e = "nil" /\ ~Hidden =>
           Len(copy.sink) = IF copy.ignoreError THEN Min({copy.len, copy.MaxN})
                            ELSE copy.len
  PROVE  CopyInv'
<1>1. CopyType'
  BY DEF CopyInv, CopyType, CopyEnded
<1>2. /\ copy'.pc = "ended" /\ copy'.err = e /\ copy'.sink = copy.sink
      /\ copy'.len = copy.len /\ copy'.pos = copy.pos
      /\ copy'.N = copy.N /\ copy'.MaxN = copy.MaxN
      /\ copy'.ignoreError = copy.ignoreError /\ copy'.sinkFailed = copy.sinkFailed
  BY DEF CopyInv, CopyType, CopyEnded
<1>3. Len(copy.sink) <= copy.MaxN
  BY DEF CopyInv, CopyType, LimitCounts
<1>4. PrefixRead' /\ LimitCounts' /\ ChunkFollows' /\ SinkFollows'
  BY <1>2 DEF CopyInv, PrefixRead, LimitCounts, ChunkFollows, SinkFollows, Hidden
<1>5. CopiesExactly'
  BY <1>2, <1>3 DEF CopyInv, CopiesExactly, SinkFollows, Hidden
<1> QED
  BY <1>1, <1>2, <1>4, <1>5 DEF CopyInv

LEMMA OpensInv ==
  ASSUME NEW l \in StreamLens, NEW m \in PreLens, NEW n \in Limits,
         NEW ig \in BOOLEAN, Opens(l, m, n, ig)
  PROVE  CopyInv'
<1>1. l \in Nat /\ m \in Nat /\ n \in Nat /\ copy' = Opened("fill", l, m, n, ig)
  BY BufferAssumption DEF Opens
<1>2. CopyType'
  BY <1>1 DEF CopyType, Opened
<1>3. /\ copy'.pc = "fill" /\ copy'.len = l /\ copy'.pos = 0 /\ copy'.buf = <<>>
      /\ copy'.bufIdx = 0 /\ copy'.maxLen = m /\ copy'.N = n /\ copy'.MaxN = n
      /\ copy'.chunk = <<>> /\ copy'.sink = <<>> /\ copy'.err = "none"
  BY <1>1 DEF Opened
<1>4. Bytes(0, 0) = <<>>
  BY DEF Bytes
<1> QED
  BY <1>1, <1>2, <1>3, <1>4
     DEF CopyInv, PrefixRead, LimitCounts, ChunkFollows, SinkFollows, CopiesExactly

\* The numbers of bytes a Read may return.
LEMMA ReadSizesOf ==
  ASSUME CopyInv, NEW k \in Nat, NEW n \in ReadSizes(k)
  PROVE  n \in Nat /\ n <= k /\ copy.pos + n <= copy.len
<1>1. copy.len - copy.pos \in Nat
  BY DEF CopyInv, CopyType, PrefixRead
<1>2. Min({k, copy.len - copy.pos}) =
        IF k <= copy.len - copy.pos THEN k ELSE copy.len - copy.pos
  BY <1>1, MinOfTwo
<1> QED
  BY <1>1, <1>2 DEF CopyInv, CopyType, ReadSizes

\* The prefix is complete: nothing has been copied yet.
LEMMA FilledInv ==
  ASSUME CopyInv, copy.pc = "fill", copy' = [copy EXCEPT !.pc = "read"],
         Len(copy.buf) < copy.maxLen => copy.pos = copy.len
  PROVE  CopyInv'
<1>1. CopyType'
  BY DEF CopyInv, CopyType
<1>2. /\ copy'.pc = "read" /\ copy'.pos = copy.pos /\ copy'.buf = copy.buf
      /\ copy'.len = copy.len /\ copy'.bufIdx = copy.bufIdx
      /\ copy'.maxLen = copy.maxLen /\ copy'.N = copy.N /\ copy'.MaxN = copy.MaxN
      /\ copy'.chunk = copy.chunk /\ copy'.sink = copy.sink /\ copy'.err = copy.err
      /\ copy'.ignoreError = copy.ignoreError /\ copy'.sinkFailed = copy.sinkFailed
  BY DEF CopyInv, CopyType
<1>3. PrefixRead' /\ LimitCounts' /\ ChunkFollows'
  BY <1>2 DEF CopyInv, PrefixRead, LimitCounts, ChunkFollows
<1>4. Start' = 0
  BY <1>2 DEF CopyInv, CopyType, PrefixRead, ChunkFollows, Start, Delivered
<1>5. SinkFollows'
  BY <1>2, <1>4 DEF CopyInv, CopyType, SinkFollows, Hidden
<1>6. CopiesExactly'
  BY <1>2 DEF CopyInv, CopiesExactly
<1> QED
  BY <1>1, <1>2, <1>3, <1>5, <1>6 DEF CopyInv

LEMMA FillInv == ASSUME CopyInv, Fill PROVE CopyInv'
<1>1. /\ copy.pc = "fill" /\ Len(copy.buf) < copy.maxLen /\ copy.chunk = <<>>
      /\ copy.buf = Bytes(0, Len(copy.buf)) /\ copy.pos = Len(copy.buf)
      /\ copy.bufIdx = 0 /\ copy.err # "nil"
  BY DEF Fill, CopyInv, PrefixRead, ChunkFollows
<1> DEFINE k == copy.maxLen - Len(copy.buf)
<1>2. k \in Nat
  BY <1>1 DEF CopyInv, CopyType
<1>3. PICK n \in ReadSizes(k) :
       \/ copy' = [copy EXCEPT !.pos = @ + n, !.buf = @ \o Bytes(copy.pos, n)]
       \/ n = 0 /\ AtEnd /\ copy' = [copy EXCEPT !.pc = "read"]
       \/ n = 0 /\ copy' = CopyEnded(copy, "error")
  BY DEF Fill
<1>4. n \in Nat /\ n <= k /\ copy.pos + n <= copy.len
  BY <1>2, ReadSizesOf
<1>5. CASE copy' = [copy EXCEPT !.pos = @ + n, !.buf = @ \o Bytes(copy.pos, n)]
  <2> DEFINE b == copy.buf \o Bytes(copy.pos, n)
  <2>1. b = Bytes(0, Len(copy.buf) + n)
    <3>1. Len(copy.buf) \in Nat /\ 0 + Len(copy.buf) = copy.pos
      BY <1>1 DEF CopyInv, CopyType
    <3>2. Bytes(0, Len(copy.buf)) \o Bytes(0 + Len(copy.buf), n)
            = Bytes(0, Len(copy.buf) + n)
      BY <1>4, <3>1, BytesConcat
    <3> QED
      BY <1>1, <3>1, <3>2
  <2>2. b \in Seq(Nat) /\ Len(b) = Len(copy.buf) + n
    BY <1>4, <2>1, BytesSeq DEF CopyInv, CopyType
  <2> HIDE DEF b
  <2>3. copy' = [copy EXCEPT !.pos = copy.pos + n, !.buf = b]
    BY <1>5 DEF b, CopyInv, CopyType
  <2>4. CopyType'
    <3>1. copy.pos + n \in Nat
      BY <1>4 DEF CopyInv, CopyType
    <3> QED
      BY <2>2, <2>3, <3>1 DEF CopyInv, CopyType
  <2>5. /\ copy'.pc = "fill" /\ copy'.pos = copy.pos + n /\ copy'.buf = b
        /\ copy'.len = copy.len /\ copy'.bufIdx = 0 /\ copy'.maxLen = copy.maxLen
        /\ copy'.N = copy.N /\ copy'.MaxN = copy.MaxN /\ copy'.chunk = <<>>
        /\ copy'.sink = copy.sink /\ copy'.err = copy.err
        /\ copy'.ignoreError = copy.ignoreError /\ copy'.sinkFailed = copy.sinkFailed
    BY <1>1, <2>3 DEF CopyInv, CopyType
  <2>6. PrefixRead'
    BY <1>1, <1>4, <2>1, <2>2, <2>5 DEF CopyInv, CopyType, PrefixRead, b
  <2>7. LimitCounts' /\ ChunkFollows' /\ SinkFollows' /\ CopiesExactly'
    BY <1>1, <2>5
       DEF CopyInv, LimitCounts, ChunkFollows, SinkFollows, CopiesExactly, Hidden
  <2> QED
    BY <1>1, <2>4, <2>5, <2>6, <2>7 DEF CopyInv
<1>6. CASE n = 0 /\ AtEnd /\ copy' = [copy EXCEPT !.pc = "read"]
  BY <1>1, <1>6, FilledInv DEF AtEnd
<1>7. CASE n = 0 /\ copy' = CopyEnded(copy, "error")
  BY <1>7, CopyEnds
<1> QED
  BY <1>3, <1>5, <1>6, <1>7

\* A Read hands io.Copy the next n bytes, from the prefix or from behind it.
LEMMA ChunkInv ==
  ASSUME CopyInv, copy.pc = "read", NEW n \in Nat, NEW pos \in Nat, NEW idx \in Nat,
         NEW pc \in {"read", "write"}, pc = "read" => n = 0,
         copy' = [copy EXCEPT !.pos = pos, !.bufIdx = idx, !.chunk = Bytes(Delivered, n),
                              !.pc = pc],
         pos <= copy.len, copy.pos <= pos, idx <= Len(copy.buf), copy.bufIdx <= idx,
         idx < copy.maxLen => pos = copy.pos,
         Delivered' = Delivered + n
  PROVE  CopyInv'
<1>1. Delivered \in Nat
  BY DEF CopyInv, CopyType, Delivered
<1>2. Bytes(Delivered, n) \in Seq(Nat) /\ Len(Bytes(Delivered, n)) = n
  BY <1>1, BytesSeq
<1>3. CopyType'
  <2> DEFINE c == Bytes(Delivered, n)
  <2>1. c \in Seq(Nat) /\ copy' = [copy EXCEPT !.pos = pos, !.bufIdx = idx, !.chunk = c,
                                               !.pc = pc]
    BY <1>2
  <2> HIDE DEF c
  <2> QED
    BY <2>1 DEF CopyInv, CopyType
<1>4. /\ copy'.pc = pc /\ copy'.pos = pos /\ copy'.bufIdx = idx
      /\ copy'.chunk = Bytes(Delivered, n)
      /\ copy'.buf = copy.buf /\ copy'.len = copy.len /\ copy'.maxLen = copy.maxLen
      /\ copy'.N = copy.N /\ copy'.MaxN = copy.MaxN
      /\ copy'.sink = copy.sink /\ copy'.err = copy.err
      /\ copy'.ignoreError = copy.ignoreError /\ copy'.sinkFailed = copy.sinkFailed
  BY DEF CopyInv, CopyType
<1>5. Start = Delivered /\ Start' = Delivered
  BY <1>1, <1>2, <1>4 DEF CopyInv, ChunkFollows, Start
<1>6. PrefixRead'
  BY <1>4 DEF CopyInv, CopyType, PrefixRead
<1>7. ChunkFollows'
  <2>1. Bytes(Delivered, 0) = <<>>
    BY DEF Bytes
  <2> QED
    BY <1>1, <1>2, <1>4, <1>5, <2>1 DEF ChunkFollows
<1>8. LimitCounts' /\ SinkFollows'
  BY <1>4, <1>5 DEF CopyInv, LimitCounts, SinkFollows, Hidden
<1>9. CopiesExactly' /\ copy'.err # "nil"
  BY <1>4 DEF CopyInv, CopiesExactly
<1> QED
  BY <1>3, <1>6, <1>7, <1>8, <1>9 DEF CopyInv

\* The stream is used up: what has arrived is all, or what the limit allows.
LEMMA AllDelivered ==
  ASSUME CopyInv, copy.pc = "read", Delivered = copy.len, ~Hidden
  PROVE  Len(copy.sink) = IF copy.ignoreError THEN Min({copy.len, copy.MaxN})
                          ELSE copy.len
<1>1. Start = copy.len
  BY DEF CopyInv, CopyType, ChunkFollows, Start
<1>2. Min({copy.len, copy.MaxN}) =
        IF copy.len <= copy.MaxN THEN copy.len ELSE copy.MaxN
  BY MinOfTwo DEF CopyInv, CopyType
<1> QED
  BY <1>1, <1>2 DEF CopyInv, SinkFollows

LEMMA ReadThroughInv == ASSUME CopyInv, ReadThrough PROVE CopyInv'
<1>1. copy.pc = "read" /\ copy.bufIdx >= copy.maxLen /\ Delivered = copy.pos
  BY DEF ReadThrough, Delivered
<1>2. PICK n \in ReadSizes(CopyLen) :
       \/ copy' = [copy EXCEPT !.pos = @ + n, !.chunk = Bytes(copy.pos, n),
                               !.pc = IF n = 0 THEN "read" ELSE "write"]
       \/ n = 0 /\ AtEnd /\ copy' = CopyEnded(copy, "nil")
       \/ n = 0 /\ copy' = CopyEnded(copy, "error")
  BY DEF ReadThrough
<1>3. n \in Nat /\ copy.pos + n <= copy.len
  BY BufferAssumption, ReadSizesOf
<1>4. CASE copy' = [copy EXCEPT !.pos = @ + n, !.chunk = Bytes(copy.pos, n),
                                !.pc = IF n = 0 THEN "read" ELSE "write"]
  <2> DEFINE pos == copy.pos + n
             pc == IF n = 0 THEN "read" ELSE "write"
  <2>1. /\ pos \in Nat /\ copy.pos <= pos /\ pc \in {"read", "write"}
        /\ pc = "read" => n = 0
    BY <1>3 DEF CopyInv, CopyType
  <2>2. copy' = [copy EXCEPT !.pos = pos, !.bufIdx = copy.bufIdx,
                             !.chunk = Bytes(Delivered, n), !.pc = pc]
    BY <1>1, <1>4 DEF CopyInv, CopyType
  <2>3. Delivered' = Delivered + n
    BY <1>1, <2>2 DEF CopyInv, CopyType, Delivered
  <2>4. /\ copy.bufIdx <= Len(copy.buf) /\ copy.bufIdx \in Nat
        /\ copy.bufIdx <= copy.bufIdx /\ ~(copy.bufIdx < copy.maxLen)
    BY <1>1 DEF CopyInv, CopyType, PrefixRead
  <2> HIDE DEF pos, pc
  <2>5. pos <= copy.len
    BY <1>3 DEF pos
  <2> QED
    BY <1>1, <1>3, <2>1, <2>2, <2>3, <2>4, <2>5, ChunkInv
<1>5. CASE n = 0 /\ AtEnd /\ copy' = CopyEnded(copy, "nil")
  BY <1>1, <1>5, CopyEnds, AllDelivered DEF AtEnd
<1>6. CASE n = 0 /\ copy' = CopyEnded(copy, "error")
  BY <1>6, CopyEnds
<1> QED
  BY <1>2, <1>4, <1>5, <1>6

LEMMA ReadBufferedInv == ASSUME CopyInv, ReadBuffered PROVE CopyInv'
<1> DEFINE n == Min({CopyLen, Len(copy.buf) - copy.bufIdx})
<1>1. /\ copy.pc = "read" /\ copy.bufIdx < copy.maxLen /\ Delivered = copy.bufIdx
      /\ copy.bufIdx <= Len(copy.buf) /\ copy.pos = Len(copy.buf)
      /\ Len(copy.buf) <= copy.maxLen /\ copy.buf = Bytes(0, Len(copy.buf))
  BY DEF ReadBuffered, Delivered, CopyInv, CopyType, PrefixRead
<1>2. /\ n \in Nat /\ copy.bufIdx + n <= Len(copy.buf)
      /\ n = 0 => copy.bufIdx = Len(copy.buf)
  <2>1. Len(copy.buf) - copy.bufIdx \in Nat /\ CopyLen \in Nat \ {0}
    BY <1>1, BufferAssumption DEF CopyInv, CopyType
  <2>2. n = IF CopyLen <= Len(copy.buf) - copy.bufIdx THEN CopyLen
            ELSE Len(copy.buf) - copy.bufIdx
    BY <2>1, MinOfTwo
  <2> HIDE DEF n
  <2> QED
    BY <1>1, <2>1, <2>2 DEF CopyInv, CopyType
<1>3. CASE n = 0 /\ copy' = CopyEnded(copy, "nil")
  <2>1. Delivered = copy.len
    BY <1>1, <1>2, <1>3 DEF CopyInv, CopyType, PrefixRead
  <2> QED
    BY <1>1, <1>3, <2>1, CopyEnds, AllDelivered
<1>4. CASE /\ n # 0
           /\ copy' = [copy EXCEPT
                         !.chunk = SubSeq(copy.buf, copy.bufIdx + 1, copy.bufIdx + n),
                         !.bufIdx = @ + n, !.pc = "write"]
  <2> HIDE DEF n
  <2>1. SubSeq(copy.buf, copy.bufIdx + 1, copy.bufIdx + n) = Bytes(Delivered, n)
    <3>1. SubSeq(Bytes(0, Len(copy.buf)), copy.bufIdx + 1, copy.bufIdx + n)
            = Bytes(0 + copy.bufIdx, n)
      <4>1. Len(copy.buf) \in Nat /\ copy.bufIdx \in Nat /\ 0 \in Nat
        BY DEF CopyInv, CopyType
      <4> QED
        BY <1>2, <4>1, BytesPart
    <3>2. 0 + copy.bufIdx = Delivered
      BY <1>1 DEF CopyInv, CopyType
    <3>3. SubSeq(copy.buf, copy.bufIdx + 1, copy.bufIdx + n)
            = SubSeq(Bytes(0, Len(copy.buf)), copy.bufIdx + 1, copy.bufIdx + n)
      BY <1>1, Zenon
    <3> QED
      BY <3>1, <3>2, <3>3, Zenon
  <2> DEFINE idx == copy.bufIdx + n
  <2>2. copy' = [copy EXCEPT !.pos = copy.pos, !.bufIdx = idx,
                             !.chunk = Bytes(Delivered, n), !.pc = "write"]
    BY <1>4, <2>1 DEF CopyInv, CopyType
  <2>3. /\ idx \in Nat /\ idx <= Len(copy.buf) /\ copy.bufIdx <= idx
        /\ copy.pos \in Nat /\ copy.pos <= copy.len /\ copy.pos <= copy.pos
    BY <1>2 DEF CopyInv, CopyType, PrefixRead
  <2>4. copy'.bufIdx = idx /\ copy'.pos = copy.pos /\ copy'.maxLen = copy.maxLen
    BY <2>2 DEF CopyInv, CopyType
  <2>5. Delivered' = Delivered + n
    BY <1>1, <1>2, <2>3, <2>4 DEF CopyInv, CopyType, Delivered
  <2> HIDE DEF idx
  <2> QED
    BY <1>1, <1>2, <2>2, <2>3, <2>5, ChunkInv
<1> QED
  BY <1>3, <1>4 DEF ReadBuffered

\* Write lets n bytes of the chunk through, all that the limit allows unless
\* the writer below has failed.
LEMMA WroteInv ==
  ASSUME CopyInv, copy.pc = "write", NEW n \in Nat, NEW failed \in BOOLEAN,
         NEW sf \in BOOLEAN, n <= Len(copy.chunk), n <= copy.N,
         copy.sinkFailed => sf,
         ~sf => n = IF Len(copy.chunk) <= copy.N THEN Len(copy.chunk) ELSE copy.N,
         sf /\ ~copy.sinkFailed => failed,
         copy' = [Wrote(n, failed) EXCEPT !.sinkFailed = sf]
  PROVE  CopyInv'
<1> DEFINE s == copy.sink \o SubSeq(copy.chunk, 1, n)
           goes == copy.ignoreError \/ (n = Len(copy.chunk) /\ ~failed)
<1>1. /\ Len(copy.chunk) \in Nat /\ Len(copy.sink) \in Nat /\ Start \in Nat
      /\ copy.N \in Nat /\ copy.MaxN \in Nat /\ Delivered = Start + Len(copy.chunk)
      /\ copy.chunk = Bytes(Start, Len(copy.chunk)) /\ copy.err # "nil"
      /\ copy.N + Len(copy.sink) = copy.MaxN
  BY DEF CopyInv, CopyType, ChunkFollows, LimitCounts, Start, Delivered
<1>2. SubSeq(copy.chunk, 1, n) = Bytes(Start, n)
  <2> DEFINE a == Start
             all == Len(copy.chunk)
  <2>1. a \in Nat /\ all \in Nat /\ n <= all /\ copy.chunk = Bytes(a, all)
    BY <1>1
  <2> HIDE DEF a, all
  <2>2. SubSeq(Bytes(a, all), 1, n) = Bytes(a, n)
    BY <2>1, BytesHead
  <2> QED
    BY <2>1, <2>2 DEF a
<1>3. s \in Seq(Nat) /\ Len(s) = Len(copy.sink) + n
  <2>1. Bytes(Start, n) \in Seq(Nat) /\ Len(Bytes(Start, n)) = n
    BY <1>1, BytesSeq
  <2>2. copy.sink \in Seq(Nat)
    BY DEF CopyInv, CopyType
  <2> QED
    BY <1>2, <2>1, <2>2, ConcatSeq
<1>4. ~Hidden => s = Bytes(0, Len(copy.sink) + n)
  <2> SUFFICES ASSUME ~Hidden PROVE s = Bytes(0, Len(copy.sink) + n)
    OBVIOUS
  <2>1. Bytes(Start, n) = Bytes(0 + Len(copy.sink), n)
    <3>1. CASE n = 0
      BY <3>1 DEF Bytes
    <3>2. CASE n # 0
      BY <1>1, <3>2 DEF CopyInv, SinkFollows
    <3> QED
      BY <3>1, <3>2
  <2>2. Bytes(0, Len(copy.sink)) \o Bytes(0 + Len(copy.sink), n)
          = Bytes(0, Len(copy.sink) + n)
    <3>1. \A i, k \in Nat : Bytes(0, i) \o Bytes(0 + i, k) = Bytes(0, i + k)
      BY BytesConcat
    <3>2. Len(copy.sink) \in Nat /\ n \in Nat
      BY <1>1
    <3> QED
      BY <3>1, <3>2, Zenon
  <2> QED
    BY <1>2, <2>1, <2>2 DEF CopyInv, SinkFollows
<1> HIDE DEF s
<1>5. copy' = IF goes
              THEN [copy EXCEPT !.sink = s, !.N = copy.N - n, !.chunk = <<>>,
                                !.pc = "read", !.sinkFailed = sf]
              ELSE [copy EXCEPT !.sink = s, !.N = copy.N - n, !.chunk = <<>>,
                                !.pc = "ended", !.err = "error", !.sinkFailed = sf]
  BY DEF Wrote, CopyEnded, s, CopyInv, CopyType
<1>6. copy.N - n \in Nat /\ <<>> \in Seq(Nat)
  BY <1>1
<1>7. /\ CopyType' /\ copy'.sink = s /\ copy'.N = copy.N - n /\ copy'.chunk = <<>>
      /\ copy'.sinkFailed = sf /\ copy'.len = copy.len /\ copy'.pos = copy.pos
      /\ copy'.buf = copy.buf /\ copy'.bufIdx = copy.bufIdx
      /\ copy'.maxLen = copy.maxLen /\ copy'.MaxN = copy.MaxN
      /\ copy'.ignoreError = copy.ignoreError
  <2> DEFINE rest == copy.N - n
  <2>1. CASE copy' = [copy EXCEPT !.sink = s, !.N = rest, !.chunk = <<>>,
                                  !.pc = "read", !.sinkFailed = sf]
    <3> HIDE DEF goes, rest
    <3> QED  BY <1>3, <1>6, <2>1 DEF CopyInv, CopyType, rest
  <2>2. CASE copy' = [copy EXCEPT !.sink = s, !.N = rest, !.chunk = <<>>,
                                  !.pc = "ended", !.err = "error", !.sinkFailed = sf]
    <3> HIDE DEF goes, rest
    <3> QED  BY <1>3, <1>6, <2>2 DEF CopyInv, CopyType, rest
  <2> QED
    BY <1>5, <2>1, <2>2
<1>8. Len(s) <= copy.MaxN /\ LimitCounts'
  BY <1>1, <1>3, <1>7 DEF LimitCounts
<1>9. ~Hidden' => s = Bytes(0, Len(s))
  BY <1>3, <1>4, <1>7 DEF Hidden
<1>10. Delivered' = Delivered
  BY <1>7 DEF Delivered
<1>11. CASE goes
  <2>1. copy'.pc = "read" /\ copy'.err = copy.err
    BY <1>5, <1>11 DEF CopyInv, CopyType
  <2>2. Start' = Start + Len(copy.chunk)
    BY <1>1, <1>7, <1>10 DEF Start
  <2>3. ASSUME ~Hidden'
        PROVE  /\ Len(s) = IF Start' <= copy.MaxN THEN Start' ELSE copy.MaxN
               /\ ~copy.ignoreError => Len(s) = Start'
    <3>1. CASE copy.ignoreError
      <4>1. ~sf /\ ~Hidden
        BY <1>7, <2>3, <3>1 DEF Hidden
      <4> QED
        <5>1. Len(copy.sink) = IF Start <= copy.MaxN THEN Start ELSE copy.MaxN
          BY <4>1 DEF CopyInv, SinkFollows
        <5>2. n = IF Len(copy.chunk) <= copy.N THEN Len(copy.chunk) ELSE copy.N
          BY <4>1
        <5>3. Len(copy.sink) + n = IF Start + Len(copy.chunk) <= copy.MaxN
                                   THEN Start + Len(copy.chunk) ELSE copy.MaxN
          BY <1>1, <5>1, <5>2, CutToLimit
        <5> QED
          BY <1>3, <2>2, <3>1, <5>3
    <3>2. CASE ~copy.ignoreError
      <4>1. n = Len(copy.chunk) /\ Len(copy.sink) = Start
        BY <1>11, <3>2 DEF CopyInv, SinkFollows, Hidden
      <4> QED
        BY <1>1, <1>3, <1>8, <2>2, <4>1
    <3> QED
      BY <3>1, <3>2
  <2>4. SinkFollows'
    BY <1>7, <1>9, <2>1, <2>3 DEF SinkFollows
  <2>5. PrefixRead' /\ ChunkFollows'
    BY <1>7, <2>1 DEF CopyInv, PrefixRead, ChunkFollows
  <2>6. CopiesExactly'
    BY <1>1, <1>7, <1>8, <1>9, <2>1 DEF CopiesExactly, Hidden
  <2> QED
    BY <1>1, <1>7, <1>8, <2>1, <2>4, <2>5, <2>6 DEF CopyInv
<1>12. CASE ~goes
  <2>1. copy'.pc = "ended" /\ copy'.err = "error"
    BY <1>5, <1>12 DEF CopyInv, CopyType
  <2>2. SinkFollows' /\ ChunkFollows'
    BY <1>7, <1>9, <2>1 DEF SinkFollows, ChunkFollows
  <2>3. PrefixRead'
    BY <1>7, <2>1 DEF CopyInv, PrefixRead
  <2>4. CopiesExactly'
    BY <1>7, <1>8, <1>9, <2>1 DEF CopiesExactly, Hidden
  <2> QED
    BY <1>7, <1>8, <2>1, <2>2, <2>3, <2>4 DEF CopyInv
<1> QED
  BY <1>11, <1>12

LEMMA WritesInv == ASSUME CopyInv, Writes PROVE CopyInv'
<1> DEFINE room == Min({Len(copy.chunk), copy.N})
<1>1. /\ copy.pc = "write" /\ Len(copy.chunk) \in Nat /\ copy.N \in Nat
      /\ copy.sinkFailed \in BOOLEAN
  BY DEF Writes, CopyInv, CopyType
<1>2. room = IF Len(copy.chunk) <= copy.N THEN Len(copy.chunk) ELSE copy.N
  BY <1>1, MinOfTwo
<1> HIDE DEF room
<1>3. ASSUME NEW n, NEW failed \in BOOLEAN, copy' = Wrote(n, failed)
      PROVE  copy' = [Wrote(n, failed) EXCEPT !.sinkFailed = copy.sinkFailed]
  BY <1>3 DEF Wrote, CopyEnded, CopyInv, CopyType
<1>4. CASE copy.N <= 0 /\ copy' = Wrote(0, TRUE)
  <2> DEFINE none == 0
             failed == TRUE
  <2>1. /\ none = IF Len(copy.chunk) <= copy.N THEN Len(copy.chunk) ELSE copy.N
        /\ none \in Nat /\ none <= Len(copy.chunk) /\ none <= copy.N
    BY <1>1, <1>4
  <2>2. /\ copy' = [Wrote(none, failed) EXCEPT !.sinkFailed = copy.sinkFailed]
        /\ failed \in BOOLEAN
    BY <1>3, <1>4
  <2> HIDE DEF none, failed
  <2> QED
    BY <1>1, <2>1, <2>2, WroteInv
<1>5. CASE copy.N > 0 /\ copy' = Wrote(room, FALSE)
  <2> DEFINE failed == FALSE
  <2>1. /\ copy' = [Wrote(room, failed) EXCEPT !.sinkFailed = copy.sinkFailed]
        /\ failed \in BOOLEAN
    BY <1>3, <1>5
  <2> HIDE DEF failed
  <2>2. room \in Nat /\ room <= Len(copy.chunk) /\ room <= copy.N
    BY <1>1, <1>2
  <2> QED
    BY <1>1, <1>2, <2>1, <2>2, WroteInv
<1>6. CASE \E n \in 0 .. room : copy' = [Wrote(n, TRUE) EXCEPT !.sinkFailed = TRUE]
  <2>1. PICK n \in 0 .. room : copy' = [Wrote(n, TRUE) EXCEPT !.sinkFailed = TRUE]
    BY <1>6
  <2>2. n \in Nat /\ n <= Len(copy.chunk) /\ n <= copy.N
    BY <1>1, <1>2
  <2> DEFINE sf == TRUE
  <2>3. sf \in BOOLEAN /\ sf /\ copy' = [Wrote(n, sf) EXCEPT !.sinkFailed = sf]
    BY <2>1
  <2> HIDE DEF sf
  <2> QED
    BY <1>1, <2>2, <2>3, WroteInv
<1> QED
  BY <1>4, <1>5, <1>6 DEF Writes, room

LEMMA ClosesInv == ASSUME CopyInv, Closes PROVE CopyInv'
<1>1. CopyType'
  <2>1. <<>> \in Seq(Nat) /\ 0 \in Nat
    OBVIOUS
  <2> QED
    BY <2>1 DEF Closes, CopyInv, CopyType
<1>2. /\ copy'.pc = "ended" /\ copy'.err = copy.err /\ copy'.sink = copy.sink
      /\ copy'.len = copy.len /\ copy'.pos = copy.pos
      /\ copy'.N = copy.N /\ copy'.MaxN = copy.MaxN
      /\ copy'.ignoreError = copy.ignoreError /\ copy'.sinkFailed = copy.sinkFailed
  BY DEF Closes, CopyInv, CopyType
<1>3. PrefixRead' /\ LimitCounts' /\ ChunkFollows' /\ SinkFollows'
  BY <1>2 DEF CopyInv, PrefixRead, LimitCounts, ChunkFollows, SinkFollows, Hidden
<1>4. CopiesExactly'
  BY <1>2 DEF CopyInv, CopiesExactly
<1> QED
  BY <1>1, <1>2, <1>3, <1>4 DEF CopyInv

LEMMA CopyNext == CopyInv /\ [BufNext]_bufVars => CopyInv'
<1> SUFFICES ASSUME CopyInv, [BufNext]_bufVars PROVE CopyInv'
  OBVIOUS
<1>1. CASE Filled
  BY <1>1, FilledInv DEF Filled, CopyInv, CopyType
<1>2. CASE UNCHANGED bufVars
  BY <1>2 DEF bufVars, CopyInv, CopyType, PrefixRead, LimitCounts, ChunkFollows,
              SinkFollows, CopiesExactly, Hidden, Start, Delivered
<1> QED
  BY <1>1, <1>2, OpensInv, FillInv, ReadThroughInv, ReadBufferedInv, WritesInv, ClosesInv
     DEF BufNext

\* For streams, prefixes, limits and buffers of any length: the bytes arrive
\* once and in order, within the limit, and a copy without an error is complete.
THEOREM CopiesAll == BufSpec => []CopiesExactly
<1>1. CopyInv => CopiesExactly
  BY DEF CopyInv
<1> QED
  BY <1>1, CopyInit, CopyNext, PTL DEF BufSpec

-----------------------------------------------------------------------------
(* ErrorValues, for any statuses and errors of any size.                   *)

ErrKinds ==
  {"plain", "ErrRecordNotFound", "notFoundError", "NotFoundError", "Errors",
   "errorWrapper", "message", "join"}
ErrCodes == Statuses \cup {0, OwnCode}

\* NotFoundError has status 404, what wraps stands above something, and the
\* errors without an Unwrap do not.
ErrNodes ==
  {n \in [kind : ErrKinds, status : Statuses \cup {0}, code : ErrCodes, size : Nat \ {0}] :
     /\ n.kind = "NotFoundError" => n.status = 404
     /\ IsWrapper(n) => n.size > 1
     /\ n.kind \in {"plain", "ErrRecordNotFound", "notFoundError", "Errors"} => n.size = 1}

\* What an error stands above lies within what the errors above it stand
\* above, and an error that is not a join stands right above one other.
IsTree(e) ==
  /\ e \in Seq(ErrNodes) /\ Len(e) > 0
  /\ e[1].size = Len(e)
  /\ \A i, j \in 1 .. Len(e) :
       i <= j /\ j < i + e[i].size => j + e[j].size <= i + e[i].size
  /\ \A i \in 1 .. Len(e) :
       e[i].kind # "join" /\ e[i].size > 1 =>
         i + 1 <= Len(e) /\ e[i + 1].size = e[i].size - 1

ErrInv == err # <<>> => IsTree(err)

\* The list of an error with something below it.
LEMMA NodeList ==
  ASSUME NEW e \in Seq(ErrNodes), NEW kind, NEW status, NEW code
  PROVE  LET n == Node(kind, status, code, e)
             r == [kind |-> kind, status |-> status, code |-> code, size |-> Len(e) + 1]
         IN  /\ r \in ErrNodes => n \in Seq(ErrNodes)
             /\ Len(n) = Len(e) + 1
             /\ n[1] = r
             /\ \A i \in 2 .. Len(e) + 1 : n[i] = e[i - 1]
<1> DEFINE n == Node(kind, status, code, e)
           r == [kind |-> kind, status |-> status, code |-> code, size |-> Len(e) + 1]
           V == ErrNodes \cup {r}
<1>1. n = <<r>> \o e
  BY DEF Node
<1>2. <<r>> \in Seq(V) /\ Len(<<r>>) = 1 /\ <<r>>[1] = r
  OBVIOUS
<1>3. e \in Seq(V) /\ Len(e) \in Nat
  OBVIOUS
<1> HIDE DEF n, r
<1>4. /\ n \in Seq(V)
      /\ Len(n) = 1 + Len(e)
      /\ \A i \in 1 .. 1 + Len(e) : n[i] = IF i <= 1 THEN <<r>>[i] ELSE e[i - 1]
  BY <1>1, <1>2, <1>3, ConcatProperties
<1>5. r \in ErrNodes => V = ErrNodes
  OBVIOUS
<1> HIDE DEF V
<1>6. r \in ErrNodes => n \in Seq(ErrNodes)
  BY <1>4, <1>5
<1>7. n[1] = r /\ Len(n) = Len(e) + 1
  BY <1>2, <1>3, <1>4
<1>8. \A i \in 2 .. Len(e) + 1 : n[i] = e[i - 1]
  BY <1>3, <1>4
<1>9. QED
  BY <1>6, <1>7, <1>8 DEF n, r

\* An error above a tree, or above nothing, is a tree.
LEMMA NodeTree ==
  ASSUME NEW e \in Seq(ErrNodes), e = <<>> \/ IsTree(e),
         NEW kind, NEW status, NEW code, kind # "join",
         [kind |-> kind, status |-> status, code |-> code, size |-> Len(e) + 1] \in ErrNodes
  PROVE  IsTree(Node(kind, status, code, e))
<1> DEFINE n == Node(kind, status, code, e)
<1>1. /\ n \in Seq(ErrNodes) /\ Len(n) = Len(e) + 1
      /\ n[1].size = Len(e) + 1 /\ n[1].kind = kind
      /\ \A i \in 2 .. Len(e) + 1 : n[i] = e[i - 1]
  BY NodeList
<1>2. Len(e) \in Nat /\ (e = <<>> => Len(e) = 0)
  OBVIOUS
<1>3. \A i \in 1 .. Len(e) : e[i].size \in Nat \ {0}
  BY DEF ErrNodes
<1>4. e # <<>> =>
        /\ Len(e) > 0 /\ e[1].size = Len(e)
        /\ \A i, j \in 1 .. Len(e) :
             i <= j /\ j < i + e[i].size => j + e[j].size <= i + e[i].size
        /\ \A i \in 1 .. Len(e) :
             e[i].kind # "join" /\ e[i].size > 1 =>
               i + 1 <= Len(e) /\ e[i + 1].size = e[i].size - 1
  BY DEF IsTree
<1> HIDE DEF n
<1>5. ASSUME NEW j \in 2 .. Len(n)
      PROVE  j - 1 \in 1 .. Len(e) /\ n[j] = e[j - 1] /\ e # <<>>
  BY <1>1, <1>2, <1>5
<1>6. ASSUME NEW i \in 1 .. Len(n), NEW j \in 1 .. Len(n),
             i <= j, j < i + n[i].size
      PROVE  j + n[j].size <= i + n[i].size
  <2>1. CASE j = 1
    BY <1>6, <2>1, <1>1
  <2>2. CASE j # 1 /\ i = 1
    <3>1. j - 1 \in 1 .. Len(e) /\ n[j] = e[j - 1] /\ e # <<>>
      BY <1>1, <1>2, <1>5, <2>2
    <3>2. (j - 1) + e[j - 1].size <= 1 + e[1].size
      <4>1. e[1].size = Len(e)
        BY <1>4, <3>1
      <4>2. 1 \in 1 .. Len(e) /\ 1 <= j - 1 /\ j - 1 < 1 + Len(e)
        BY <1>2, <3>1
      <4>3. QED
        BY <1>4, <3>1, <4>1, <4>2
    <3>3. e[1].size = Len(e) /\ n[1].size = Len(e) + 1
      BY <1>1, <1>4, <3>1
    <3> DEFINE b == n[j].size
    <3>4. b \in Nat /\ (j - 1) + b <= 1 + Len(e)
      BY <1>3, <3>1, <3>2, <3>3
    <3>5. j \in Int
      BY <1>1, <1>2
    <3> HIDE DEF b
    <3>6. j + b <= 1 + (Len(e) + 1)
      BY <1>2, <3>4, <3>5
    <3>7. QED
      BY <2>2, <3>3, <3>6 DEF b
  <2>3. CASE j # 1 /\ i # 1
    <3>1. /\ j - 1 \in 1 .. Len(e) /\ n[j] = e[j - 1] /\ e # <<>>
          /\ i - 1 \in 1 .. Len(e) /\ n[i] = e[i - 1]
      BY <1>1, <1>2, <1>5, <2>3
    <3> DEFINE a == n[i].size
               b == n[j].size
    <3>2. a \in Nat /\ b \in Nat
      BY <1>3, <3>1
    <3>3. i \in Int /\ j \in Int
      BY <1>1, <1>2
    <3>4. i <= j /\ j < i + a
      BY <1>6
    <3> HIDE DEF a, b
    <3>5. i - 1 <= j - 1 /\ j - 1 < (i - 1) + a
      BY <3>2, <3>3, <3>4
    <3>6. j - 1 < (i - 1) + e[i - 1].size
      BY <3>1, <3>5 DEF a
    <3>7. (j - 1) + e[j - 1].size <= (i - 1) + e[i - 1].size
      BY <1>4, <3>1, <3>5, <3>6
    <3>8. (j - 1) + b <= (i - 1) + a
      BY <3>1, <3>7 DEF a, b
    <3>9. j + b <= i + a
      BY <3>2, <3>3, <3>8
    <3>10. QED
      BY <3>9 DEF a, b
  <2>4. QED
    BY <2>1, <2>2, <2>3
<1>7. ASSUME NEW i \in 1 .. Len(n), n[i].kind # "join", n[i].size > 1
      PROVE  i + 1 <= Len(n) /\ n[i + 1].size = n[i].size - 1
  <2>1. CASE i = 1
    <3>1. Len(e) > 0 /\ e # <<>>
      BY <1>1, <1>2, <1>7, <2>1
    <3>2. n[2] = e[1]
      BY <1>1, <1>2, <3>1
    <3>3. e[1].size = Len(e) /\ n[i].size = Len(e) + 1 /\ i + 1 = 2
      BY <1>1, <1>4, <2>1, <3>1
    <3>4. Len(e) = (Len(e) + 1) - 1 /\ i + 1 <= Len(e) + 1
      BY <1>2, <2>1, <3>1
    <3>5. QED
      BY <1>1, <3>2, <3>3, <3>4
  <2>2. CASE i # 1
    <3>1. i - 1 \in 1 .. Len(e) /\ n[i] = e[i - 1] /\ e # <<>>
      BY <1>1, <1>2, <1>5, <2>2
    <3>2. (i - 1) + 1 <= Len(e) /\ e[(i - 1) + 1].size = e[i - 1].size - 1
      <4>1. e[i - 1].kind # "join" /\ e[i - 1].size > 1
        BY <1>7, <3>1
      <4>2. QED
        BY <1>4, <3>1, <4>1
    <3>3. i + 1 \in 2 .. Len(e) + 1 /\ (i + 1) - 1 = (i - 1) + 1
      BY <1>2, <3>1, <3>2
    <3>4. n[i + 1] = e[(i - 1) + 1]
      BY <1>1, <3>3
    <3>5. i + 1 <= Len(n)
      BY <1>1, <1>2, <3>3
    <3>6. n[i + 1].size = n[i].size - 1
      BY <3>1, <3>2, <3>4
    <3>7. QED
      BY <3>5, <3>6
  <2>3. QED
    BY <2>1, <2>2
<1>8. Len(n) > 0 /\ n[1].size = Len(n)
  BY <1>1, <1>2
<1>9. QED
  BY <1>1, <1>6, <1>7, <1>8 DEF IsTree, n
\* Two trees below a join are a tree.
LEMMA JoinTree ==
  ASSUME NEW d, NEW e, IsTree(d), IsTree(e)
  PROVE  IsTree(Joined(d, e))
<1> DEFINE x == d \o e
           n == Joined(d, e)
           L == Len(d)
           M == Len(e)
<1>1. d \in Seq(ErrNodes) /\ e \in Seq(ErrNodes) /\ L \in Nat \ {0} /\ M \in Nat \ {0}
  BY DEF IsTree
<1>2. /\ x \in Seq(ErrNodes) /\ Len(x) = L + M
      /\ \A i \in 1 .. L + M : x[i] = IF i <= L THEN d[i] ELSE e[i - L]
  BY <1>1, ConcatProperties
<1>3. n = Node("join", 0, 0, x)
  BY DEF Joined
<1> HIDE DEF x, n, L, M
<1>4. [kind |-> "join", status |-> 0, code |-> 0, size |-> Len(x) + 1] \in ErrNodes
  BY <1>1, <1>2 DEF ErrNodes, ErrKinds, ErrCodes, IsWrapper
<1>5. /\ n \in Seq(ErrNodes) /\ Len(n) = Len(x) + 1
      /\ n[1].size = Len(x) + 1 /\ n[1].kind = "join"
      /\ \A i \in 2 .. Len(x) + 1 : n[i] = x[i - 1]
  BY <1>2, <1>3, <1>4, NodeList
<1>6. Len(n) = L + M + 1 /\ n[1].size = L + M + 1
  BY <1>1, <1>2, <1>5
<1>7. /\ \A i \in 2 .. L + 1 : n[i] = d[i - 1] /\ i - 1 \in 1 .. L
      /\ \A i \in L + 2 .. L + M + 1 : n[i] = e[i - 1 - L] /\ i - 1 - L \in 1 .. M
  <2>1. ASSUME NEW i \in 2 .. L + 1 PROVE n[i] = d[i - 1] /\ i - 1 \in 1 .. L
    <3>1. i \in 2 .. Len(x) + 1 /\ i - 1 \in 1 .. L + M /\ i - 1 <= L /\ i - 1 \in 1 .. L
      BY <1>1, <1>2
    <3>2. QED
      BY <1>2, <1>5, <3>1
  <2>2. ASSUME NEW i \in L + 2 .. L + M + 1
        PROVE  n[i] = e[i - 1 - L] /\ i - 1 - L \in 1 .. M
    <3>1. /\ i \in 2 .. Len(x) + 1 /\ i - 1 \in 1 .. L + M /\ ~(i - 1 <= L)
          /\ i - 1 - L \in 1 .. M
      BY <1>1, <1>2
    <3>2. QED
      BY <1>2, <1>5, <3>1
  <2>3. QED
    BY <2>1, <2>2
<1>8. /\ d[1].size = L /\ e[1].size = M
      /\ \A i, j \in 1 .. L :
           i <= j /\ j < i + d[i].size => j + d[j].size <= i + d[i].size
      /\ \A i, j \in 1 .. M :
           i <= j /\ j < i + e[i].size => j + e[j].size <= i + e[i].size
      /\ \A i \in 1 .. L :
           d[i].kind # "join" /\ d[i].size > 1 =>
             i + 1 <= L /\ d[i + 1].size = d[i].size - 1
      /\ \A i \in 1 .. M :
           e[i].kind # "join" /\ e[i].size > 1 =>
             i + 1 <= M /\ e[i + 1].size = e[i].size - 1
  BY DEF IsTree, L, M
<1>9. (\A i \in 1 .. L : d[i].size \in Nat \ {0}) /\ \A i \in 1 .. M : e[i].size \in Nat \ {0}
  <2>1. (\A i \in 1 .. L : d[i] \in ErrNodes) /\ \A i \in 1 .. M : e[i] \in ErrNodes
    BY <1>1 DEF L, M
  <2>2. \A r \in ErrNodes : r.size \in Nat \ {0}
    BY DEF ErrNodes
  <2>3. QED
    BY <2>1, <2>2
<1>10. (\A i \in 1 .. L : i + d[i].size <= L + 1) /\ \A i \in 1 .. M : i + e[i].size <= M + 1
  <2>1. ASSUME NEW i \in 1 .. L PROVE i + d[i].size <= L + 1
    <3>1. 1 \in 1 .. L /\ 1 <= i /\ i < 1 + d[1].size
      BY <1>1, <1>8
    <3>2. i + d[i].size <= 1 + d[1].size
      BY <1>8, <3>1
    <3>3. QED
      BY <1>1, <1>8, <1>9, <3>2
  <2>2. ASSUME NEW i \in 1 .. M PROVE i + e[i].size <= M + 1
    <3>1. 1 \in 1 .. M /\ 1 <= i /\ i < 1 + e[1].size
      BY <1>1, <1>8
    <3>2. i + e[i].size <= 1 + e[1].size
      BY <1>8, <3>1
    <3>3. QED
      BY <1>1, <1>8, <1>9, <3>2
  <2>3. QED
    BY <2>1, <2>2
<1>11. L \in Nat /\ M \in Nat /\ L # 0 /\ M # 0
  BY <1>1
<1>12. ASSUME NEW i \in 1 .. Len(n), NEW j \in 1 .. Len(n),
              i <= j, j < i + n[i].size
       PROVE  j + n[j].size <= i + n[i].size
  <2>1. CASE j = 1
    BY <1>6, <1>12, <2>1
  <2>2. CASE i = 1 /\ j \in 2 .. L + 1
    <3>1. (j - 1) + d[j - 1].size <= L + 1 /\ n[j] = d[j - 1] /\ d[j - 1].size \in Nat
      BY <1>7, <1>9, <1>10, <2>2
    <3>2. (j - 1) + n[j].size <= L + 1 /\ n[j].size \in Nat /\ n[i].size = L + M + 1
      BY <1>6, <2>2, <3>1
    <3> DEFINE b == n[j].size
    <3>3. b \in Nat /\ (j - 1) + b <= L + 1 /\ n[i].size = L + M + 1
      BY <3>2
    <3> HIDE DEF b
    <3>4. j + b <= i + (L + M + 1)
      BY <1>11, <2>2, <3>3
    <3>5. QED
      BY <3>3, <3>4 DEF b
  <2>3. CASE i = 1 /\ j \in L + 2 .. L + M + 1
    <3>1. (j - 1 - L) + e[j - 1 - L].size <= M + 1 /\ n[j] = e[j - 1 - L] /\ e[j - 1 - L].size \in Nat
      BY <1>7, <1>9, <1>10, <2>3
    <3>2. (j - 1 - L) + n[j].size <= M + 1 /\ n[j].size \in Nat /\ n[i].size = L + M + 1
      BY <1>6, <2>3, <3>1
    <3> DEFINE b == n[j].size
    <3>3. b \in Nat /\ (j - 1 - L) + b <= M + 1 /\ n[i].size = L + M + 1
      BY <3>2
    <3> HIDE DEF b
    <3>4. j + b <= i + (L + M + 1)
      BY <1>11, <2>3, <3>3
    <3>5. QED
      BY <3>3, <3>4 DEF b
  <2>4. CASE i \in 2 .. L + 1 /\ j \in 2 .. L + 1
    <3>1. /\ i - 1 \in 1 .. L /\ n[i] = d[i - 1] /\ d[i - 1].size \in Nat
          /\ j - 1 \in 1 .. L /\ n[j] = d[j - 1] /\ d[j - 1].size \in Nat
      BY <1>7, <1>9, <2>4
    <3> DEFINE a == n[i].size
               b == n[j].size
    <3>2. a \in Nat /\ b \in Nat
      BY <3>1
    <3>3. i \in Int /\ j \in Int
      BY <1>11, <2>4
    <3>4. i <= j /\ j < i + a
      BY <1>12
    <3> HIDE DEF a, b
    <3>5. i - 1 <= j - 1 /\ j - 1 < (i - 1) + a
      BY <3>2, <3>3, <3>4
    <3>6. j - 1 < (i - 1) + d[i - 1].size
      BY <3>1, <3>5 DEF a
    <3>7. (j - 1) + d[j - 1].size <= (i - 1) + d[i - 1].size
      BY <1>8, <3>1, <3>5, <3>6
    <3>8. (j - 1) + b <= (i - 1) + a
      BY <3>1, <3>7 DEF a, b
    <3>9. j + b <= i + a
      BY <3>2, <3>3, <3>8
    <3>10. QED
      BY <3>9 DEF a, b
  <2>5. CASE i \in 2 .. L + 1 /\ j \in L + 2 .. L + M + 1
    <3>1. (i - 1) + d[i - 1].size <= L + 1 /\ n[i] = d[i - 1] /\ d[i - 1].size \in Nat
      BY <1>7, <1>9, <1>10, <2>5
    <3> DEFINE a == n[i].size
    <3>2. a \in Nat /\ (i - 1) + a <= L + 1
      BY <3>1
    <3>3. j < i + a
      BY <1>12
    <3> HIDE DEF a
    <3>4. FALSE
      BY <1>11, <2>5, <3>2, <3>3
    <3>5. QED
      BY <3>4
  <2>6. CASE i \in L + 2 .. L + M + 1 /\ j \in L + 2 .. L + M + 1
    <3>1. /\ i - 1 - L \in 1 .. M /\ n[i] = e[i - 1 - L] /\ e[i - 1 - L].size \in Nat
          /\ j - 1 - L \in 1 .. M /\ n[j] = e[j - 1 - L] /\ e[j - 1 - L].size \in Nat
      BY <1>7, <1>9, <2>6
    <3> DEFINE a == n[i].size
               b == n[j].size
    <3>2. a \in Nat /\ i <= j /\ j < i + a /\ i \in Int /\ j \in Int
      <4>1. a \in Nat
        BY <3>1
      <4>2. i <= j /\ j < i + a
        BY <1>12
      <4>3. i \in Int /\ j \in Int
        BY <1>11, <2>6
      <4>4. QED
        BY <4>1, <4>2, <4>3
    <3> HIDE DEF a, b
    <3>3. i - 1 - L <= j - 1 - L /\ j - 1 - L < (i - 1 - L) + a
      BY <1>11, <3>2
    <3>4. i - 1 - L <= j - 1 - L /\ j - 1 - L < (i - 1 - L) + e[i - 1 - L].size
      BY <3>1, <3>3 DEF a
    <3>5. (j - 1 - L) + e[j - 1 - L].size <= (i - 1 - L) + e[i - 1 - L].size
      BY <1>8, <3>1, <3>4
    <3>6. a \in Nat /\ b \in Nat /\ (j - 1 - L) + b <= (i - 1 - L) + a
      BY <3>1, <3>5 DEF a, b
    <3>7. j + b <= i + a
      BY <1>11, <3>6, <3>2
    <3>8. QED
      BY <3>7 DEF a, b
  <2>7. \/ j = 1
        \/ i = 1 /\ j \in 2 .. L + 1
        \/ i = 1 /\ j \in L + 2 .. L + M + 1
        \/ i \in 2 .. L + 1 /\ j \in 2 .. L + 1
        \/ i \in 2 .. L + 1 /\ j \in L + 2 .. L + M + 1
        \/ i \in L + 2 .. L + M + 1 /\ j \in L + 2 .. L + M + 1
    BY <1>11, <1>6, <1>12
  <2>8. QED
    BY <2>1, <2>2, <2>3, <2>4, <2>5, <2>6, <2>7
<1>13. ASSUME NEW i \in 1 .. Len(n), n[i].kind # "join", n[i].size > 1
       PROVE  i + 1 <= Len(n) /\ n[i + 1].size = n[i].size - 1
  <2>1. i # 1
    BY <1>5, <1>13
  <2>2. CASE i \in 2 .. L + 1
    <3>1. i - 1 \in 1 .. L /\ n[i] = d[i - 1]
      BY <1>7, <2>2
    <3>2. (i - 1) + 1 <= L /\ d[(i - 1) + 1].size = d[i - 1].size - 1
      BY <1>8, <1>13, <3>1
    <3>3. i + 1 \in 2 .. L + 1 /\ (i + 1) - 1 = (i - 1) + 1
      BY <1>11, <3>1, <3>2
    <3>4. n[i + 1] = d[(i - 1) + 1]
      BY <1>7, <3>3
    <3>5. QED
      BY <1>11, <1>6, <3>1, <3>2, <3>3, <3>4
  <2>3. CASE i \in L + 2 .. L + M + 1
    <3>1. i - 1 - L \in 1 .. M /\ n[i] = e[i - 1 - L]
      BY <1>7, <2>3
    <3>2. (i - 1 - L) + 1 <= M /\ e[(i - 1 - L) + 1].size = e[i - 1 - L].size - 1
      BY <1>8, <1>13, <3>1
    <3>3. i + 1 \in L + 2 .. L + M + 1 /\ (i + 1) - 1 - L = (i - 1 - L) + 1
      BY <1>11, <3>1, <3>2
    <3>4. n[i + 1] = e[(i - 1 - L) + 1]
      BY <1>7, <3>3
    <3>5. QED
      BY <1>11, <1>6, <3>1, <3>2, <3>3, <3>4
  <2>4. QED
    BY <1>11, <1>6, <2>1, <2>2, <2>3
<1>14. Len(n) > 0 /\ n[1].size = Len(n)
  BY <1>11, <1>6
<1>15. QED
  BY <1>5, <1>12, <1>13, <1>14 DEF IsTree, n

\* What is below an error that is not a join and has something below it.
LEMMA BelowTree ==
  ASSUME NEW e, IsTree(e), NEW w \in 1 .. Len(e), e[w].kind # "join", e[w].size > 1
  PROVE  /\ IsTree(Below(e, w))
         /\ Len(Below(e, w)) = e[w].size - 1
         /\ \A i \in 1 .. e[w].size - 1 : Below(e, w)[i] = e[w + i]
         /\ w + e[w].size <= Len(e) + 1
<1> DEFINE n == Below(e, w)
           L == Len(e)
           M == e[w].size - 1
<1>1. /\ e \in Seq(ErrNodes) /\ L \in Nat \ {0} /\ e[1].size = L
      /\ \A i, j \in 1 .. L :
           i <= j /\ j < i + e[i].size => j + e[j].size <= i + e[i].size
      /\ \A i \in 1 .. L :
           e[i].kind # "join" /\ e[i].size > 1 =>
             i + 1 <= L /\ e[i + 1].size = e[i].size - 1
  BY DEF IsTree
<1>2. \A i \in 1 .. L : e[i].size \in Nat \ {0}
  BY <1>1 DEF ErrNodes
<1>3. M \in Nat \ {0} /\ w + e[w].size = w + M + 1 /\ w \in 1 .. L
  BY <1>2
<1>4. w + M <= L
  <2>1. 1 \in 1 .. L /\ 1 <= w /\ w < 1 + e[1].size
    BY <1>1
  <2>2. w + e[w].size <= 1 + e[1].size
    BY <1>1, <2>1
  <2>3. QED
    BY <1>1, <1>3, <2>2
<1>5. n = SubSeq(e, w + 1, w + M)
  BY <1>3 DEF Below
<1> HIDE DEF n, M, L
<1>6. /\ n \in Seq(ErrNodes) /\ Len(n) = M
      /\ \A i \in 1 .. M : n[i] = e[w + i] /\ w + i \in 1 .. L
  <2>1. /\ w + 1 \in 1 .. L /\ w + M \in w .. L
        /\ (w + M) - (w + 1) + 1 = M
    BY <1>1, <1>3, <1>4
  <2>2. \A i \in w + 1 .. w + M : e[i] \in ErrNodes
    <3>1. \A i \in 1 .. Len(e) : e[i] \in ErrNodes
      BY <1>1
    <3>2. \A i \in w + 1 .. w + M : i \in 1 .. L
      BY <1>1, <1>3, <1>4
    <3>3. QED
      BY <3>1, <3>2 DEF L
  <2>3. n \in Seq(ErrNodes) /\ Len(n) = M
    BY <1>1, <1>3, <1>4, <1>5, <2>1, SubSeqProperties DEF L
  <2>4. \A i \in 1 .. M : n[i] = e[(w + 1) + i - 1]
    BY <1>1, <1>3, <1>4, <1>5, <2>1, SubSeqProperties DEF L
  <2>5. \A i \in 1 .. M : (w + 1) + i - 1 = w + i /\ w + i \in 1 .. L
    BY <1>1, <1>3, <1>4
  <2>6. QED
    BY <2>3, <2>4, <2>5
<1>7. n[1].size = M
  <2>1. w + 1 <= L /\ e[w + 1].size = e[w].size - 1
    BY <1>1, <1>3
  <2>2. 1 \in 1 .. M
    BY <1>3
  <2>3. n[1] = e[w + 1]
    BY <1>6, <2>2
  <2>4. QED
    BY <2>1, <2>3 DEF M
<1>8. ASSUME NEW i \in 1 .. M, NEW j \in 1 .. M, i <= j, j < i + n[i].size
      PROVE  j + n[j].size <= i + n[i].size
  <2>1. /\ n[i] = e[w + i] /\ w + i \in 1 .. L /\ e[w + i].size \in Nat
        /\ n[j] = e[w + j] /\ w + j \in 1 .. L /\ e[w + j].size \in Nat
    BY <1>2, <1>6
  <2>2. w + i <= w + j /\ w + j < (w + i) + e[w + i].size
    <3> DEFINE a == n[i].size
    <3>1. a \in Nat /\ i <= j /\ j < i + a
      BY <1>8, <2>1
    <3>2. w \in Int /\ i \in Int /\ j \in Int
      BY <1>1, <1>3
    <3> HIDE DEF a
    <3>3. w + i <= w + j /\ w + j < (w + i) + a
      BY <3>1, <3>2
    <3>4. QED
      BY <2>1, <3>3 DEF a
  <2>3. (w + j) + e[w + j].size <= (w + i) + e[w + i].size
    BY <1>1, <2>1, <2>2
  <2>4. /\ (w + j) + n[j].size <= (w + i) + n[i].size
        /\ n[i].size \in Nat /\ n[j].size \in Nat
    BY <2>1, <2>3
  <2>5. w \in Int /\ i \in Int /\ j \in Int
    BY <1>1, <1>3
  <2>6. \A a, b \in Nat : (w + j) + b <= (w + i) + a => j + b <= i + a
    BY <2>5
  <2>7. QED
    BY <2>4, <2>6
<1>9. ASSUME NEW i \in 1 .. M, n[i].kind # "join", n[i].size > 1
      PROVE  i + 1 <= M /\ n[i + 1].size = n[i].size - 1
  <2>1. n[i] = e[w + i] /\ w + i \in 1 .. L /\ e[w + i].size \in Nat
    BY <1>2, <1>6
  <2>2. (w + i) + 1 <= L /\ e[(w + i) + 1].size = e[w + i].size - 1
    BY <1>1, <1>9, <2>1
  <2>3. i + 1 <= M
    <3>1. w <= w + i /\ w + i < w + e[w].size
      BY <1>3
    <3>2. (w + i) + e[w + i].size <= w + M + 1
      BY <1>1, <1>3, <2>1, <3>1
    <3> DEFINE a == n[i].size
    <3>3. a \in Nat /\ a > 1 /\ (w + i) + a <= w + M + 1
      BY <1>9, <2>1, <3>2
    <3>4. w \in Int /\ i \in Int /\ M \in Int
      BY <1>1, <1>3
    <3> HIDE DEF a
    <3>5. QED
      BY <3>3, <3>4
  <2>4. i + 1 \in 1 .. M /\ w + (i + 1) = (w + i) + 1
    BY <1>3, <2>3
  <2>4a. n[i + 1] = e[w + (i + 1)]
    BY <1>6, <2>4
  <2>5. QED
    BY <2>1, <2>2, <2>3, <2>4, <2>4a
<1>10. M > 0
  BY <1>3
<1>11. IsTree(n)
  BY <1>6, <1>7, <1>8, <1>9, <1>10 DEF IsTree
<1>12. w + e[w].size <= Len(e) + 1
  BY <1>3, <1>4 DEF L
<1>13. QED
  BY <1>6, <1>11, <1>12 DEF n, M
\* The first of a set of numbers.
LEMMA MinIsFirst ==
  ASSUME NEW S, S \subseteq Nat, S # {}
  PROVE  Min(S) \in S /\ \A y \in S : Min(S) <= y
<1>1. \E x \in S : \A y \in S : x <= y
  BY LeastNatural
<1>2. QED
  BY <1>1 DEF Min

\* Without a join a tree is a chain.
LEMMA ChainSizes ==
  ASSUME NEW e, IsTree(e), ~IsIn(e, "join")
  PROVE  \A i \in 1 .. Len(e) : e[i].size = Len(e) - i + 1
<1> DEFINE L == Len(e)
           T == {n \in 0 .. L : n > 0 => e[n].size = L - n + 1}
<1>1. e \in Seq(ErrNodes) /\ L \in Nat \ {0} /\ e[1].size = L /\ DOMAIN e = 1 .. L
  BY DEF IsTree
<1>2. \A i \in 1 .. L : e[i].kind # "join"
  BY <1>1 DEF IsIn
<1>3. \A i \in 1 .. L : e[i].size > 1 => i + 1 <= L /\ e[i + 1].size = e[i].size - 1
  BY <1>2 DEF IsTree
<1>4. 0 \in T
  BY <1>1
<1>5. ASSUME NEW n \in 0 .. L - 1, n \in T PROVE n + 1 \in T
  <2>1. n + 1 \in 0 .. L
    BY <1>1
  <2>2. CASE n = 0
    <3>1. e[n + 1].size = L - (n + 1) + 1
      BY <1>1, <2>2
    <3>2. QED
      BY <2>1, <3>1
  <2>3. CASE n # 0
    <3>1. n \in 1 .. L /\ e[n].size = L - n + 1 /\ L - n + 1 > 1
      BY <1>1, <1>5, <2>3
    <3>2. e[n + 1].size = e[n].size - 1
      BY <1>3, <3>1
    <3>3. e[n + 1].size = L - (n + 1) + 1
      BY <1>1, <3>1, <3>2
    <3>4. QED
      BY <2>1, <3>3
  <2>4. QED
    BY <2>2, <2>3
<1> HIDE DEF T, L
<1>6. 0 .. L \subseteq T
  BY <1>1, <1>4, <1>5, UpTo
<1>7. ASSUME NEW i \in 1 .. L PROVE e[i].size = L - i + 1
  <2>1. i \in T /\ i > 0
    BY <1>1, <1>6
  <2>2. QED
    BY <2>1 DEF T
<1>8. QED
  BY <1>7 DEF L

\* The first of a set of numbers that are not 0.
LEMMA FirstOfSet ==
  ASSUME NEW S, S \subseteq Nat \ {0}
  PROVE  /\ S = {} => FirstOf(S) = 0
         /\ S # {} => FirstOf(S) \in S /\ \A y \in S : FirstOf(S) <= y
         /\ FirstOf(S) = 0 => S = {}
BY MinIsFirst DEF FirstOf

\* The wrappers with status 404 among the last errors of a chain.
Wrapping404(e, lo) == {i \in lo .. Len(e) : IsWrapper(e[i]) /\ e[i].status = 404}

\* The first wrapper from lo on, and the wrappers with status 404.
LEMMA NextWrapper ==
  ASSUME NEW e \in Seq(ErrNodes), NEW lo \in 1 .. Len(e) + 1
  PROVE  LET w == FirstWrapper(e, lo, Len(e))
         IN  /\ w = 0 => Wrapping404(e, lo) = {}
             /\ w # 0 => /\ w \in lo .. Len(e) /\ w \in 1 .. Len(e) /\ IsWrapper(e[w])
                         /\ \A i \in lo .. Len(e) : IsWrapper(e[i]) => w <= i
                         /\ e[w].status = 404 => FirstOf(Wrapping404(e, lo)) = w
                         /\ e[w].status # 404 => Wrapping404(e, lo) = Wrapping404(e, w + 1)
<1> DEFINE L == Len(e)
           W == {i \in lo .. L : IsWrapper(e[i])}
           w == FirstOf(W)
<1>1. L \in Nat /\ W \subseteq Nat \ {0}
  OBVIOUS
<1>2. FirstWrapper(e, lo, Len(e)) = w
  BY DEF FirstWrapper
<1> HIDE DEF w
<1>3. /\ W = {} => w = 0
      /\ W # {} => w \in W /\ \A y \in W : w <= y
      /\ w = 0 => W = {}
  BY <1>1, FirstOfSet DEF w
<1>4. w = 0 => Wrapping404(e, lo) = {}
  BY <1>3 DEF Wrapping404
<1>5. ASSUME w # 0
      PROVE  /\ w \in lo .. L /\ w \in 1 .. L /\ IsWrapper(e[w])
             /\ \A i \in lo .. L : IsWrapper(e[i]) => w <= i
  BY <1>1, <1>3, <1>5
<1>6. ASSUME w # 0, e[w].status = 404 PROVE FirstOf(Wrapping404(e, lo)) = w
  <2>1. Wrapping404(e, lo) \subseteq Nat \ {0} /\ w \in Wrapping404(e, lo)
    BY <1>1, <1>5, <1>6 DEF Wrapping404
  <2>2. \A y \in Wrapping404(e, lo) : w <= y
    BY <1>5, <1>6 DEF Wrapping404
  <2> DEFINE f == FirstOf(Wrapping404(e, lo))
  <2>3. f \in Wrapping404(e, lo) /\ f <= w
    BY <2>1, FirstOfSet
  <2> HIDE DEF f
  <2>4. w <= f /\ f \in Nat /\ w \in Nat
    BY <2>1, <2>2, <2>3
  <2>5. QED
    BY <2>3, <2>4 DEF f
<1>7. ASSUME w # 0, e[w].status # 404 PROVE Wrapping404(e, lo) = Wrapping404(e, w + 1)
  <2>1. ASSUME NEW i \in Wrapping404(e, lo) PROVE i \in Wrapping404(e, w + 1)
    <3>1. i \in lo .. L /\ IsWrapper(e[i]) /\ e[i].status = 404
      BY DEF Wrapping404
    <3>2. w <= i /\ i # w
      BY <1>5, <1>7, <3>1
    <3>3. i \in w + 1 .. L
      BY <1>1, <1>5, <1>7, <3>1, <3>2
    <3>4. QED
      BY <3>1, <3>3 DEF Wrapping404
  <2>2. ASSUME NEW i \in Wrapping404(e, w + 1) PROVE i \in Wrapping404(e, lo)
    <3>1. i \in w + 1 .. L /\ IsWrapper(e[i]) /\ e[i].status = 404
      BY DEF Wrapping404
    <3>2. i \in lo .. L
      BY <1>1, <1>5, <1>7, <3>1
    <3>3. QED
      BY <3>1, <3>2 DEF Wrapping404
  <2>3. QED
    BY <2>1, <2>2
<1>8. QED
  BY <1>2, <1>4, <1>5, <1>6, <1>7

\* IsNotFount goes through all the wrappers of a chain.
LEMMA SearchedChain ==
  ASSUME NEW e, IsTree(e), ~IsIn(e, "join")
  PROVE  Searched(e)[AsWrapper(e)] # 0 <=> Wrapping404(e, 1) # {}
<1> DEFINE L == Len(e)
           next(i) == FirstWrapper(e, i + 1, i + e[i].size - 1)
           F(f) == [i \in 0 .. L |->
                      IF i = 0 \/ e[i].status = 404 THEN i
                      ELSE f[FirstWrapper(e, i + 1, i + e[i].size - 1)]]
           g == [i \in 0 .. L |->
                      IF i = 0 \/ e[i].status = 404 THEN i
                      ELSE FirstOf(Wrapping404(e, i + 1))]
           h == Searched(e)
<1>1. e \in Seq(ErrNodes) /\ L \in Nat \ {0}
  BY DEF IsTree
<1>2. \A i \in 1 .. L : e[i].size = L - i + 1
  BY ChainSizes
<1>3. h = CHOOSE f : f = F(f)
  BY DEF Searched
<1>4. ASSUME NEW i \in 1 .. L
      PROVE  /\ next(i) = FirstWrapper(e, i + 1, L) /\ i + 1 \in 1 .. L + 1
             /\ next(i) = 0 => Wrapping404(e, i + 1) = {}
             /\ next(i) # 0 => /\ next(i) \in i + 1 .. L
                               /\ e[next(i)].status = 404 => FirstOf(Wrapping404(e, i + 1)) = next(i)
                               /\ e[next(i)].status # 404 =>
                                    Wrapping404(e, i + 1) = Wrapping404(e, next(i) + 1)
  <2>1. i + e[i].size - 1 = L /\ i + 1 \in 1 .. L + 1
    BY <1>1, <1>2
  <2>2. next(i) = FirstWrapper(e, i + 1, L)
    BY <2>1
  <2> HIDE DEF next
  <2>3. QED
    BY <1>1, <2>1, <2>2, NextWrapper
<1>5. ASSUME NEW i \in 0 .. L PROVE g[i] = F(g)[i]
  <2>1. CASE i = 0 \/ e[i].status = 404
    BY <2>1
  <2>2. CASE i # 0 /\ e[i].status # 404
    <3>1. i \in 1 .. L
      BY <1>1, <2>2
    <3>2. g[i] = FirstOf(Wrapping404(e, i + 1)) /\ F(g)[i] = g[next(i)]
      BY <2>2
    <3>3. CASE next(i) = 0
      <4>1. Wrapping404(e, i + 1) = {}
        BY <1>4, <3>1, <3>3
      <4>2. FirstOf(Wrapping404(e, i + 1)) = 0
        BY <4>1 DEF FirstOf
      <4>3. g[0] = 0
        BY <1>1
      <4> HIDE DEF g, next
      <4>4. QED
        BY <3>2, <3>3, <4>2, <4>3
    <3>4. CASE next(i) # 0
      <4> DEFINE w == next(i)
      <4>1. /\ w \in i + 1 .. L
            /\ e[w].status = 404 => FirstOf(Wrapping404(e, i + 1)) = w
            /\ e[w].status # 404 => Wrapping404(e, i + 1) = Wrapping404(e, w + 1)
        BY <1>4, <3>1, <3>4
      <4> HIDE DEF w
      <4>2. w \in 0 .. L /\ w # 0
        BY <1>1, <3>1, <4>1
      <4>3. g[w] = IF e[w].status = 404 THEN w ELSE FirstOf(Wrapping404(e, w + 1))
        BY <4>2
      <4> HIDE DEF g
      <4>4. QED
        BY <3>2, <4>1, <4>3 DEF w
    <3>5. QED
      BY <3>3, <3>4
  <2>3. QED
    BY <2>1, <2>2
<1>6. g = F(g)
  BY <1>5
<1> HIDE DEF g
<1> DEFINE fits(f) == f = F(f)
<1>7. h = F(h)
  <2>1. h = (CHOOSE f : fits(f)) /\ fits(g)
    BY <1>3, <1>6
  <2> HIDE DEF fits, h
  <2>2. fits(h)
    BY <2>1
  <2>3. QED
    BY <2>2 DEF fits
<1> HIDE DEF h
<1>8. /\ h[0] = 0
      /\ \A i \in 1 .. L : h[i] = IF e[i].status = 404 THEN i ELSE h[next(i)]
  <2>1. h[0] = F(h)[0] /\ F(h)[0] = 0
    BY <1>1, <1>7
  <2>2. ASSUME NEW i \in 1 .. L
        PROVE  h[i] = IF e[i].status = 404 THEN i ELSE h[next(i)]
    <3>1. i \in 0 .. L /\ i # 0
      BY <1>1
    <3>2. h[i] = F(h)[i]
      BY <1>7, Zenon
    <3>3. F(h)[i] = IF e[i].status = 404 THEN i ELSE h[next(i)]
      BY <3>1
    <3>4. QED
      BY <3>2, <3>3, Zenon
  <2>3. QED
    BY <2>1, <2>2
<1> HIDE DEF next
<1> DEFINE P(i) == h[i] # 0 <=> e[i].status = 404 \/ Wrapping404(e, i + 1) # {}
           T == {n \in 0 .. L : \A i \in 1 .. L : L - n < i => P(i)}
<1>9. 0 \in T
  BY <1>1
<1>10. ASSUME NEW n \in 0 .. L - 1, n \in T PROVE n + 1 \in T
  <2>1. n + 1 \in 0 .. L /\ \A i \in 1 .. L : L - n < i => P(i)
    BY <1>1, <1>10
  <2>2. ASSUME NEW i \in 1 .. L, L - (n + 1) < i PROVE P(i)
    <3>1. CASE e[i].status = 404
      BY <1>8, <3>1
    <3>2. CASE e[i].status # 404 /\ next(i) = 0
      BY <1>4, <1>8, <3>2
    <3>3. CASE e[i].status # 404 /\ next(i) # 0
      <4> DEFINE w == next(i)
      <4>1. /\ w \in i + 1 .. L /\ h[i] = h[w]
            /\ e[w].status = 404 => FirstOf(Wrapping404(e, i + 1)) = w
            /\ e[w].status # 404 => Wrapping404(e, i + 1) = Wrapping404(e, w + 1)
        BY <1>4, <1>8, <3>3
      <4> HIDE DEF w
      <4>2. w \in 1 .. L /\ L - n < w
        BY <1>1, <2>2, <4>1
      <4>3. P(w)
        BY <2>1, <4>2
      <4>4. CASE e[w].status = 404
        <5>1. h[i] # 0
          BY <4>1, <4>3, <4>4
        <5>2. Wrapping404(e, i + 1) # {}
          BY <4>1, <4>2, <4>4 DEF FirstOf
        <5>3. QED
          BY <5>1, <5>2
      <4>5. CASE e[w].status # 404
        BY <3>3, <4>1, <4>3, <4>5
      <4>6. QED
        BY <4>4, <4>5
    <3>4. QED
      BY <3>1, <3>2, <3>3
  <2> HIDE DEF P
  <2>3. QED
    BY <2>1, <2>2
<1> HIDE DEF T
<1>11. 0 .. L \subseteq T
  BY <1>1, <1>9, <1>10, UpTo
<1>12. \A i \in 1 .. L : P(i)
  <2>1. L \in T
    BY <1>1, <1>11
  <2>2. \A i \in 1 .. L : L - L < i => P(i)
    BY <2>1 DEF T
  <2> HIDE DEF P
  <2>3. QED
    BY <1>1, <2>2
<1> DEFINE w == AsWrapper(e)
<1>13. w = FirstWrapper(e, 1, Len(e)) /\ 1 \in 1 .. Len(e) + 1
  BY <1>1 DEF AsWrapper
<1>14. /\ w = 0 => Wrapping404(e, 1) = {}
       /\ w # 0 => /\ w \in 1 .. Len(e)
                   /\ e[w].status = 404 => FirstOf(Wrapping404(e, 1)) = w
                   /\ e[w].status # 404 => Wrapping404(e, 1) = Wrapping404(e, w + 1)
  <2> HIDE DEF w
  <2>1. QED
    BY <1>1, <1>13, NextWrapper
<1> HIDE DEF w
<1>15. CASE w = 0
  BY <1>8, <1>14, <1>15 DEF w, h
<1>16. CASE w # 0 /\ e[w].status = 404
  <2>1. h[w] # 0
    BY <1>12, <1>14, <1>16
  <2>2. Wrapping404(e, 1) # {}
    BY <1>14, <1>16 DEF FirstOf
  <2>3. QED
    BY <2>1, <2>2 DEF w, h
<1>17. CASE w # 0 /\ e[w].status # 404
  <2>1. h[w] # 0 <=> Wrapping404(e, w + 1) # {}
    BY <1>12, <1>14, <1>17
  <2>2. QED
    BY <1>14, <1>17, <2>1 DEF w, h
<1>18. QED
  BY <1>15, <1>16, <1>17

\* A wrapper and a message above a tree.
LEMMA WrapperTree ==
  ASSUME NEW e, IsTree(e), NEW s \in Statuses \cup {0}, NEW c \in ErrCodes
  PROVE  IsTree(Wrapper(s, c, e)) /\ IsTree(Messaged(e))
<1>1. e \in Seq(ErrNodes) /\ Len(e) \in Nat \ {0}
  BY DEF IsTree
<1>2. /\ [kind |-> "errorWrapper", status |-> s, code |-> c, size |-> Len(e) + 1] \in ErrNodes
      /\ [kind |-> "message", status |-> 0, code |-> 0, size |-> Len(e) + 1] \in ErrNodes
  BY <1>1 DEF ErrNodes, ErrKinds, ErrCodes, IsWrapper
<1>3. QED
  BY <1>1, <1>2, NodeTree DEF Wrapper, Messaged

\* The errors that arise, and the ones that collect others.
LEMMA LeafTrees ==
  /\ \A e \in Leaves : IsTree(e)
  /\ \A s \in Statuses, c \in ErrCodes : IsTree(Collected(s, c))
<1>1. <<>> \in Seq(ErrNodes) /\ Len(<<>>) = 0
  OBVIOUS
<1>2. ASSUME NEW kind \in {"plain", "ErrRecordNotFound", "notFoundError"}
      PROVE  IsTree(Leaf(kind))
  <2>1. [kind |-> kind, status |-> 0, code |-> 0, size |-> Len(<<>>) + 1] \in ErrNodes
    BY <1>1 DEF ErrNodes, ErrKinds, ErrCodes, IsWrapper
  <2>2. QED
    BY <1>1, <2>1, NodeTree DEF Leaf
<1>3. ASSUME NEW s \in Statuses, NEW c \in ErrCodes PROVE IsTree(Collected(s, c))
  <2>1. [kind |-> "Errors", status |-> s, code |-> c, size |-> Len(<<>>) + 1] \in ErrNodes
    BY <1>1 DEF ErrNodes, ErrKinds, ErrCodes, IsWrapper
  <2>2. QED
    BY <1>1, <2>1, NodeTree DEF Collected
<1>4. IsTree(NotFoundError)
  <2> DEFINE l == Leaf("plain")
  <2>1. IsTree(l) /\ l \in Seq(ErrNodes) /\ Len(l) \in Nat \ {0}
    BY <1>2 DEF IsTree
  <2> HIDE DEF l
  <2>2. [kind |-> "NotFoundError", status |-> 404, code |-> 404, size |-> Len(l) + 1] \in ErrNodes
    BY <2>1, StatusAssumption DEF ErrNodes, ErrKinds, ErrCodes, IsWrapper
  <2>3. QED
    BY <2>1, <2>2, NodeTree DEF NotFoundError, l
<1>5. \A s \in Statuses, g \in BOOLEAN : IsTree(Wrapper(s, CodeOf(s, g), Leaf("plain")))
  BY <1>2, WrapperTree DEF CodeOf, ErrCodes
<1>6. QED
  BY <1>2, <1>3, <1>4, <1>5 DEF Leaves

\* What errors.As finds in a tree.
LEMMA FirstFound ==
  ASSUME NEW e, IsTree(e)
  PROVE  /\ AsWrapper(e) # 0 =>
              /\ AsWrapper(e) \in 1 .. Len(e) /\ IsWrapper(e[AsWrapper(e)])
              /\ e[AsWrapper(e)].size > 1 /\ e[AsWrapper(e)].kind # "join"
              /\ \A i \in 1 .. Len(e) : IsWrapper(e[i]) => AsWrapper(e) <= i
         /\ AsWrapper(e) = 0 => \A i \in 1 .. Len(e) : ~IsWrapper(e[i])
         /\ AsError(e) # 0 =>
              /\ AsError(e) \in 1 .. Len(e) /\ IsError(e[AsError(e)])
              /\ \A i \in 1 .. Len(e) : IsError(e[i]) => AsError(e) <= i
         /\ AsError(e) = 0 => \A i \in 1 .. Len(e) : ~IsError(e[i])
         /\ \A i \in 1 .. Len(e) : e[i] \in ErrNodes
<1> DEFINE L == Len(e)
           W == {i \in 1 .. L : IsWrapper(e[i])}
           E == {i \in 1 .. L : IsError(e[i])}
<1>1. e \in Seq(ErrNodes) /\ L \in Nat /\ DOMAIN e = 1 .. L /\ \A i \in 1 .. L : e[i] \in ErrNodes
  BY DEF IsTree
<1>2. AsWrapper(e) = FirstOf(W) /\ AsError(e) = FirstOf(E)
  BY <1>1 DEF AsWrapper, AsError, FirstWrapper
<1>3. W \subseteq Nat \ {0} /\ E \subseteq Nat \ {0}
  BY <1>1
<1>4. /\ AsWrapper(e) # 0 => AsWrapper(e) \in W /\ \A i \in W : AsWrapper(e) <= i
      /\ AsWrapper(e) = 0 => W = {}
      /\ AsError(e) # 0 => AsError(e) \in E /\ \A i \in E : AsError(e) <= i
      /\ AsError(e) = 0 => E = {}
  <2> HIDE DEF W, E
  <2>1. /\ FirstOf(W) # 0 => FirstOf(W) \in W /\ \A i \in W : FirstOf(W) <= i
        /\ FirstOf(W) = 0 => W = {}
    BY <1>3, FirstOfSet
  <2>2. /\ FirstOf(E) # 0 => FirstOf(E) \in E /\ \A i \in E : FirstOf(E) <= i
        /\ FirstOf(E) = 0 => E = {}
    BY <1>3, FirstOfSet
  <2>3. QED
    BY <1>2, <2>1, <2>2
<1>5. \A n \in ErrNodes : IsWrapper(n) => n.size > 1 /\ n.kind # "join"
  BY DEF ErrNodes, IsWrapper
<1>6. QED
  BY <1>1, <1>4, <1>5

\* WithMessage of a tree is a tree.
LEMMA MessageTree ==
  ASSUME NEW e, IsTree(e)
  PROVE  IsTree(WithMessage(e))
<1> DEFINE w == AsWrapper(e)
           a == AsError(e)
<1>1. \A n \in ErrNodes : n.status \in Statuses \cup {0} /\ n.code \in ErrCodes
  BY DEF ErrNodes
<1>2. IsTree(Messaged(e))
  BY WrapperTree DEF ErrCodes
<1>3. \A s \in Statuses \cup {0}, c \in ErrCodes : IsTree(Wrapper(s, c, Messaged(e)))
  BY <1>2, WrapperTree
<1>4. CASE w # 0
  <2>1. w \in 1 .. Len(e) /\ e[w].size > 1 /\ e[w].kind # "join" /\ e[w] \in ErrNodes
    BY <1>4, FirstFound
  <2>2. IsTree(Below(e, w))
    BY <2>1, BelowTree
  <2>3. IsTree(Messaged(Below(e, w)))
    BY <2>2, WrapperTree DEF ErrCodes
  <2>4. IsTree(Wrapper(e[w].status, e[w].code, Messaged(Below(e, w))))
    BY <1>1, <2>1, <2>3, WrapperTree
  <2>5. QED
    BY <1>4, <2>4 DEF WithMessage
<1>5. CASE w = 0 /\ a # 0
  <2>1. e[a] \in ErrNodes
    BY <1>5, FirstFound
  <2>2. QED
    BY <1>1, <1>3, <1>5, <2>1 DEF WithMessage
<1>6. CASE w = 0 /\ a = 0
  <2>1. 404 \in Statuses /\ 404 \in ErrCodes
    BY StatusAssumption DEF ErrCodes
  <2>2. QED
    BY <1>2, <1>3, <1>6, <2>1 DEF WithMessage
<1>7. QED
  BY <1>4, <1>5, <1>6

\* Every step leaves a tree, or no error.
LEMMA ErrStep == ErrInv /\ [ErrNext]_errVars => ErrInv'
<1> SUFFICES ASSUME ErrInv, [ErrNext]_errVars PROVE ErrInv'
  OBVIOUS
<1>1. \A s \in Statuses, g \in BOOLEAN : CodeOf(s, g) \in ErrCodes
  BY DEF CodeOf, ErrCodes
<1>2. CASE ErrHandled
  BY <1>2 DEF ErrHandled, ErrInv
<1>3. CASE ErrArises
  BY <1>3, LeafTrees DEF ErrArises, ErrInv
<1>4. CASE ErrWithMessage
  BY <1>4, MessageTree DEF ErrWithMessage, ErrInv
<1>5. CASE ErrWrapped
  <2>1. IsTree(err) /\ err' = Messaged(err)
    BY <1>5 DEF ErrWrapped, ErrInv
  <2>2. IsTree(Messaged(err))
    BY <2>1, WrapperTree DEF ErrCodes
  <2>3. QED
    BY <2>1, <2>2 DEF ErrInv
<1>6. CASE ErrJoin
  <2>1. PICK e \in Leaves : err' \in {Joined(err, e), Joined(e, err)}
    BY <1>6 DEF ErrJoin
  <2>2. IsTree(err) /\ IsTree(e)
    BY <1>6, LeafTrees DEF ErrJoin, ErrInv
  <2>3. IsTree(Joined(err, e)) /\ IsTree(Joined(e, err))
    BY <2>2, JoinTree
  <2>4. QED
    BY <2>1, <2>3 DEF ErrInv
<1>7. ASSUME NEW s \in Statuses, NEW g \in BOOLEAN,
             ErrWith(s, g) \/ ErrWithMessageText(s, g) \/ ErrCollect(s, g)
      PROVE  ErrInv'
  <2>1. IsTree(err) /\ CodeOf(s, g) \in ErrCodes
    BY <1>1, <1>7 DEF ErrInv, ErrWith, ErrWithMessageText, ErrCollect
  <2>2. CASE ErrWith(s, g)
    BY <2>1, <2>2, WrapperTree DEF ErrInv, ErrWith
  <2>3. CASE ErrWithMessageText(s, g)
    <3>1. IsTree(Messaged(err))
      BY <2>1, WrapperTree
    <3>2. QED
      BY <2>1, <2>3, <3>1, WrapperTree DEF ErrInv, ErrWithMessageText
  <2>4. CASE ErrCollect(s, g)
    BY <2>1, <2>4, LeafTrees DEF ErrInv, ErrCollect
  <2>5. QED
    BY <1>7, <2>2, <2>3, <2>4
<1>8. CASE UNCHANGED errVars
  BY <1>8 DEF errVars, ErrInv
<1>9. QED
  BY <1>2, <1>3, <1>4, <1>5, <1>6, <1>7, <1>8 DEF ErrNext

\* n is the list of r above e.
StandsAbove(n, r, e) ==
  Len(n) = Len(e) + 1 /\ n[1] = r /\ \A i \in 2 .. Len(e) + 1 : n[i] = e[i - 1]

\* Node puts an error above a list.
LEMMA NodeAbove ==
  ASSUME NEW e \in Seq(ErrNodes), NEW kind, NEW status, NEW code
  PROVE  StandsAbove(Node(kind, status, code, e),
                     [kind |-> kind, status |-> status, code |-> code, size |-> Len(e) + 1], e)
BY NodeList DEF StandsAbove

\* The lists of a message, and of a wrapper around a message.
LEMMA AboveList ==
  ASSUME NEW e, IsTree(e), NEW s \in Statuses \cup {0}, NEW c \in ErrCodes
  PROVE  /\ LET m == Messaged(e)
            IN  /\ Len(m) = Len(e) + 1 /\ m[1].kind = "message"
                /\ \A i \in 1 .. Len(e) : m[i + 1] = e[i]
         /\ LET m == Wrapper(s, c, Messaged(e))
            IN  /\ Len(m) = Len(e) + 2 /\ m[1].kind = "errorWrapper"
                /\ m[1].status = s /\ m[1].code = c /\ m[2].kind = "message"
                /\ \A i \in 1 .. Len(e) : m[i + 2] = e[i]
<1> DEFINE m == Messaged(e)
           x == Wrapper(s, c, m)
<1>1. e \in Seq(ErrNodes) /\ Len(e) \in Nat
  BY DEF IsTree
<1>2. IsTree(m)
  BY WrapperTree
<1>3. m \in Seq(ErrNodes)
  BY <1>2 DEF IsTree
<1>4. /\ Len(m) = Len(e) + 1 /\ m[1].kind = "message"
      /\ \A i \in 2 .. Len(e) + 1 : m[i] = e[i - 1]
  <2> DEFINE n == Node("message", 0, 0, e)
             r == [kind |-> "message", status |-> 0, code |-> 0, size |-> Len(e) + 1]
  <2>1. n[1] = r /\ Len(n) = Len(e) + 1 /\ n[1].kind = "message"
        /\ \A i \in 2 .. Len(e) + 1 : n[i] = e[i - 1]
    <3>1. /\ n[1] = r /\ Len(n) = Len(e) + 1
          /\ \A i \in 2 .. Len(e) + 1 : n[i] = e[i - 1]
      BY <1>1, NodeAbove DEF StandsAbove
    <3>2. r.kind = "message"
      OBVIOUS
    <3> HIDE DEF n, r
    <3>3. QED
      BY <3>1, <3>2
  <2>2. m = n
    BY DEF Messaged
  <2> HIDE DEF m, n
  <2>3. QED
    BY <2>1, <2>2
<1>5. \A i \in 1 .. Len(e) : m[i + 1] = e[i]
  <2> HIDE DEF m
  <2> SUFFICES ASSUME NEW i \in 1 .. Len(e) PROVE m[i + 1] = e[i]
    OBVIOUS
  <2>1. i + 1 \in 2 .. Len(e) + 1 /\ (i + 1) - 1 = i
    BY <1>1
  <2>2. QED
    BY <1>4, <2>1
<1> HIDE DEF m
<1>6. /\ Len(x) = Len(m) + 1 /\ x[1].kind = "errorWrapper"
      /\ x[1].status = s /\ x[1].code = c
      /\ \A i \in 2 .. Len(m) + 1 : x[i] = m[i - 1]
  <2> DEFINE n == Node("errorWrapper", s, c, m)
             r == [kind |-> "errorWrapper", status |-> s, code |-> c, size |-> Len(m) + 1]
  <2>1. /\ Len(n) = Len(m) + 1 /\ n[1].kind = "errorWrapper"
        /\ n[1].status = s /\ n[1].code = c
        /\ \A i \in 2 .. Len(m) + 1 : n[i] = m[i - 1]
    <3>1. /\ n[1] = r /\ Len(n) = Len(m) + 1
          /\ \A i \in 2 .. Len(m) + 1 : n[i] = m[i - 1]
      BY <1>3, NodeAbove DEF StandsAbove
    <3>2. r.kind = "errorWrapper" /\ r.status = s /\ r.code = c
      OBVIOUS
    <3> HIDE DEF n, r
    <3>3. QED
      BY <3>1, <3>2
  <2>2. x = n
    BY DEF Wrapper
  <2> HIDE DEF x, n
  <2>3. QED
    BY <2>1, <2>2
<1> HIDE DEF x
<1>7. x[2] = m[1] /\ Len(x) = Len(e) + 2
  BY <1>1, <1>4, <1>6
<1>8. \A i \in 1 .. Len(e) : x[i + 2] = e[i]
  <2> SUFFICES ASSUME NEW i \in 1 .. Len(e) PROVE x[i + 2] = e[i]
    OBVIOUS
  <2>1. i + 2 \in 2 .. Len(m) + 1 /\ (i + 2) - 1 = i + 1
    BY <1>1, <1>4
  <2>2. x[i + 2] = m[i + 1]
    BY <1>6, <2>1
  <2>3. QED
    BY <1>5, <2>2
<1>9. QED
  BY <1>4, <1>5, <1>6, <1>7, <1>8 DEF x, m

\* m consists of k errors that are no joins and of the errors of e after w.
Carries(m, k, e, w) ==
  /\ Len(m) = k + (Len(e) - w)
  /\ \A j \in 1 .. k : m[j].kind # "join"
  /\ \A i \in w + 1 .. Len(e) : m[k + (i - w)] = e[i]

\* What stood after w is still found.
LEMMA CarriedOn ==
  ASSUME NEW e, IsTree(e), ~IsIn(e, "join"), NEW m, IsTree(m),
         NEW w \in 0 .. Len(e) - 1, NEW k \in 1 .. 2, Carries(m, k, e, w)
  PROVE  /\ ~IsIn(m, "join")
         /\ m[Len(m)].kind = e[Len(e)].kind
         /\ \A i \in w + 1 .. Len(e) :
              e[i].kind \in Sentinels \/ i \in Wrapping404(e, 1) => IsNotFount(m)
<1>1. /\ e \in Seq(ErrNodes) /\ Len(e) \in Nat \ {0} /\ DOMAIN e = 1 .. Len(e)
      /\ m \in Seq(ErrNodes) /\ Len(m) \in Nat \ {0} /\ DOMAIN m = 1 .. Len(m)
  BY DEF IsTree
<1>2. /\ Len(m) = k + (Len(e) - w)
      /\ \A j \in 1 .. k : m[j].kind # "join"
      /\ \A i \in w + 1 .. Len(e) : m[k + (i - w)] = e[i]
  BY DEF Carries
<1>3. \A i \in w + 1 .. Len(e) : k + (i - w) \in 1 .. Len(m) /\ i \in 1 .. Len(e)
  BY <1>1, <1>2
<1>4. ~IsIn(m, "join")
  <2> SUFFICES ASSUME NEW j \in 1 .. Len(m) PROVE m[j].kind # "join"
    BY <1>1 DEF IsIn
  <2>1. CASE j \in 1 .. k
    BY <1>2, <2>1
  <2>2. CASE j \notin 1 .. k
    <3>1. j - k + w \in w + 1 .. Len(e) /\ k + ((j - k + w) - w) = j
      BY <1>1, <1>2, <2>2
    <3>2. m[j] = e[j - k + w] /\ j - k + w \in 1 .. Len(e)
      BY <1>2, <1>3, <3>1
    <3>3. QED
      BY <1>1, <3>2 DEF IsIn
  <2>3. QED
    BY <2>1, <2>2
<1>5. m[Len(m)] = e[Len(e)]
  <2>1. Len(e) \in w + 1 .. Len(e)
    BY <1>1
  <2>2. QED
    BY <1>2, <2>1
<1>6. ASSUME NEW i \in w + 1 .. Len(e), e[i].kind \in Sentinels \/ i \in Wrapping404(e, 1)
      PROVE  IsNotFount(m)
  <2> DEFINE j == k + (i - w)
  <2>1. m[j] = e[i] /\ j \in 1 .. Len(m)
    BY <1>2, <1>3
  <2> HIDE DEF j
  <2>2. CASE e[i].kind \in Sentinels
    <3>1. IsIn(m, e[i].kind)
      BY <1>1, <2>1 DEF IsIn
    <3>2. QED
      BY <2>2, <3>1 DEF IsNotFount
  <2>3. CASE i \in Wrapping404(e, 1)
    <3>1. j \in Wrapping404(m, 1)
      BY <2>1, <2>3 DEF Wrapping404
    <3>2. Searched(m)[AsWrapper(m)] # 0
      BY <1>4, <3>1, SearchedChain
    <3>3. QED
      BY <3>2 DEF IsNotFount
  <2>4. QED
    BY <1>6, <2>2, <2>3
<1>7. QED
  BY <1>4, <1>5, <1>6

\* The error of a chain that makes IsNotFount true.
LEMMA NotFountWhere ==
  ASSUME NEW e, IsTree(e), ~IsIn(e, "join"), IsNotFount(e)
  PROVE  \E i \in 1 .. Len(e) : e[i].kind \in Sentinels \/ i \in Wrapping404(e, 1)
<1>1. DOMAIN e = 1 .. Len(e)
  BY DEF IsTree
<1>2. CASE \E k \in Sentinels : IsIn(e, k)
  BY <1>1, <1>2 DEF IsIn
<1>3. CASE Searched(e)[AsWrapper(e)] # 0
  <2>1. Wrapping404(e, 1) # {}
    BY <1>3, SearchedChain
  <2>2. QED
    BY <2>1 DEF Wrapping404
<1>4. QED
  BY <1>2, <1>3 DEF IsNotFount

\* WithMessage of a chain without a wrapper.
LEMMA MessageUnwrapped ==
  ASSUME NEW e, IsTree(e), ~IsIn(e, "join"), AsWrapper(e) = 0
  PROVE  LET m == WithMessage(e)
             a == AsError(e)
             b == AsError(m)
         IN  /\ a # 0 => /\ b # 0
                         /\ m[b].status = e[a].status /\ m[b].code = e[a].code
             /\ m[Len(m)].kind = e[Len(e)].kind
             /\ IsNotFount(e) => IsNotFount(m)
<1> DEFINE m == WithMessage(e)
           a == AsError(e)
           b == AsError(m)
<1>1. IsTree(m)
  BY MessageTree
<1>2. Len(e) \in Nat \ {0} /\ 0 \in 0 .. Len(e) - 1 /\ e \in Seq(ErrNodes)
  BY DEF IsTree
<1>3. \A s \in Statuses \cup {0}, c \in ErrCodes :
        /\ Carries(Messaged(e), 1, e, 0)
        /\ Carries(Wrapper(s, c, Messaged(e)), 2, e, 0)
  <2> SUFFICES ASSUME NEW s \in Statuses \cup {0}, NEW c \in ErrCodes
               PROVE  /\ Carries(Messaged(e), 1, e, 0)
                      /\ Carries(Wrapper(s, c, Messaged(e)), 2, e, 0)
    OBVIOUS
  <2> DEFINE x == Messaged(e)
             y == Wrapper(s, c, Messaged(e))
  <2>1. /\ Len(x) = Len(e) + 1 /\ x[1].kind = "message"
        /\ \A i \in 1 .. Len(e) : x[i + 1] = e[i]
        /\ Len(y) = Len(e) + 2 /\ y[1].kind = "errorWrapper" /\ y[2].kind = "message"
        /\ \A i \in 1 .. Len(e) : y[i + 2] = e[i]
    BY AboveList
  <2> HIDE DEF x, y
  <2>2. Carries(x, 1, e, 0)
    BY <1>2, <2>1 DEF Carries
  <2>3. Carries(y, 2, e, 0)
    BY <1>2, <2>1 DEF Carries
  <2>4. QED
    BY <2>2, <2>3 DEF x, y
<1>4. a # 0 => /\ a \in 1 .. Len(e) /\ e[a].status \in Statuses \cup {0} /\ e[a].code \in ErrCodes
               /\ m = Wrapper(e[a].status, e[a].code, Messaged(e))
  <2>1. a # 0 => a \in 1 .. Len(e) /\ e[a] \in ErrNodes
    BY FirstFound
  <2>2. QED
    BY <2>1 DEF WithMessage, ErrNodes
<1>5. Carries(m, 1, e, 0) \/ Carries(m, 2, e, 0)
  <2>1. 404 \in Statuses /\ 404 \in ErrCodes
    BY StatusAssumption DEF ErrCodes
  <2>2. CASE a # 0
    BY <1>3, <1>4, <2>2
  <2>3. CASE a = 0
    <3>1. m = Wrapper(404, 404, Messaged(e)) \/ m = Messaged(e)
      BY <2>3 DEF WithMessage
    <3>2. QED
      BY <1>3, <2>1, <3>1
  <2>4. QED
    BY <2>2, <2>3
<1> HIDE DEF m
<1>6. PICK k \in 1 .. 2 : Carries(m, k, e, 0)
  BY <1>5
<1>7. /\ m[Len(m)].kind = e[Len(e)].kind
      /\ \A i \in 0 + 1 .. Len(e) :
           e[i].kind \in Sentinels \/ i \in Wrapping404(e, 1) => IsNotFount(m)
  BY <1>1, <1>2, <1>6, CarriedOn
<1>8. IsNotFount(e) => IsNotFount(m)
  BY <1>7, NotFountWhere
<1>9. ASSUME a # 0 PROVE b # 0 /\ m[b].status = e[a].status /\ m[b].code = e[a].code
  <2>1. /\ m[1].kind = "errorWrapper" /\ m[1].status = e[a].status /\ m[1].code = e[a].code
        /\ Len(m) = Len(e) + 2
    BY <1>4, <1>9, AboveList
  <2>2. IsError(m[1]) /\ 1 \in 1 .. Len(m)
    BY <1>2, <2>1 DEF IsError, IsWrapper
  <2>3. b # 0 /\ b \in 1 .. Len(m) /\ b <= 1
    BY <1>1, <2>2, FirstFound
  <2>4. b = 1
    BY <2>3
  <2>5. QED
    BY <2>1, <2>4
<1>10. QED
  BY <1>7, <1>8, <1>9 DEF m

\* WithMessage of a chain with a wrapper.
LEMMA MessageRewrapped ==
  ASSUME NEW e, IsTree(e), ~IsIn(e, "join"), AsWrapper(e) # 0
  PROVE  LET m == WithMessage(e)
             a == AsError(e)
             b == AsError(m)
         IN  /\ a # 0 => /\ b # 0
                         /\ m[b].status = e[a].status /\ m[b].code = e[a].code
             /\ m[Len(m)].kind = e[Len(e)].kind
             /\ IsNotFount(e) => IsNotFount(m)
<1> DEFINE m == WithMessage(e)
           a == AsError(e)
           b == AsError(m)
           w == AsWrapper(e)
           x == Below(e, w)
<1>1. IsTree(m)
  BY MessageTree
<1>2. Len(e) \in Nat \ {0} /\ e \in Seq(ErrNodes)
  BY DEF IsTree
<1>3. /\ w \in 1 .. Len(e) /\ IsWrapper(e[w]) /\ e[w].size > 1 /\ e[w].kind # "join"
      /\ \A i \in 1 .. Len(e) : IsWrapper(e[i]) => w <= i
      /\ \A i \in 1 .. Len(e) : e[i] \in ErrNodes
  BY FirstFound
<1>4. \A i \in 1 .. Len(e) : e[i].size = Len(e) - i + 1
  BY ChainSizes
<1>5. w < Len(e) /\ e[w].size - 1 = Len(e) - w /\ w \in 0 .. Len(e) - 1
  BY <1>2, <1>3, <1>4
<1>6. IsTree(x) /\ Len(x) = e[w].size - 1 /\ \A i \in 1 .. e[w].size - 1 : x[i] = e[w + i]
  BY <1>3, BelowTree
<1>7. m = Wrapper(e[w].status, e[w].code, Messaged(x))
  BY DEF WithMessage
<1>8. e[w].status \in Statuses \cup {0} /\ e[w].code \in ErrCodes
  BY <1>3 DEF ErrNodes
<1> HIDE DEF w, m, x
<1>9. /\ Len(m) = Len(x) + 2 /\ m[1].kind = "errorWrapper" /\ m[2].kind = "message"
      /\ m[1].status = e[w].status /\ m[1].code = e[w].code
      /\ \A i \in 1 .. Len(x) : m[i + 2] = x[i]
  <2> DEFINE s == e[w].status
             c == e[w].code
  <2>1. s \in Statuses \cup {0} /\ c \in ErrCodes /\ m = Wrapper(s, c, Messaged(x))
    BY <1>7, <1>8
  <2> HIDE DEF s, c
  <2> DEFINE y == Wrapper(s, c, Messaged(x))
  <2>2. /\ Len(y) = Len(x) + 2 /\ y[1].kind = "errorWrapper" /\ y[2].kind = "message"
        /\ y[1].status = s /\ y[1].code = c
        /\ \A i \in 1 .. Len(x) : y[i + 2] = x[i]
    <3>1. IsTree(x) /\ s \in Statuses \cup {0} /\ c \in ErrCodes
      BY <1>6, <2>1
    <3> HIDE DEF y
    <3>2. QED
      BY <3>1, AboveList DEF y
  <2>3. m = y
    BY <2>1
  <2> HIDE DEF y
  <2>4. QED
    BY <2>2, <2>3 DEF s, c
<1>10. Carries(m, 2, e, w)
  <2>1. Len(m) = 2 + (Len(e) - w)
    BY <1>2, <1>3, <1>5, <1>6, <1>9
  <2>2. \A j \in 1 .. 2 : m[j].kind # "join"
    BY <1>9
  <2>3. ASSUME NEW i \in w + 1 .. Len(e) PROVE m[2 + (i - w)] = e[i]
    <3>1. i - w \in 1 .. Len(e) - w /\ w + (i - w) = i
      BY <1>2, <1>3
    <3>1a. i - w \in 1 .. Len(x) /\ i - w \in 1 .. e[w].size - 1
      BY <1>5, <1>6, <3>1
    <3>2. m[(i - w) + 2] = e[i]
      BY <1>6, <1>9, <3>1, <3>1a
    <3>3. (i - w) + 2 = 2 + (i - w)
      BY <1>2, <1>3
    <3>4. QED
      BY <3>2, <3>3
  <2>4. QED
    BY <2>1, <2>2, <2>3 DEF Carries
<1>11. /\ ~IsIn(m, "join")
       /\ m[Len(m)].kind = e[Len(e)].kind
       /\ \A i \in w + 1 .. Len(e) :
            e[i].kind \in Sentinels \/ i \in Wrapping404(e, 1) => IsNotFount(m)
  BY <1>1, <1>5, <1>10, CarriedOn
<1>12. \A i \in 1 .. Len(e) :
         e[i].kind \in {"ErrRecordNotFound", "notFoundError", "Errors"} => i = Len(e)
  <2> SUFFICES ASSUME NEW i \in 1 .. Len(e),
                      e[i].kind \in {"ErrRecordNotFound", "notFoundError", "Errors"}
               PROVE  i = Len(e)
    OBVIOUS
  <2>1. e[i].size = 1
    BY <1>3 DEF ErrNodes
  <2>2. QED
    BY <1>2, <1>4, <2>1
<1>13. e[w].status = 404 => IsNotFount(m)
  <2> SUFFICES ASSUME e[w].status = 404 PROVE IsNotFount(m)
    OBVIOUS
  <2>1. 1 \in Wrapping404(m, 1)
    <3>1. 1 \in 1 .. Len(m)
      BY <1>2, <1>3, <1>5, <1>6, <1>9
    <3>2. QED
      BY <1>9, <3>1 DEF Wrapping404, IsWrapper
  <2>2. QED
    BY <1>1, <1>11, <2>1, SearchedChain DEF IsNotFount
<1>14. IsNotFount(e) => IsNotFount(m)
  <2> SUFFICES ASSUME IsNotFount(e) PROVE IsNotFount(m)
    OBVIOUS
  <2>1. PICK i \in 1 .. Len(e) : e[i].kind \in Sentinels \/ i \in Wrapping404(e, 1)
    BY NotFountWhere
  <2>2. CASE i \in w + 1 .. Len(e)
    BY <1>11, <2>1, <2>2
  <2>3. CASE i \notin w + 1 .. Len(e)
    <3>1. i <= w /\ i # Len(e)
      BY <1>2, <1>3, <1>5, <2>3
    <3>2. e[i].kind = "NotFoundError" \/ i \in Wrapping404(e, 1)
      BY <1>12, <2>1, <3>1 DEF Sentinels
    <3>3. IsWrapper(e[i]) /\ e[i].status = 404
      BY <1>3, <3>2 DEF ErrNodes, IsWrapper, Wrapping404
    <3>4. i = w
      BY <1>2, <1>3, <3>1, <3>3
    <3>5. QED
      BY <1>13, <3>3, <3>4
  <2>4. QED
    BY <2>2, <2>3
<1>15. a = w
  <2>1. IsError(e[w])
    BY <1>3 DEF IsError
  <2>2. a # 0 /\ a \in 1 .. Len(e) /\ IsError(e[a]) /\ a <= w
    BY <1>3, <2>1, FirstFound
  <2> HIDE DEF a
  <2>3. e[a].kind # "Errors"
    BY <1>2, <1>3, <1>5, <1>12, <2>2
  <2>4. IsWrapper(e[a])
    BY <2>2, <2>3 DEF IsError
  <2>5. w <= a
    BY <1>3, <2>2, <2>4
  <2>6. QED
    BY <1>2, <1>3, <2>2, <2>5
<1>16. b # 0 /\ m[b].status = e[a].status /\ m[b].code = e[a].code
  <2>1. IsError(m[1]) /\ 1 \in 1 .. Len(m)
    BY <1>2, <1>3, <1>5, <1>6, <1>9 DEF IsError, IsWrapper
  <2>2. b # 0 /\ b \in 1 .. Len(m) /\ b <= 1
    BY <1>1, <2>1, FirstFound
  <2>3. b = 1
    BY <2>2
  <2>4. QED
    BY <1>9, <1>15, <2>3
<1>17. QED
  BY <1>11, <1>14, <1>16 DEF m

\* WithMessage keeps the status and code that errors.As finds, the cause and
\* what IsNotFount says of every error that is not joined, however it was
\* wrapped, annotated and collected, for any statuses.
THEOREM MessageKeeps == ErrSpec => []MessageKeepsMeaning
<1>1. ErrInit => ErrInv
  BY DEF ErrInit, ErrInv
<1>2. ErrInv => MessageKeepsMeaning
  <2> SUFFICES ASSUME ErrInv, err # <<>>, ~IsIn(err, "join")
               PROVE  LET m == WithMessage(err)
                          a == AsError(err)
                          b == AsError(m)
                      IN  /\ a # 0 => /\ b # 0
                                      /\ m[b].status = err[a].status
                                      /\ m[b].code = err[a].code
                          /\ m[Len(m)].kind = err[Len(err)].kind
                          /\ IsNotFount(err) => IsNotFount(m)
    BY DEF MessageKeepsMeaning
  <2>1. IsTree(err)
    BY DEF ErrInv
  <2>2. CASE AsWrapper(err) = 0
    BY <2>1, <2>2, MessageUnwrapped
  <2>3. CASE AsWrapper(err) # 0
    BY <2>1, <2>3, MessageRewrapped
  <2>4. QED
    BY <2>2, <2>3
<1>3. QED
  BY <1>1, <1>2, ErrStep, PTL DEF ErrSpec
=============================================================================
