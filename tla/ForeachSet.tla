------------------------------ MODULE ForeachSet ------------------------------
(***************************************************************************)
(* ForeachSet of clients/redis/redis.go: SCARD, then SSCAN page by page,   *)
(* calling f for every member.                                             *)
(*                                                                         *)
(* The server is external: it walks through the members in an order of its *)
(* own, 1 .. size, the cursor is the number of members it has walked over, *)
(* and 0 again at the end.  COUNT is a hint: a page has any number of      *)
(* members, none included.                                                 *)
(***************************************************************************)
EXTENDS Naturals

CONSTANTS
  MaxMembers,    \* the largest set
  PageSizes      \* the page sizes callers ask for; 0 asks for the default

DefaultPageSize == 100

ASSUME PageAssumption == MaxMembers \in Nat /\ PageSizes \subseteq Nat

VARIABLE scan   \* the call of ForeachSet

scanVars == <<scan>>

\* A call on a set of n members with pages of s, from cursor c.  next .. last
\* are the members of the page for which f is still to be called, got is
\* len(ret).  visited, stopped and short are auxiliary: the members f was
\* called for, whether f has returned ErrStopLoop, and whether a page before
\* the last one had fewer than pageSize members.
Called(pc, n, s, c, res) ==
  [pc |-> pc, size |-> n, pageSize |-> IF s = 0 THEN DefaultPageSize ELSE s,
   from |-> c, cursor |-> c, next |-> 1, last |-> 0, got |-> 0, ctxDone |-> FALSE,
   result |-> res, visited |-> {}, stopped |-> FALSE, short |-> FALSE]

Returned(c, res) == [c EXCEPT !.pc = "returned", !.result = res]

FInit == scan = Called("idle", 0, 0, 0, "none")

\* SCARD fails, or the set is empty, or the scan begins, at 0 or at a cursor
\* the server has given before.
ForeachCall(n, s, c) ==
  /\ scan.pc \in {"idle", "returned"}
  /\ c = 0 \/ c < n
  /\ \/ scan' = Called("returned", n, s, c, "error")
     \/ n = 0 /\ scan' = Called("returned", n, s, c, "nil")
     \/ n > 0 /\ scan' = Called("scan", n, s, c, "none")

\* SSCAN: a page of m members.
SScan(m) ==
  LET end == scan.cursor + m
  IN  /\ scan.pc = "scan" /\ ~scan.ctxDone
      /\ end <= scan.size
      /\ scan' = [scan EXCEPT
           !.pc = "call", !.next = scan.cursor + 1, !.last = end, !.got = m,
           !.cursor = IF end = scan.size THEN 0 ELSE end,
           !.short = @ \/ (m < scan.pageSize /\ end # scan.size)]

SScanFails ==
  /\ scan.pc = "scan" /\ ~scan.ctxDone
  /\ scan' = Returned(scan, "error")

\* f is called for the next member of the page and returns nil, ErrStopLoop,
\* which leaves the loop over the page, or another error.
CallF ==
  LET seen == [scan EXCEPT !.visited = @ \cup {scan.next}]
  IN  /\ scan.pc = "call" /\ scan.next <= scan.last
      /\ \/ scan' = [seen EXCEPT !.next = @ + 1]
         \/ scan' = [seen EXCEPT !.next = scan.last + 1, !.stopped = TRUE]
         \/ scan' = Returned(seen, "error")

\* Mutant: a page of just the size asked for also ends the scan.
PageDoneEarly ==
  /\ scan.pc = "call" /\ scan.next > scan.last
  /\ scan' = IF scan.got <= scan.pageSize THEN Returned(scan, "nil")
             ELSE [scan EXCEPT !.pc = "scan"]

\* The end of a page: only a page with fewer than pageSize members ends the
\* scan, whatever the cursor.
PageDone ==
  /\ scan.pc = "call" /\ scan.next > scan.last
  /\ scan' = IF scan.got < scan.pageSize THEN Returned(scan, "nil")
             ELSE [scan EXCEPT !.pc = "scan"]

\* The context ends; from then on the loop turns without doing anything.
ContextEnds ==
  /\ scan.pc \in {"scan", "call"} /\ ~scan.ctxDone
  /\ scan' = [scan EXCEPT !.ctxDone = TRUE]
Spins == scan.pc = "scan" /\ scan.ctxDone /\ UNCHANGED scan

FNext ==
  \/ \E n, c \in 0 .. MaxMembers, s \in PageSizes : ForeachCall(n, s, c)
  \/ \E m \in 0 .. MaxMembers : SScan(m)
  \/ SScanFails \/ CallF \/ PageDone \/ ContextEnds \/ Spins

FSpec == FInit /\ [][FNext]_scanVars

-----------------------------------------------------------------------------
(* Properties.                                                             *)

\* "ForeachSet scans members of the Redis set at key and calls f for each
\* member": a ForeachSet that returns nil has called f for every member
\* from its cursor on, unless f stopped it or the server sent a page that was
\* short of pageSize before its last one, and for nothing but members.
VisitsEveryMember ==
  scan.pc = "returned" /\ scan.result = "nil" /\ ~scan.stopped /\ ~scan.short =>
    scan.from + 1 .. scan.size \subseteq scan.visited /\ scan.visited \subseteq 1 .. scan.size

\* "Return ErrStopLoop from f to stop early": f is not called again.
StopLoopStops ==
  [][scan.stopped /\ scan.pc # "returned" => scan'.visited = scan.visited]_scanVars
=============================================================================
