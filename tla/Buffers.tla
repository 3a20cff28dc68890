------------------------------- MODULE Buffers -------------------------------
(***************************************************************************)
(* PreReader and LimitedWriter of buffer/, one feeding the other through   *)
(* io.Copy: a stream whose prefix has been read ahead is copied to a       *)
(* writer that takes a limited number of bytes.                            *)
(*                                                                         *)
(* The byte at position i of the stream is i.  The stream, the writer      *)
(* below and io.Copy are external: a Read may be short, may return nothing *)
(* and no error, may fail, and may fail along with bytes; a Write may stop *)
(* short with an error.                                                    *)
(***************************************************************************)
EXTENDS Naturals, Sequences, FiniteSetsExt

CONSTANTS
  StreamLens,    \* the lengths of the stream
  PreLens,       \* maxLen of NewPreReader
  Limits,        \* n of LimitWriter
  CopyLen        \* the length of io.Copy's buffer

ASSUME BufferAssumption ==
  /\ StreamLens \subseteq Nat /\ PreLens \subseteq Nat /\ Limits \subseteq Nat
  /\ CopyLen \in Nat \ {0}

VARIABLE copy   \* one copy of a stream

bufVars == <<copy>>

\* pos is how far the stream has been read, buf, bufIdx and maxLen belong to
\* the preReader, N, MaxN and ignoreError to the LimitedWriter, chunk is what
\* io.Copy has read and not yet written and sink what has reached the writer
\* below.  sinkFailed is auxiliary: that writer has failed.
Opened(pc, l, m, n, ignore) ==
  [pc |-> pc, len |-> l, pos |-> 0, buf |-> <<>>, bufIdx |-> 0, maxLen |-> m,
   N |-> n, MaxN |-> n, ignoreError |-> ignore, chunk |-> <<>>, sink |-> <<>>,
   err |-> "none", sinkFailed |-> FALSE]

Bytes(from, n) == [i \in 1 .. n |-> from + i]
AtEnd == copy.pos = copy.len
CopyEnded(c, e) == [c EXCEPT !.pc = "ended", !.err = e]
\* The numbers of bytes a Read of k bytes may return: none only if the stream
\* is at its end, fails or has nothing to give just now.
ReadSizes(k) == 0 .. Min({k, copy.len - copy.pos})

BufInit == copy = Opened("idle", 0, 0, 0, FALSE)

\* NewPreReader on a stream, and LimitWriter.
Opens(l, m, n, ignore) ==
  copy.pc \in {"idle", "ended"} /\ copy' = Opened("fill", l, m, n, ignore)

\* A turn of the loop of NewPreReader: bytes count before an error, the end of
\* the stream ends the loop, and any other error is returned.
Fill ==
  /\ copy.pc = "fill" /\ Len(copy.buf) < copy.maxLen
  /\ \E n \in ReadSizes(copy.maxLen - Len(copy.buf)) :
       \/ copy' = [copy EXCEPT !.pos = @ + n, !.buf = @ \o Bytes(copy.pos, n)]
       \/ n = 0 /\ AtEnd /\ copy' = [copy EXCEPT !.pc = "read"]
       \/ n = 0 /\ copy' = CopyEnded(copy, "error")

Filled ==
  /\ copy.pc = "fill" /\ Len(copy.buf) = copy.maxLen
  /\ copy' = [copy EXCEPT !.pc = "read"]

\* Read behind the prefix goes to the stream; an error that comes with bytes
\* is met by the next Read.
ReadThrough ==
  /\ copy.pc = "read" /\ copy.bufIdx >= copy.maxLen
  /\ \E n \in ReadSizes(CopyLen) :
       \/ copy' = [copy EXCEPT !.pos = @ + n, !.chunk = Bytes(copy.pos, n),
                               !.pc = IF n = 0 THEN "read" ELSE "write"]
       \/ n = 0 /\ AtEnd /\ copy' = CopyEnded(copy, "nil")
       \/ n = 0 /\ copy' = CopyEnded(copy, "error")

\* Mutant: bufIdx is set to the number of bytes copied.
ReadBufferedAssigns ==
  LET n == Min({CopyLen, Len(copy.buf) - copy.bufIdx})
  IN  /\ copy.pc = "read" /\ copy.bufIdx < copy.maxLen
      /\ copy' = IF n = 0 THEN CopyEnded(copy, "nil")
                 ELSE [copy EXCEPT
                         !.chunk = SubSeq(copy.buf, copy.bufIdx + 1, copy.bufIdx + n),
                         !.bufIdx = n, !.pc = "write"]

\* Read within the prefix: a prefix shorter than maxLen is the whole stream.
ReadBuffered ==
  LET n == Min({CopyLen, Len(copy.buf) - copy.bufIdx})
  IN  /\ copy.pc = "read" /\ copy.bufIdx < copy.maxLen
      /\ copy' = IF n = 0 THEN CopyEnded(copy, "nil")
                 ELSE [copy EXCEPT
                         !.chunk = SubSeq(copy.buf, copy.bufIdx + 1, copy.bufIdx + n),
                         !.bufIdx = @ + n, !.pc = "write"]

\* What Write does with a chunk of which the writer below takes n bytes, and
\* io.Copy after it: it goes on if all was taken without an error.
Wrote(n, failed) ==
  LET c == [copy EXCEPT !.sink = @ \o SubSeq(copy.chunk, 1, n), !.N = @ - n,
                        !.chunk = <<>>]
  IN  IF copy.ignoreError \/ (n = Len(copy.chunk) /\ ~failed)
      THEN [c EXCEPT !.pc = "read"] ELSE CopyEnded(c, "error")

\* Write: nothing is left of the limit, or the chunk is cut to what is left.
Writes ==
  LET room == Min({Len(copy.chunk), copy.N})
  IN  /\ copy.pc = "write"
      /\ \/ copy.N <= 0 /\ copy' = Wrote(0, TRUE)
         \/ copy.N > 0 /\ copy' = Wrote(room, FALSE)
         \/ /\ copy.N > 0
            /\ \E n \in 0 .. room :
                 copy' = [Wrote(n, TRUE) EXCEPT !.sinkFailed = TRUE]

\* Close drops the prefix; the stream is closed with it.
Closes ==
  /\ copy.pc = "ended" /\ copy.maxLen > 0
  /\ copy' = [copy EXCEPT !.buf = <<>>, !.bufIdx = 0, !.maxLen = 0]

BufNext ==
  \/ \E l \in StreamLens, m \in PreLens, n \in Limits, ig \in BOOLEAN :
       Opens(l, m, n, ig)
  \/ Fill \/ Filled \/ ReadThrough \/ ReadBuffered \/ Writes \/ Closes

BufSpec == BufInit /\ [][BufNext]_bufVars

-----------------------------------------------------------------------------
(* Properties.                                                             *)

\* "a PreReader that replays that prefix followed by the rest of reader",
\* "but limits the amount of data written to just N bytes": what arrives are
\* the first bytes of the stream, each once and in order and never more than
\* the limit, unless errors of the writer below are ignored; a copy that ends
\* without an error has moved the whole stream, or as much of it as the limit
\* allows when LimitWriterIgnoreError hides the limit.
CopiesExactly ==
  ~(copy.ignoreError /\ copy.sinkFailed) =>
    /\ copy.sink = Bytes(0, Len(copy.sink))
    /\ Len(copy.sink) <= copy.MaxN
    /\ copy.err = "nil" =>
         Len(copy.sink) =
           IF copy.ignoreError THEN Min({copy.len, copy.MaxN}) ELSE copy.len
=============================================================================
