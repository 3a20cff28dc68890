------------------------------- MODULE Logging -------------------------------
(***************************************************************************)
(* The default, trace and context loggers of log/log.go and the records    *)
(* that leave through extLogger of log/ext.go.                             *)
(*                                                                         *)
(* rootLogger is an interface variable that is read and written without a  *)
(* lock: SetDefaultLogger stores to it at any time, and NewTraceLogger     *)
(* reads it outside rootLoggerOnce.  An interface value is two words, its  *)
(* dynamic type and its data, which are stored and loaded one after the    *)
(* other, so that a racing reader may put together halves of two loggers.  *)
(*                                                                         *)
(* A logger is the two words and the key/value pairs that log.With has     *)
(* bound to it, ts left out.  Writer, format and level of New are its      *)
(* configuration and are left out too.                                     *)
(***************************************************************************)
EXTENDS Naturals, FiniteSets, Sequences, Selection

CONSTANTS
  Goroutines,
  Setters,       \* the goroutines that call SetDefaultLogger
  AppLogger,     \* the data word of the logger they set
  NoData,        \* nil
  BoundPairs,    \* the pairs that WithKeyValues may bind
  Options,       \* the pairs of WithCaller, WithMethod and WithPrint
  RecordPairs,   \* the pairs that a record may be given
  MaxTraces,     \* the bound on the trace ids that are issued
  MaxBound,      \* the longest list of pairs that is bound
  MaxPairs       \* the longest list of pairs a record is given

ASSUME GoroutineAssumption ==
  /\ Setters \subseteq Goroutines
  /\ NoData \notin Goroutines \cup {AppLogger} /\ AppLogger \notin Goroutines
ASSUME LogBoundAssumption == MaxTraces \in Nat /\ MaxBound \in Nat /\ MaxPairs \in Nat

\* The pairs a program gives, with any keys, traceId among them.
GivenPairs == BoundPairs \cup Options \cup RecordPairs
ASSUME PairAssumption == \A v \in GivenPairs : v = <<v[1], v[2]>>

VARIABLES
  once,      \* rootLoggerOnce: "new", "running", "done"
  root,      \* rootLogger: [typ, dat]
  lpc,       \* where each goroutine is
  job,       \* the call it is in: [op, trace, kvs]
  words,     \* the words of rootLogger it has loaded
  ctx,       \* its context: [trace, logger, given]
  issued,    \* the number of trace ids issued
  made,      \* auxiliary: the goroutines that made a default logger
  early,     \* auxiliary: SetDefaultLogger had returned before the first use
  written    \* the last record that left: [in, out, prints, trace, own]

logVars == <<once, root, lpc, job, words, ctx, issued, made, early, written>>

\* The dynamic type of each logger; New returns the filter of go-kit/log/level.
TypeOf(d) ==
  IF d = NoData THEN "nil" ELSE IF d = AppLogger THEN "app" ELSE "filter"
NilLogger == [typ |-> "nil", dat |-> NoData]
Whole(l) == l.dat # NoData /\ TypeOf(l.dat) = l.typ

Pair(k, v) == <<k, v>>
Logger(l, kvs) == [typ |-> l.typ, dat |-> l.dat, kvs |-> kvs]
With(l, kvs) == [l EXCEPT !.kvs = @ \o kvs]
\* The pairs a logger of New starts with.
OwnPairs(l) == IF l.typ = "filter" THEN <<Pair("caller", "New")>> ELSE <<>>

NoJob == [op |-> "none", trace |-> 0, kvs |-> <<>>]
NoCtx == [trace |-> 0, logger |-> Logger(NilLogger, <<>>), given |-> FALSE]
NoRecord == [in |-> <<>>, out |-> <<>>, prints |-> <<>>, trace |-> 0, own |-> FALSE]

LInit ==
  /\ once = "new" /\ root = NilLogger
  /\ lpc = [p \in Goroutines |-> "idle"]
  /\ job = [p \in Goroutines |-> NoJob]
  /\ words = [p \in Goroutines |-> NilLogger]
  /\ ctx = [p \in Goroutines |-> NoCtx]
  /\ issued = 0 /\ made = {} /\ early = FALSE /\ written = NoRecord

Moves(p, here, there) == lpc[p] = here /\ lpc' = [lpc EXCEPT ![p] = there]

-----------------------------------------------------------------------------
(* SetDefaultLogger.                                                       *)

SetTyp(p) ==
  /\ Moves(p, "idle", "setDat")
  /\ root' = [root EXCEPT !.typ = TypeOf(AppLogger)]
  /\ UNCHANGED <<once, job, words, ctx, issued, made, early, written>>

SetDat(p) ==
  /\ Moves(p, "setDat", "idle")
  /\ root' = [root EXCEPT !.dat = AppLogger]
  /\ early' = (early \/ once = "new")
  /\ UNCHANGED <<once, job, words, ctx, issued, made, written>>

-----------------------------------------------------------------------------
(* GetDefaultLogger.                                                       *)

\* Mutant: the default logger is made without the once.
DoEach(p) ==
  /\ Moves(p, "do", "check")
  /\ UNCHANGED <<once, root, job, words, ctx, issued, made, early, written>>

\* rootLoggerOnce.Do: the first caller runs the function, the others wait.
Do(p) ==
  /\ \/ once = "new" /\ once' = "running" /\ Moves(p, "do", "check")
     \/ once = "done" /\ UNCHANGED once /\ Moves(p, "do", "loadTyp")
  /\ UNCHANGED <<root, job, words, ctx, issued, made, early, written>>

\* "if rootLogger == nil" looks at the type word.
Check(p) ==
  /\ \/ root.typ = "nil" /\ Moves(p, "check", "make") /\ UNCHANGED once
     \/ root.typ # "nil" /\ Moves(p, "check", "loadTyp") /\ once' = "done"
  /\ UNCHANGED <<root, job, words, ctx, issued, made, early, written>>

\* rootLogger = New()
MakeTyp(p) ==
  /\ Moves(p, "make", "makeDat")
  /\ root' = [root EXCEPT !.typ = "filter"]
  /\ made' = made \cup {p}
  /\ UNCHANGED <<once, job, words, ctx, issued, early, written>>

MakeDat(p) ==
  /\ Moves(p, "makeDat", "loadTyp")
  /\ root' = [root EXCEPT !.dat = p]
  /\ once' = "done"
  /\ UNCHANGED <<job, words, ctx, issued, made, early, written>>

\* return rootLogger
LoadTyp(p) ==
  /\ Moves(p, "loadTyp", "loadDat")
  /\ words' = [words EXCEPT ![p].typ = root.typ]
  /\ UNCHANGED <<once, root, job, ctx, issued, made, early, written>>

-----------------------------------------------------------------------------
(* NewTraceLogger and NewContextLogger.                                    *)

\* What the call makes of the words it has loaded, and leaves in the context
\* of the goroutine (GetDefaultLogger and NewTraceLogger leave theirs there as
\* a logger without a trace).
Finished(p, l, kvs) ==
  LET j == job[p]
      t == <<Pair("traceId", j.trace)>>
  IN  CASE j.op = "default" ->
             [trace |-> 0, logger |-> Logger(l, OwnPairs(l)), given |-> TRUE]
        [] j.op = "trace" ->
             [trace |-> 0, logger |-> Logger(l, OwnPairs(l) \o kvs \o t), given |-> TRUE]
        [] j.op = "context" ->
             [trace |-> j.trace, logger |-> Logger(l, OwnPairs(l) \o t \o j.kvs),
              given |-> FALSE]

Returns(p, l, kvs) ==
  /\ ctx' = [ctx EXCEPT ![p] = Finished(p, l, kvs)]
  /\ job' = [job EXCEPT ![p] = NoJob]

\* The end of GetDefaultLogger; NewTraceLogger that came this way drops kvs.
LoadDat(p) ==
  LET l == [words[p] EXCEPT !.dat = root.dat]
  IN  /\ Moves(p, "loadDat", "idle")
      /\ words' = [words EXCEPT ![p] = NilLogger]
      /\ Returns(p, l, <<>>)
      /\ UNCHANGED <<once, root, issued, made, early, written>>

\* l: rootLogger, in NewTraceLogger.
PeekTyp(p) ==
  /\ Moves(p, "peekTyp", "peekDat")
  /\ words' = [words EXCEPT ![p].typ = root.typ]
  /\ UNCHANGED <<once, root, job, ctx, issued, made, early, written>>

PeekDat(p) ==
  LET l == [words[p] EXCEPT !.dat = root.dat]
  IN  /\ words' = [words EXCEPT ![p] = NilLogger]
      /\ \/ l.typ = "nil" /\ Moves(p, "peekDat", "do") /\ UNCHANGED <<job, ctx>>
         \/ /\ l.typ # "nil" /\ Moves(p, "peekDat", "idle")
            /\ Returns(p, l, IF job[p].op = "trace" THEN job[p].kvs ELSE <<>>)
      /\ UNCHANGED <<once, root, issued, made, early, written>>

CallDefault(p) ==
  /\ Moves(p, "idle", "do")
  /\ job' = [job EXCEPT ![p] = [NoJob EXCEPT !.op = "default"]]
  /\ UNCHANGED <<once, root, words, ctx, issued, made, early, written>>

\* NewTraceLogger, and NewContextLogger without WithLogger: a trace id is
\* issued before rootLogger is read.
CallTrace(p, op, kvs) ==
  /\ issued < MaxTraces /\ issued' = issued + 1
  /\ Moves(p, "idle", "peekTyp")
  /\ job' = [job EXCEPT ![p] = [op |-> op, trace |-> issued + 1, kvs |-> kvs]]
  /\ UNCHANGED <<once, root, words, ctx, made, early, written>>

\* NewContextLogger with WithLogger: the logger is taken as it is.
CallContextWith(p, kvs) ==
  /\ issued < MaxTraces /\ issued' = issued + 1
  /\ lpc[p] = "idle" /\ ctx[p].logger.typ # "nil"
  /\ ctx' = [ctx EXCEPT ![p] = [trace |-> issued + 1, given |-> TRUE,
                                logger |-> With(ctx[p].logger, kvs)]]
  /\ UNCHANGED <<once, root, lpc, job, words, made, early, written>>

-----------------------------------------------------------------------------
(* Records.                                                                *)

\* Mutant: a repeated caller is appended like any other key.
ExtStepKeepsCallers(acc, kv) ==
  IF kv[1] = "print" THEN [acc EXCEPT !.prints = Append(@, kv[2])]
  ELSE [acc EXCEPT !.out = Append(@, kv)]

\* One turn of the loop of extLogger.Log: a print value is set aside, and a
\* repeated caller replaces the value of the first.
ExtStep(acc, kv) ==
  IF kv[1] = "print" THEN [acc EXCEPT !.prints = Append(@, kv[2])]
  ELSE IF kv[1] = "caller" /\ acc.caller # 0
       THEN [acc EXCEPT !.out[acc.caller] = kv]
  ELSE [acc EXCEPT !.out = Append(@, kv),
                   !.caller = IF kv[1] = "caller" THEN Len(acc.out) + 1 ELSE @]
ExtSteps(kvs) ==
  LET acc[i \in 0 .. Len(kvs)] ==
        IF i = 0 THEN [out |-> <<>>, caller |-> 0, prints |-> <<>>]
        ELSE ExtStep(acc[i - 1], kvs[i])
  IN  acc
ExtLog(kvs) == ExtSteps(kvs)[Len(kvs)]

\* GetContextLogger(ctx, opts...).Log(kvs...), through a logger of New: the
\* record, and after it the values to be printed.
Log(p, opts, kvs) ==
  LET in  == ctx[p].logger.kvs \o opts \o kvs
      res == ExtLog(in)
  IN  /\ lpc[p] = "idle" /\ written = NoRecord
      /\ Whole(ctx[p].logger) /\ ctx[p].logger.typ = "filter"
      /\ written' = [in |-> in, out |-> res.out, prints |-> res.prints,
                     trace |-> ctx[p].trace, own |-> ~ctx[p].given]
      /\ UNCHANGED <<once, root, lpc, job, words, ctx, issued, made, early>>

\* A logger put together from two halves does not survive its first record.
LogTorn(p) ==
  /\ ctx[p].logger.typ # "nil" /\ ~Whole(ctx[p].logger)
  /\ Moves(p, "idle", "panicked")
  /\ UNCHANGED <<once, root, job, words, ctx, issued, made, early, written>>

\* The behaviour ends with a record or a panic.
LogOver ==
  /\ written # NoRecord \/ \E p \in Goroutines : lpc[p] = "panicked"
  /\ UNCHANGED logVars

Lists(S, n) == UNION {[1 .. k -> S] : k \in 0 .. n}

LoggerStep(p) ==
  \/ p \in Setters /\ SetTyp(p)
  \/ SetDat(p)
  \/ Do(p) \/ Check(p) \/ MakeTyp(p) \/ MakeDat(p) \/ LoadTyp(p) \/ LoadDat(p)
  \/ PeekTyp(p) \/ PeekDat(p) \/ CallDefault(p)
  \/ \E kvs \in Lists(BoundPairs, MaxBound) :
       \/ CallTrace(p, "trace", kvs) \/ CallTrace(p, "context", kvs)
       \/ CallContextWith(p, kvs)
  \/ \E opts \in Lists(Options, 1), kvs \in Lists(RecordPairs, MaxPairs) :
       Log(p, opts, kvs)
  \/ LogTorn(p)

LNext ==
  \/ /\ written = NoRecord /\ \A p \in Goroutines : lpc[p] # "panicked"
     /\ \E p \in Goroutines : LoggerStep(p)
  \/ LogOver

LSpec == LInit /\ [][LNext]_logVars

-----------------------------------------------------------------------------
(* Properties.                                                             *)

\* "the process-wide default logger, creating one on first use": however the
\* first uses race with one another and with SetDefaultLogger, at most one
\* default logger is made, none if one had been set before the first use, and
\* no goroutine holds a made logger that is not that one.
OneDefault ==
  /\ Cardinality(made) <= 1
  /\ early => made = {}
  /\ \A p \in Goroutines : ctx[p].logger.dat \in made \cup {AppLogger, NoData}

KeysOf(kvs) == {kvs[i][1] : i \in DOMAIN kvs}
\* The pairs of a list with one of the keys, and the values of one key.
PairsOf(kvs, K) ==
  Select(kvs, {kvs[i] : i \in {j \in DOMAIN kvs : kvs[j][1] \in K}})
ValuesOf(kvs, k) ==
  [i \in DOMAIN PairsOf(kvs, {k}) |-> PairsOf(kvs, {k})[i][2]]
OtherPairs(kvs) == PairsOf(kvs, KeysOf(kvs) \ {"caller", "print"})

\* The first trace id of a record, and no other but those the program gave.
CarriesTrace(out, t) ==
  LET ids == ValuesOf(out, "traceId")
  IN  /\ Len(ids) > 0 /\ ids[1] = t
      /\ \A i \in 2 .. Len(ids) : Pair("traceId", ids[i]) \in GivenPairs

\* A record has every pair that was given, in order, but one caller, in the
\* place of the first and with the value given last, and no print value; those
\* are printed after it.  Through a context whose logger is its own, its first
\* trace id is the context's and any other was given as a pair by the program.
RecordExact ==
  written # NoRecord =>
    LET in  == written.in
        out == written.out
        callers == ValuesOf(in, "caller")
    IN  /\ OtherPairs(out) = OtherPairs(in)
        /\ ValuesOf(out, "caller") = <<callers[Len(callers)]>>
        /\ out[1][1] = "caller"
        /\ "print" \notin KeysOf(out) /\ written.prints = ValuesOf(in, "print")
        /\ written.own => CarriesTrace(out, written.trace)
=============================================================================
