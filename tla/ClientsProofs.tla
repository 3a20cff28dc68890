---------------------------- MODULE ClientsProofs ----------------------------
(***************************************************************************)
(* Proofs about Clients: the clients use the Handler within its rules, so  *)
(* its theorems hold of them, and from those follows that no database is   *)
(* closed under a request, that a graceful shutdown leaves no connection   *)
(* open, and that it delivers the spans of the work it has waited for.     *)
(***************************************************************************)
EXTENDS Clients, SignalsProofs

OpenStates ==
  {"idle", "connect", "create", "exec", "reopen", "setup", "hook", "register",
   "ready", "failed", "panicked"}

CTypes ==
  /\ opc \in [Hooks -> OpenStates]
  /\ conn \in [DBClients -> {"none", "open", "closed"}]
  /\ handle \in DBClients \cup {NoClient}
  /\ handle # NoClient => opc[handle] = "ready"
  /\ provider \in {"none", "up", "flushed", "down"}
  /\ exportOk \in BOOLEAN
  /\ span \in [Work -> {"none", "queued", "exported", "lost"}]

\* A client connects once, before its hook is registered; a connection is
\* closed by the program or by the hook, and a finished hook has closed it.
DBInv ==
  \A c \in DBClients :
    /\ conn[c] = "closed" => c \in dropped \/ Started(c)
    /\ conn[c] = "open" => opc[c] \in {"setup", "hook"} \/ c \in preStopFuncs
    /\ opc[c] \in {"idle", "connect", "create", "exec", "reopen"} => conn[c] = "none"
    /\ c \in preStopFuncs => opc[c] \in {"register", "ready"}
    /\ hook[c] = "done" => conn[c] = "closed"

\* The provider goes down in its hook, and then its queue is empty.
TraceInv ==
  /\ provider \in {"flushed", "down"} => Started(Tracer)
  /\ hook[Tracer] = "done" => provider = "down"
  /\ opc[Tracer] = "ready" <=> Tracer \in preStopFuncs
  /\ \A w \in Work :
       /\ span[w] = "queued" => opc[Tracer] = "ready" /\ provider # "down"
       /\ exportOk /\ span[w] = "lost" => WorkLevel[w] <= LevelTrace \/ w \in late

CIInv == IInv /\ CTypes /\ DBInv /\ TraceInv

-----------------------------------------------------------------------------
\* Every step of the clients is a Handler step or a Handler stutter.
LEMMA CStepUsesHandler ==
  ASSUME [CNext]_allVars
  PROVE  [Next]_vars
<1>1. CASE UNCHANGED allVars
  BY <1>1 DEF allVars
<1>2. CASE HandlerStep
  BY <1>2 DEF HandlerStep, Next
<1>3. ASSUME NEW c \in DBClients, OpenStep(c) \/ HookCloses(c) \/ DBHookReturns(c)
      PROVE  [Next]_vars
  <2>0. c \in Hooks
    BY ClientAssumption
  <2>1. CASE SetupHandler(c) \/ RegisterHook(c) \/ DBHookReturns(c)
    BY <2>0, <2>1 DEF SetupHandler, RegisterHook, DBHookReturns, PreStop, Next
  <2>2. CASE UnmarshalJSON(c) \/ Connect(c) \/ OpenTemp(c) \/ CreateSchema(c)
             \/ Reopen(c) \/ Register(c) \/ HookCloses(c)
    BY <2>2 DEF UnmarshalJSON, Connect, OpenTemp, CreateSchema, Reopen, Register,
                HookCloses, OpenFails, Connected, Refused, SchemaMissing, GetDSNPanics,
                NewRedisClient, NewGormSQLiteClient, openMysqlConn, openClickhouseConn
  <2>3. QED
    BY <1>3, <2>1, <2>2 DEF OpenStep
<1>4. CASE Close \/ \E w \in Work : EndSpan(w)
  BY <1>4 DEF Close, EndSpan, RedisSpan, TraceSQL, EndSpanOf
<1>5. CASE TracerStep
  <2>1. Tracer \in Hooks
    BY ClientAssumption
  <2>2. QED
    BY <1>5, <2>1 DEF TracerStep, NewTraceProvider, TracerHook, ForceFlush,
                      Shutdown, TracerHookReturns, PreStop, Next
<1>6. QED
  BY <1>1, <1>2, <1>3, <1>4, <1>5 DEF CNext

\* A program that has opened nothing satisfies the invariant.
LEMMA CInitIInv == CInit => CIInv
<1> SUFFICES ASSUME CInit PROVE CIInv
  OBVIOUS
<1>1. IInv
  BY InitIInv DEF CInit
<1>2. CTypes
  BY DEF CInit, CTypes, OpenStates
<1>3. DBInv /\ TraceInv
  BY ClientAssumption DEF CInit, Init, DBInv, TraceInv, Started
<1>4. QED
  BY <1>1, <1>2, <1>3 DEF CIInv

\* The steps that are about no client register no hook and finish none.
LEMMA HandlerFrame ==
  ASSUME Types, HandlerStep
  PROVE  /\ preStopFuncs' = preStopFuncs
         /\ late \subseteq late'
         /\ \A h \in Hooks : Started(h) => Started(h)'
         /\ \A h \in Hooks : hook'[h] = "done" => hook[h] = "done"
BY DEF HandlerStep, SetupSignalHandler, AddFor, DoneFor, Signal, ReceiveSignal,
       SafeStop, StopperStep, Acquire, LaunchHooks, JoinHooks, WaitFor, WakeUp, ExitFunc,
       TimerFires, Terminated, vars, Types, Started

\* Steps that leave the clients alone.
LEMMA QuietClients ==
  ASSUME CTypes, DBInv, TraceInv, UNCHANGED clientVars,
         preStopFuncs' = preStopFuncs, late \subseteq late',
         \A h \in Hooks : Started(h) => Started(h)',
         \A h \in Hooks : hook'[h] = "done" => hook[h] = "done"
  PROVE  CTypes' /\ DBInv' /\ TraceInv'
<1>0. Tracer \in Hooks /\ DBClients \subseteq Hooks
  BY ClientAssumption
<1>1. CTypes'
  BY DEF CTypes, clientVars
<1>2. DBInv'
  BY <1>0 DEF DBInv, clientVars
<1>3. TraceInv'
  BY <1>0 DEF TraceInv, clientVars
<1>4. QED
  BY <1>1, <1>2, <1>3

\* Opening a client, from the first attempt to connect to the collector.
LEMMA OpenStepInv ==
  ASSUME CIInv, NEW c \in DBClients, OpenStep(c)
  PROVE  CTypes' /\ DBInv' /\ TraceInv'
<1>0. c \in Hooks /\ c # Tracer /\ Tracer \in Hooks /\ DBClients \subseteq Hooks
  BY ClientAssumption
<1>a. Types /\ CTypes /\ DBInv /\ TraceInv
  BY DEF CIInv, IInv
<1>b. c \notin preStopFuncs => hook[c] = "idle"
  BY <1>0 DEF CIInv, IInv, HookInv
<1>1. /\ UNCHANGED <<late, hook, provider, exportOk, span, dropped>>
      /\ opc' \in [Hooks -> OpenStates]
      /\ \A d \in Hooks : d # c => opc'[d] = opc[d]
      /\ handle' \in {handle, NoClient} \/ (handle' = c /\ opc'[c] = "ready")
      /\ opc[c] # "ready"
  BY <1>0, <1>a DEF OpenStep, UnmarshalJSON, Connect, OpenTemp, CreateSchema, Reopen,
     SetupHandler, RegisterHook, Register, OpenFails, Advance, PreStopInBounds,
     Connected, Refused, SchemaMissing, GetDSNPanics, NewRedisClient,
     NewGormSQLiteClient, openMysqlConn, openClickhouseConn,
     SetupSignalHandler, vars, CTypes, OpenStates
<1>2. \/ /\ conn' = conn
         /\ preStopFuncs' = preStopFuncs
         /\ opc[c] \in {"idle", "connect", "create", "exec", "reopen"}
         /\ opc'[c] \in {"connect", "create", "exec", "reopen", "failed", "panicked"}
      \/ /\ conn' = [conn EXCEPT ![c] = "open"]
         /\ preStopFuncs' = preStopFuncs
         /\ opc[c] \in {"connect", "reopen"}
         /\ opc'[c] = "setup"
      \/ /\ conn' = conn
         /\ preStopFuncs' = preStopFuncs
         /\ opc[c] = "setup"
         /\ opc'[c] = "hook"
      \/ /\ conn' = conn
         /\ preStopFuncs' = preStopFuncs \cup {c}
         /\ opc[c] = "hook"
         /\ opc'[c] \in {"register", "ready"}
      \/ /\ conn' = conn
         /\ preStopFuncs' = preStopFuncs
         /\ opc[c] = "register"
         /\ opc'[c] = "ready"
  BY <1>0, <1>a DEF OpenStep, UnmarshalJSON, Connect, OpenTemp, CreateSchema, Reopen,
     SetupHandler, RegisterHook, Register, OpenFails, Advance, PreStopInBounds,
     Connected, Refused, SchemaMissing, GetDSNPanics, NewRedisClient,
     NewGormSQLiteClient, openMysqlConn, openClickhouseConn,
     SetupSignalHandler, vars, CTypes, OpenStates
<1>3. CTypes'
  BY <1>0, <1>a, <1>1, <1>2 DEF CTypes
<1>4. DBInv'
  BY <1>0, <1>a, <1>b, <1>1, <1>2 DEF DBInv, CTypes, Started
<1>5. TraceInv'
  BY <1>0, <1>a, <1>1, <1>2 DEF TraceInv, Started
<1>6. QED
  BY <1>3, <1>4, <1>5

\* Closing a client, by the program or in its hook.
LEMMA CloseInv ==
  ASSUME CIInv,
         Close \/ \E c \in DBClients : HookCloses(c) \/ DBHookReturns(c)
  PROVE  CTypes' /\ DBInv' /\ TraceInv'
<1>0. DBClients \subseteq Hooks /\ Tracer \in Hooks /\ Tracer \notin DBClients
  BY ClientAssumption
<1>a. Types /\ CTypes /\ DBInv /\ TraceInv
  BY DEF CIInv, IInv
<1>1. CASE Close
  <2>1. handle \in DBClients /\ UNCHANGED <<preStopFuncs, hook, late, opc, provider, exportOk, span>>
    BY <1>1, <1>a DEF Close, CTypes, vars
  <2>1a. UNCHANGED handle
    BY <1>1 DEF Close
  <2>2. CTypes'
    BY <1>1, <1>a, <2>1, <2>1a DEF Close, CTypes
  <2>3. /\ conn' = [conn EXCEPT ![handle] = "closed"]
        /\ dropped' = dropped \cup {handle}
    BY <1>1 DEF Close
  <2>4. opc[handle] \notin {"idle", "connect", "create", "exec", "reopen"}
    BY <1>a, <2>1, ClientAssumption DEF CTypes
  <2>5. DBInv'
    BY <1>a, <2>1, <2>3, <2>4 DEF DBInv, CTypes, Started
  <2>6. TraceInv'
    BY <1>a, <2>1 DEF TraceInv, Started
  <2>7. QED
    BY <2>2, <2>5, <2>6
<1>2. ASSUME NEW c \in DBClients, HookCloses(c) PROVE CTypes' /\ DBInv' /\ TraceInv'
  <2>1. UNCHANGED <<preStopFuncs, hook, late, opc, handle, dropped, provider, exportOk, span>>
    BY <1>2 DEF HookCloses, vars
  <2>2. hook[c] = "running" /\ c \in preStopFuncs
    BY <1>0, <1>2 DEF HookCloses, CIInv, IInv, HookInv
  <2>3. conn' = [conn EXCEPT ![c] = "closed"]
    BY <1>2 DEF HookCloses
  <2>4. CTypes'
    BY <1>a, <2>1, <2>3 DEF CTypes
  <2>5. DBInv'
    BY <1>a, <2>1, <2>2, <2>3 DEF DBInv, CTypes, Started
  <2>6. TraceInv'
    BY <1>a, <2>1 DEF TraceInv, Started
  <2>7. QED
    BY <2>4, <2>5, <2>6
<1>3. ASSUME NEW c \in DBClients, DBHookReturns(c) PROVE CTypes' /\ DBInv' /\ TraceInv'
  <2>1. /\ UNCHANGED <<preStopFuncs, late>>
        /\ UNCHANGED clientVars
        /\ conn[c] = "closed"
        /\ hook' = [hook EXCEPT ![c] = "done"]
    BY <1>3 DEF DBHookReturns, HookReturns
  <2>2. \A h \in Hooks : h # c => hook'[h] = hook[h]
    BY <2>1, <1>a DEF Types
  <2>3. CTypes'
    BY <1>a, <2>1 DEF CTypes, clientVars
  <2>4. DBInv'
    BY <1>0, <1>a, <2>1, <2>2 DEF DBInv, clientVars, Started, Types
  <2>5. TraceInv'
    BY <1>0, <1>a, <2>1, <2>2 DEF TraceInv, clientVars, Started
  <2>6. QED
    BY <2>3, <2>4, <2>5
<1>4. QED
  BY <1>1, <1>2, <1>3

\* The trace provider and the spans it is given.
LEMMA TraceStepInv ==
  ASSUME CIInv, TracerStep \/ \E w \in Work : EndSpan(w)
  PROVE  CTypes' /\ DBInv' /\ TraceInv'
<1>0. DBClients \subseteq Hooks /\ Tracer \in Hooks /\ Tracer \notin DBClients
      /\ HookLevel[Tracer] = LevelTrace
  BY ClientAssumption
<1>a. Types /\ CTypes /\ DBInv /\ TraceInv
  BY DEF CIInv, IInv
<1>b. Tracer \notin preStopFuncs => hook[Tracer] = "idle"
  BY <1>0 DEF CIInv, IInv, HookInv
<1>1. CASE NewTraceProvider
  <2>1. /\ UNCHANGED <<preStopFuncs, hook, late, conn, handle, dropped, exportOk, span>>
        /\ opc[Tracer] = "idle"
        /\ provider' \in {provider, "up"}
        /\ \/ opc' = [opc EXCEPT ![Tracer] = "failed"]
           \/ opc' = [opc EXCEPT ![Tracer] = "hook"]
    BY <1>1 DEF NewTraceProvider, Advance, vars
  <2>2. CTypes' /\ opc'[Tracer] # "ready" /\ \A c \in DBClients : opc'[c] = opc[c]
    BY <1>0, <1>a, <2>1 DEF CTypes, OpenStates
  <2>3. DBInv'
    BY <1>a, <2>1, <2>2 DEF DBInv, Started
  <2>4. TraceInv'
    BY <1>a, <1>b, <2>1, <2>2 DEF TraceInv, Started
  <2>5. QED
    BY <2>2, <2>3, <2>4
<1>2. CASE TracerHook
  <2>1. /\ UNCHANGED <<hook, late, conn, handle, dropped, provider, exportOk, span>>
        /\ opc[Tracer] = "hook"
        /\ \/ preStopFuncs' = preStopFuncs \cup {Tracer}
              /\ opc' = [opc EXCEPT ![Tracer] = "ready"]
           \/ preStopFuncs' = preStopFuncs
              /\ opc' = [opc EXCEPT ![Tracer] = "panicked"]
    BY <1>2 DEF TracerHook, Advance, PreStopInBounds, SignalHandlerNoInit
  <2>2. CTypes' /\ \A c \in DBClients : opc'[c] = opc[c]
    BY <1>0, <1>a, <2>1 DEF CTypes, OpenStates
  <2>3. DBInv'
    BY <1>0, <1>a, <2>1, <2>2 DEF DBInv, Started
  <2>4. opc'[Tracer] = "ready" <=> Tracer \in preStopFuncs'
    BY <1>0, <1>a, <2>1 DEF TraceInv, CTypes
  <2>5. TraceInv'
    BY <1>0, <1>a, <2>1, <2>4 DEF TraceInv, CTypes, Started
  <2>6. QED
    BY <2>2, <2>3, <2>5
<1>3. CASE ForceFlush \/ Shutdown
  <2>1. /\ UNCHANGED <<preStopFuncs, hook, late, opc, conn, handle, dropped, exportOk>>
        /\ hook[Tracer] = "running"
        /\ provider' \in {"flushed", "down"}
        /\ \/ Exports("exported")
           \/ ~exportOk /\ provider' = "flushed" /\ UNCHANGED span
           \/ ~exportOk /\ Exports("lost")
    BY <1>3 DEF ForceFlush, Shutdown, vars
  <2>2. CTypes'
    BY <1>a, <2>1 DEF CTypes, Exports
  <2>3. DBInv'
    BY <1>a, <2>1 DEF DBInv, Started
  <2>4. ASSUME NEW w \in Work
        PROVE  /\ span'[w] = "queued" => span[w] = "queued" /\ provider' # "down"
               /\ exportOk /\ span'[w] = "lost" => span[w] = "lost"
    BY <2>1 DEF Exports
  <2>5. TraceInv'
    BY <1>0, <1>a, <2>1, <2>4 DEF TraceInv, Started
  <2>6. QED
    BY <2>2, <2>3, <2>5
<1>4. CASE TracerHookReturns
  <2>1. /\ UNCHANGED <<preStopFuncs, late>>
        /\ UNCHANGED clientVars
        /\ provider = "down"
        /\ hook' = [hook EXCEPT ![Tracer] = "done"]
    BY <1>4 DEF TracerHookReturns, HookReturns
  <2>2. hook'[Tracer] = "done" /\ \A c \in DBClients : hook'[c] = hook[c]
    BY <1>0, <1>a, <2>1 DEF Types
  <2>3. CTypes'
    BY <1>a, <2>1 DEF CTypes, clientVars
  <2>4. DBInv'
    BY <1>a, <2>1, <2>2 DEF DBInv, clientVars, Started
  <2>5. TraceInv'
    BY <1>a, <2>1, <2>2 DEF TraceInv, clientVars, Started
  <2>6. QED
    BY <2>3, <2>4, <2>5
<1>5. ASSUME NEW w \in Work, EndSpan(w) PROVE CTypes' /\ DBInv' /\ TraceInv'
  <2>1. /\ UNCHANGED <<preStopFuncs, hook, late, opc, conn, handle, dropped, provider, exportOk>>
        /\ work[w] = "active"
        /\ opc[Tracer] = "ready"
        /\ span' = [span EXCEPT ![w] = IF provider = "down" THEN "lost" ELSE "queued"]
    BY <1>5 DEF EndSpan, RedisSpan, TraceSQL, EndSpanOf, vars
  <2>2. CTypes'
    BY <1>a, <2>1 DEF CTypes
  <2>3. DBInv'
    BY <1>a, <2>1 DEF DBInv, Started
  <2>4. provider = "down" /\ WorkLevel[w] > LevelTrace => w \in late
    BY <1>0, <1>a, <2>1, IInvDrains DEF CIInv, TraceInv, DrainBeforeHooks
  <2>5. WorkLevel[w] <= LevelTrace \/ WorkLevel[w] > LevelTrace
    BY LevelAssumption, ClientAssumption DEF Levels
  <2>6. TraceInv'
    BY <1>a, <2>1, <2>4, <2>5 DEF TraceInv, CTypes, Started
  <2>7. QED
    BY <2>2, <2>3, <2>6
<1>6. QED
  BY <1>1, <1>2, <1>3, <1>4, <1>5 DEF TracerStep

\* Every step of the clients and of the Handler keeps the invariant.
LEMMA CNextIInv == CIInv /\ [CNext]_allVars => CIInv'
<1> SUFFICES ASSUME CIInv, [CNext]_allVars PROVE CIInv'
  OBVIOUS
<1>1. IInv'
  BY CStepUsesHandler, NextIInv DEF CIInv
<1>2. CTypes' /\ DBInv' /\ TraceInv'
  <2>1. CASE HandlerStep
    BY <2>1, HandlerFrame, QuietClients DEF CIInv, IInv, HandlerStep
  <2>2. CASE UNCHANGED allVars
    BY <2>2, QuietClients DEF CIInv, allVars, vars, Started
  <2>3. CASE \E c \in DBClients : OpenStep(c)
    BY <2>3, OpenStepInv
  <2>4. CASE Close \/ \E c \in DBClients : HookCloses(c) \/ DBHookReturns(c)
    BY <2>4, CloseInv
  <2>5. CASE TracerStep \/ \E w \in Work : EndSpan(w)
    BY <2>5, TraceStepInv
  <2>6. QED
    BY <2>1, <2>2, <2>3, <2>4, <2>5 DEF CNext
<1>3. QED
  BY <1>1, <1>2 DEF CIInv

\* CIInv holds in every reachable state of the clients and the Handler.
THEOREM CInvariance == CSpec => []CIInv
  BY CInitIInv, CNextIInv, PTL DEF CSpec

\* The clients use the Handler within its rules.
THEOREM ClientsRefineHandler == CSpec => ClientsUseHandler
<1>1. CInit => Init
  BY DEF CInit
<1>2. [CNext]_allVars => [Next]_vars
  BY CStepUsesHandler
<1>3. QED
  BY <1>1, <1>2, PTL DEF CSpec, Spec, ClientsUseHandler

\* No client is closed under a request that was counted in time, except by
\* the program.
THEOREM RequestsKeepDB == CSpec => []DBOutlivesRequests
<1>1. CIInv => DBOutlivesRequests
  <2> SUFFICES ASSUME CIInv, NEW c \in DBClients, NEW w \in Work,
                      work[w] = "active", WorkLevel[w] > LevelDB,
                      conn[c] = "closed", c \notin dropped
               PROVE  w \in late
    BY DEF DBOutlivesRequests
  <2>1. Started(c) /\ c \in Hooks /\ HookLevel[c] = LevelDB
    BY ClientAssumption DEF CIInv, DBInv
  <2>2. QED
    BY <2>1, IInvDrains DEF CIInv, DrainBeforeHooks
<1>2. QED
  BY <1>1, CInvariance, PTL

\* A graceful shutdown leaves no connection open but those of constructors
\* that it has overtaken.
THEOREM ConnectionsClosed == CSpec => []NoConnectionLeft
<1>1. CIInv => NoConnectionLeft
  BY IInvGraceful DEF CIInv, DBInv, NoConnectionLeft, GracefulExit
<1>2. QED
  BY <1>1, CInvariance, PTL

\* With a working exporter the spans of work that was waited for are delivered.
THEOREM SpansAreDelivered == CSpec => []SpansDelivered
<1>1. CIInv => SpansDelivered
  BY IInvGraceful DEF CIInv, TraceInv, SpansDelivered, GracefulExit
<1>2. QED
  BY <1>1, CInvariance, PTL
=============================================================================
