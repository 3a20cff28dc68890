------------------------------- MODULE Clients -------------------------------
(***************************************************************************)
(* The database clients (redis, and SQLite, MySQL and ClickHouse through   *)
(* gorm) and the trace provider on top of the signals Handler: opening     *)
(* them with all their partial failures, the pre-stop hooks that close     *)
(* them, the metrics collector, and the spans of the work that uses them.  *)
(*                                                                         *)
(* The program keeps one database client in a variable, the handle, and    *)
(* unmarshals its configuration into it: each UnmarshalJSON opens a new    *)
(* client, and a second one is a reload.  Kind says which client it is.    *)
(* Every client that is opened brings one hook, so clients are hooks.      *)
(***************************************************************************)
EXTENDS Signals

CONSTANTS
  LevelTrace, LevelDB,  \* 5 and 10 in the code
  DBClients,            \* the clients the handle holds one after another
  Tracer,               \* the trace provider
  Kinds,                \* what the handle may be
  NoClient              \* the nil handle

ASSUME ClientAssumption ==
  /\ Tracer \notin DBClients
  /\ Hooks = DBClients \cup {Tracer}
  /\ NoClient \notin Hooks
  /\ LevelTrace \in Nat /\ LevelDB \in Nat
  /\ LevelTrace < LevelDB /\ LevelDB <= LevelMax
  /\ HookLevel = [h \in Hooks |-> IF h = Tracer THEN LevelTrace ELSE LevelDB]
  /\ Registering = {}
  /\ Kinds \subseteq {"redis", "sqlite", "mysql", "clickhouse"}

VARIABLES
  kind,       \* the type of the handle
  opc,        \* how far each client has been opened
  conn,       \* its connections: "none", "open" or "closed"
  temp,       \* the clients whose connection for CREATE SCHEMA is open
  handle,     \* the client in the handle, or NoClient
  instances,  \* the clients registered with the metrics collector
  dropped,    \* history: the clients the program closed itself
  provider,   \* the trace provider: "none", "up", "flushed" or "down"
  exportOk,   \* the exporter never fails
  span        \* the span that each unit of work ends

clientVars == <<kind, opc, conn, temp, handle, instances, dropped, provider,
                exportOk, span>>
allVars == <<vars, clientVars>>

Settled == {"idle", "ready", "failed", "panicked"}
Loading == \E c \in DBClients : opc[c] \notin Settled

CInit ==
  /\ Init
  /\ kind \in Kinds
  /\ opc = [c \in Hooks |-> "idle"]
  /\ conn = [c \in DBClients |-> "none"]
  /\ temp = {}
  /\ handle = NoClient
  /\ instances = {}
  /\ dropped = {}
  /\ provider = "none"
  /\ exportOk \in BOOLEAN
  /\ span = [w \in Work |-> "none"]

-----------------------------------------------------------------------------
(* Opening a database client.                                              *)

Advance(c, to) == opc' = [opc EXCEPT ![c] = to]

\* The constructor returns an error: UnmarshalJSON has assigned nil.
OpenFails(c) ==
  /\ Advance(c, "failed")
  /\ handle' = NoClient
  /\ UNCHANGED <<vars, kind, instances, dropped, provider, exportOk, span>>

\* Options that do not parse leave the handle alone.
UnmarshalJSON(c) ==
  /\ proc = "up"
  /\ opc[c] = "idle"
  /\ ~Loading
  /\ Advance(c, "connect") \/ Advance(c, "failed")
  /\ UNCHANGED <<vars, kind, conn, temp, handle, instances, dropped, provider,
                 exportOk, span>>

\* The pool is opened and the server answers.
Connected(c) ==
  /\ Advance(c, "setup")
  /\ conn' = [conn EXCEPT ![c] = "open"]
  /\ UNCHANGED <<vars, kind, temp, handle, instances, dropped, provider,
                 exportOk, span>>

Refused(c) == OpenFails(c) /\ UNCHANGED <<conn, temp>>

\* The server says that the schema does not exist.
SchemaMissing(c) ==
  /\ Advance(c, "create")
  /\ UNCHANGED <<vars, kind, conn, temp, handle, instances, dropped, provider,
                 exportOk, span>>

\* GetDSN writes a timeout of the ClickHouse options into a nil map; the panic
\* leaves UnmarshalJSON before it assigns the handle.
GetDSNPanics(c) ==
  /\ Advance(c, "panicked")
  /\ UNCHANGED <<vars, kind, conn, temp, handle, instances, dropped, provider,
                 exportOk, span>>

\* A client whose ping fails is closed by the constructor.
NewRedisClient(c) == kind = "redis" /\ (Connected(c) \/ Refused(c))

NewGormSQLiteClient(c) == kind = "sqlite" /\ (Connected(c) \/ Refused(c))

openMysqlConn(c) ==
  kind = "mysql" /\ (Connected(c) \/ Refused(c) \/ SchemaMissing(c))

openClickhouseConn(c) ==
  /\ kind = "clickhouse"
  /\ Connected(c) \/ Refused(c) \/ SchemaMissing(c) \/ GetDSNPanics(c)

Connect(c) ==
  /\ proc = "up"
  /\ opc[c] = "connect"
  /\ \/ NewRedisClient(c)
     \/ NewGormSQLiteClient(c)
     \/ openMysqlConn(c)
     \/ openClickhouseConn(c)

\* The connection for CREATE SCHEMA fails, or is opened.
OpenTemp(c) ==
  /\ proc = "up"
  /\ opc[c] = "create"
  /\ \/ OpenFails(c) /\ UNCHANGED <<conn, temp>>
     \/ /\ Advance(c, "exec")
        /\ temp' = temp \cup {c}
        /\ UNCHANGED <<vars, kind, conn, handle, instances, dropped, provider,
                       exportOk, span>>

\* CREATE SCHEMA.  The deferred Close is set up only when it succeeds.
CreateSchema(c) ==
  /\ proc = "up"
  /\ opc[c] = "exec"
  /\ \/ OpenFails(c) /\ UNCHANGED <<conn, temp>>
     \/ /\ Advance(c, "reopen")
        /\ UNCHANGED <<vars, kind, conn, temp, handle, instances, dropped,
                       provider, exportOk, span>>

\* The second attempt, and then the deferred Close.
Reopen(c) ==
  /\ proc = "up"
  /\ opc[c] = "reopen"
  /\ temp' = temp \ {c}
  /\ \/ OpenFails(c) /\ UNCHANGED conn
     \/ /\ Advance(c, "setup")
        /\ conn' = [conn EXCEPT ![c] = "open"]
        /\ UNCHANGED <<vars, kind, handle, instances, dropped, provider,
                       exportOk, span>>

\* The constructor asks for the Handler.
SetupHandler(c) ==
  /\ proc = "up"
  /\ opc[c] = "setup"
  /\ Advance(c, "hook")
  /\ SetupSignalHandler \/ (setup /\ UNCHANGED vars)
  /\ UNCHANGED <<kind, conn, temp, handle, instances, dropped, provider,
                 exportOk, span>>

\* Mutant: the hook is appended without the lock.
RegisterUnlocked(c) ==
  /\ opc[c] = "hook"
  /\ PreStopUnlocked(c)
  /\ \/ kind = "redis" /\ Advance(c, "ready") /\ handle' = c
     \/ kind # "redis" /\ Advance(c, "register") /\ UNCHANGED handle
  /\ UNCHANGED <<kind, conn, temp, instances, dropped, provider, exportOk, span>>

\* PreStop, which waits while a shutdown holds mux; a redis client is then
\* complete.
RegisterHook(c) ==
  /\ opc[c] = "hook"
  /\ PreStopInBounds(c)
  /\ \/ kind = "redis" /\ Advance(c, "ready") /\ handle' = c
     \/ kind # "redis" /\ Advance(c, "register") /\ UNCHANGED handle
  /\ UNCHANGED <<kind, conn, temp, instances, dropped, provider, exportOk, span>>

\* clt.database = db and collector.Register.
Register(c) ==
  /\ proc = "up"
  /\ opc[c] = "register"
  /\ instances' = instances \cup {c}
  /\ handle' = c
  /\ Advance(c, "ready")
  /\ UNCHANGED <<vars, kind, conn, temp, dropped, provider, exportOk, span>>

\* The program closes the client in the handle.  (On a nil handle the Close of
\* a MySQL or ClickHouse client returns and that of a redis or SQLite client
\* panics in its caller; both leave the state alone.)
\* Client.Close takes it from the collector first.
GormClose == kind \in {"mysql", "clickhouse"} /\ instances' = instances \ {handle}

\* SQLiteClient has a Close of its own, which does not.
SQLiteClose == kind = "sqlite" /\ UNCHANGED instances

RedisClose == kind = "redis" /\ UNCHANGED instances

Close ==
  /\ proc = "up"
  /\ ~Loading
  /\ handle # NoClient
  /\ GormClose \/ SQLiteClose \/ RedisClose
  /\ conn' = [conn EXCEPT ![handle] = "closed"]
  /\ dropped' = dropped \cup {handle}
  /\ UNCHANGED <<vars, kind, opc, temp, handle, provider, exportOk, span>>

\* The labels of a client: type, name, host and database.  Clients that are
\* opened from the handle's configuration agree in all of them.
Labels(c) == kind

\* How often Collect sends the metrics with the labels of c.
Collect(c) == Cardinality({d \in instances : Labels(d) = Labels(c)})

\* Mutant: the connection is closed as soon as the stop channel is.
HookClosesOnStop(c) ==
  /\ proc = "up"
  /\ stopCh = "closed"
  /\ conn[c] = "open"
  /\ conn' = [conn EXCEPT ![c] = "closed"]
  /\ UNCHANGED <<vars, kind, opc, temp, handle, instances, dropped, provider,
                 exportOk, span>>

\* The body of the hook; closing a second time only logs.
HookCloses(c) ==
  /\ proc = "up"
  /\ hook[c] = "running"
  /\ conn' = [conn EXCEPT ![c] = "closed"]
  /\ UNCHANGED <<vars, kind, opc, temp, handle, instances, dropped, provider,
                 exportOk, span>>

\* Mutant: the hook returns without closing.
DBHookReturnsEarly(c) ==
  /\ HookReturns(c)
  /\ UNCHANGED clientVars

DBHookReturns(c) ==
  /\ conn[c] = "closed"
  /\ HookReturns(c)
  /\ UNCHANGED clientVars

-----------------------------------------------------------------------------
(* The trace provider.                                                     *)

\* The exporter or the resource fails, or the provider is built.
NewTraceProvider ==
  /\ proc = "up"
  /\ opc[Tracer] = "idle"
  /\ \/ Advance(Tracer, "failed") /\ UNCHANGED provider
     \/ Advance(Tracer, "hook") /\ provider' = "up"
  /\ UNCHANGED <<vars, kind, conn, temp, handle, instances, dropped, exportOk,
                 span>>

\* SignalHandler, unlike SetupSignalHandler, panics without a Handler.
TracerHook ==
  /\ opc[Tracer] = "hook"
  /\ \/ PreStopInBounds(Tracer) /\ Advance(Tracer, "ready")
     \/ SignalHandlerNoInit /\ Advance(Tracer, "panicked")
  /\ UNCHANGED <<kind, conn, temp, handle, instances, dropped, provider,
                 exportOk, span>>

\* What becomes of the queued spans when the provider exports them.
Exports(outcome) ==
  span' = [w \in Work |-> IF span[w] = "queued" THEN outcome ELSE span[w]]

\* ForceFlush: on an error or a timeout the hook goes on.
ForceFlush ==
  /\ proc = "up"
  /\ hook[Tracer] = "running"
  /\ provider = "up"
  /\ provider' = "flushed"
  /\ Exports("exported") \/ (~exportOk /\ UNCHANGED span)
  /\ UNCHANGED <<vars, kind, opc, conn, temp, handle, instances, dropped,
                 exportOk>>

\* Mutant: the provider is shut down while the hook has not yet flushed it,
\* and what is queued is lost.
ShutdownDiscards ==
  /\ proc = "up"
  /\ hook[Tracer] = "running"
  /\ provider = "up"
  /\ provider' = "down"
  /\ Exports("lost")
  /\ UNCHANGED <<vars, kind, opc, conn, temp, handle, instances, dropped,
                 exportOk>>

\* Shutdown exports what was queued since, or loses it.
Shutdown ==
  /\ proc = "up"
  /\ hook[Tracer] = "running"
  /\ provider = "flushed"
  /\ provider' = "down"
  /\ Exports("exported") \/ (~exportOk /\ Exports("lost"))
  /\ UNCHANGED <<vars, kind, opc, conn, temp, handle, instances, dropped,
                 exportOk>>

TracerHookReturns ==
  /\ provider = "down"
  /\ HookReturns(Tracer)
  /\ UNCHANGED clientVars

\* A unit of work ends its span; a provider that has been shut down takes no
\* more spans.
EndSpanOf(w) ==
  /\ proc = "up"
  /\ work[w] = "active"
  /\ handle # NoClient
  /\ opc[Tracer] = "ready"
  /\ span[w] = "none"
  /\ span' = [span EXCEPT ![w] = IF provider = "down" THEN "lost" ELSE "queued"]
  /\ UNCHANGED <<vars, kind, opc, conn, temp, handle, instances, dropped,
                 provider, exportOk>>

\* The span of a command sent through Client.Redis.
RedisSpan(w) == kind = "redis" /\ EndSpanOf(w)

\* The span of a statement executed through Client.Session, made by its logger.
TraceSQL(w) == kind # "redis" /\ EndSpanOf(w)

EndSpan(w) == RedisSpan(w) \/ TraceSQL(w)

-----------------------------------------------------------------------------
\* The Handler's own steps and those of the program that are about no client.
HandlerStep ==
  /\ \/ SetupSignalHandler
     \/ \E w \in Work : AddFor(w) \/ DoneFor(w)
     \/ Signal
     \/ ReceiveSignal
     \/ \E p \in Callers : SafeStop(p)
     \/ \E p \in Stoppers : StopperStep(p) \/ TimerFires(p)
     \/ Terminated
  /\ UNCHANGED clientVars

OpenStep(c) ==
  \/ UnmarshalJSON(c) \/ Connect(c)
  \/ OpenTemp(c) \/ CreateSchema(c) \/ Reopen(c)
  \/ SetupHandler(c) \/ RegisterHook(c) \/ Register(c)

TracerStep ==
  \/ NewTraceProvider \/ TracerHook
  \/ ForceFlush \/ Shutdown \/ TracerHookReturns

CNext ==
  \/ HandlerStep
  \/ \E c \in DBClients : OpenStep(c) \/ HookCloses(c) \/ DBHookReturns(c)
  \/ Close
  \/ TracerStep
  \/ \E w \in Work : EndSpan(w)

CSpec == CInit /\ [][CNext]_allVars

-----------------------------------------------------------------------------
(* Properties.                                                             *)

\* Clients use the Handler within its rules: what holds of Signals holds here.
ClientsUseHandler == Spec

\* "The process signal handler closes the connection on shutdown", but not
\* under the requests: while a unit of work above LevelDB that was counted in
\* time is active, no client is closed that the program did not close itself.
DBOutlivesRequests ==
  \A c \in DBClients, w \in Work :
    /\ work[w] = "active"
    /\ WorkLevel[w] > LevelDB
    /\ conn[c] = "closed"
    => c \in dropped \/ w \in late

\* A graceful shutdown leaves no connection open, those of clients that a
\* reload has replaced or whose constructor was not finished included; the
\* exception is a constructor that has connected and was overtaken by the
\* shutdown before it could register its hook.
NoConnectionLeft ==
  proc = "exited" =>
    \A c \in DBClients : conn[c] = "open" => opc[c] \in {"setup", "hook"}

\* "The process signal handler flushes and shuts down the provider on
\* shutdown", after the databases and the requests: as long as the exporter
\* works, a span of work above LevelTrace that was counted in time is not
\* lost, and after a graceful shutdown none is left in the queue.
SpansDelivered ==
  exportOk =>
    \A w \in Work :
      /\ span[w] = "lost" => WorkLevel[w] <= LevelTrace \/ w \in late
      /\ proc = "exited" => span[w] # "queued"

\* "Collector exports sql.DBStats for registered GORM clients": clients opened
\* from one configuration have the same labels, and a collector that sends the
\* same metric twice makes the whole scrape fail.
ScrapeSucceeds == \A c \in instances : Collect(c) = 1
=============================================================================
