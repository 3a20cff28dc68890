SPECIFICATION CSpec
CONSTANTS
  d1 = d1
  d2 = d2
  wReq = wReq
  Tracer = tracer
  NoClient = NoClient
  DBClients = {d1, d2}
  Kinds = {"redis", "sqlite", "mysql", "clickhouse"}
  LevelTrace = 1
  LevelDB = 2
  LevelMax = 3
  Hooks = {d1, d2, tracer}
  HookLevel <- MCHookLevel
  Registering = {}
  Work = {wReq}
  WorkLevel <- MCWorkLevel
  SignalProc = sig
  Callers = {c1}
  Returning = {}
  SignalCap = 2
  MaxSignals = 1
  TimeoutElapses = TRUE
  Free = Free
SYMMETRY MCSymmetry
INVARIANTS
  DBOutlivesRequests
  NoConnectionLeft
  SpansDelivered
PROPERTIES
  ClientsUseHandler
