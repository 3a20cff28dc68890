SPECIFICATION GFairSpec
CONSTANTS
  hDB = hDB
  wReq = wReq
  a1 = a1
  a2 = a2
  b1 = b1
  gA = gA
  gB = gB
  LevelMax = 2
  Hooks = {hDB}
  HookLevel <- MCHookLevel
  Registering = {}
  Work = {a1, b1, wReq}
  WorkLevel <- MCWorkLevel
  SignalProc = sig
  Callers = {gA, gB}
  Returning = {gA}
  SignalCap = 2
  MaxSignals = 1
  TimeoutElapses = TRUE
  Free = Free
  Actors = {a1, b1}
  Groups = {gA, gB}
  ActorGroup <- MCActorGroup
INVARIANTS
  GTypeOK
  NoSelfWait
PROPERTIES
  UsesHandler
  SignalStops
  StopsGracefully
