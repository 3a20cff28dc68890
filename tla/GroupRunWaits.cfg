SPECIFICATION GSpec
CONSTANTS
  hDB = hDB
  wReq = wReq
  a1 = a1
  a2 = a2
  b1 = b1
  gA = gA
  gB = gB
  LevelMax = 2
  Hooks = {hDB}
  HookLevel <- MCHookLevel
  Registering = {}
  Work = {a1, a2}
  WorkLevel <- MCWorkLevel
  SignalProc = sig
  Callers = {gA}
  Returning = {}
  SignalCap = 2
  MaxSignals = 1
  TimeoutElapses = FALSE
  Free = Free
  Actors = {a1, a2}
  Groups = {gA}
  ActorGroup <- MCActorGroupOne
INVARIANT
  RunWaitsForActors
