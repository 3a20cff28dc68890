SPECIFICATION Spec
CONSTANTS
  hReq = hReq
  hDB1 = hDB1
  hDB2 = hDB2
  hBad = hBad
  wReq = wReq
  wNew = wNew
  wDB = wDB
  LevelMax = 2
  Hooks = {hReq, hDB1, hDB2, hBad}
  HookLevel <- MCHookLevel
  Registering = {hDB2}
  Work = {wReq, wNew, wDB}
  WorkLevel <- MCWorkLevel
  SignalProc = sig
  Callers = {c1, c2}
  Returning = {c1}
  SignalCap = 2
  MaxSignals = 2
  TimeoutElapses = TRUE
  Free = Free
INVARIANTS
  TypeOK
  HookOrder
  DrainBeforeHooks
  GracefulExit
  PanicNeedsReturningExit
  WaitPanicNeedsRace
PROPERTIES
  HooksRunOnce
  MeetsContract
