SPECIFICATION FairSpec
CONSTANTS
  hReq = hReq
  hDB1 = hDB1
  hDB2 = hDB2
  hBad = hBad
  wReq = wReq
  wNew = wNew
  wDB = wDB
  LevelMax = 2
  Hooks = {hReq, hDB1}
  HookLevel <- MCHookLevelLive
  Registering = {}
  Work = {wReq, wDB}
  WorkLevel <- MCWorkLevelLive
  SignalProc = sig
  Callers = {}
  Returning = {}
  SignalCap = 2
  MaxSignals = 2
  TimeoutElapses = FALSE
  Free = Free
PROPERTY
  SecondSignalExits
