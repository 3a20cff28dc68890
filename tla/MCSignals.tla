------------------------------ MODULE MCSignals ------------------------------
(* Small instances of Signals: three levels (request, database, root).      *)
EXTENDS Signals, TLC

CONSTANTS hReq, hDB1, hDB2, hBad, wReq, wNew, wDB

\* Two hooks share the middle level; hBad is above LevelMax.
MCHookLevel == hReq :> 2 @@ hDB1 :> 1 @@ hDB2 :> 1 @@ hBad :> 3
MCHookLevelLive == hReq :> 2 @@ hDB1 :> 1
\* wNew may be counted while the walk waits for wReq, or just after.
MCWorkLevel == wReq :> 2 @@ wNew :> 2 @@ wDB :> 0
MCWorkLevelLive == wReq :> 2 @@ wDB :> 0
=============================================================================
