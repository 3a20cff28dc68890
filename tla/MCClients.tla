------------------------------ MODULE MCClients ------------------------------
(* Two clients for the handle (an opening and a reload), the trace provider   *)
(* and a request; the levels are 0 root, 1 trace, 2 databases, 3 requests.    *)
EXTENDS Clients, TLC

CONSTANTS d1, d2, wReq

MCHookLevel == d1 :> LevelDB @@ d2 :> LevelDB @@ Tracer :> LevelTrace
\* An opening and a reload differ only in their order.
MCSymmetry == Permutations(DBClients)
MCWorkLevel == wReq :> 3
=============================================================================
