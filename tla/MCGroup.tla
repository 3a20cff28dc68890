------------------------------- MODULE MCGroup -------------------------------
(* Two groups next to a hook and a request; one group of two actors.         *)
EXTENDS Group, TLC

CONSTANTS hDB, wReq, a1, a2, b1, gA, gB

MCHookLevel == hDB :> 1
MCWorkLevel == [w \in Work |-> IF w = wReq THEN 2 ELSE 1]
MCActorGroupOne == a1 :> gA @@ a2 :> gA
MCActorGroup == a1 :> gA @@ b1 :> gB
=============================================================================
