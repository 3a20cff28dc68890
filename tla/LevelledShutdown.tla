-------------------------- MODULE LevelledShutdown ---------------------------
(***************************************************************************)
(* What signals.Handler promises, without goroutines, locks, channels and  *)
(* timers: once a shutdown has begun the set of hooks is fixed, levels are *)
(* left one by one from the top, a level is left only when its hooks have  *)
(* finished and none of its work is active, and a hook finishes only while *)
(* the shutdown is at its level.  The shutdown may be aborted at any time. *)
(***************************************************************************)
EXTENDS Integers

CONSTANTS LevelMax, Hooks, HookLevel, Work, WorkLevel

VARIABLES
  phase,       \* "serving", "draining", "complete" or "aborted"
  floor,       \* the level being drained; the levels above it are done
  registered,  \* the hooks to run
  finished,    \* the hooks that have run
  busy         \* the active work

vars == <<phase, floor, registered, finished, busy>>

Init ==
  /\ phase = "serving"
  /\ floor = LevelMax
  /\ registered = {}
  /\ finished = {}
  /\ busy = {}

Register(h) ==
  /\ phase \in {"serving", "complete"}
  /\ registered' = registered \cup {h}
  /\ UNCHANGED <<phase, floor, finished, busy>>

Enter(w) ==
  /\ phase # "aborted"
  /\ busy' = busy \cup {w}
  /\ UNCHANGED <<phase, floor, registered, finished>>

Leave(w) ==
  /\ phase # "aborted"
  /\ busy' = busy \ {w}
  /\ UNCHANGED <<phase, floor, registered, finished>>

Begin ==
  /\ phase = "serving"
  /\ phase' = "draining"
  /\ UNCHANGED <<floor, registered, finished, busy>>

Finish(h) ==
  /\ phase = "draining"
  /\ h \in registered \ finished
  /\ HookLevel[h] = floor
  /\ finished' = finished \cup {h}
  /\ UNCHANGED <<phase, floor, registered, busy>>

Descend ==
  /\ phase = "draining"
  /\ floor >= 0
  /\ \A h \in registered : HookLevel[h] = floor => h \in finished
  /\ \A w \in busy : WorkLevel[w] # floor
  /\ floor' = floor - 1
  /\ UNCHANGED <<phase, registered, finished, busy>>

Complete ==
  /\ phase = "draining"
  /\ floor = -1
  /\ phase' = "complete"
  /\ UNCHANGED <<floor, registered, finished, busy>>

Abort ==
  /\ phase # "aborted"
  /\ phase' = "aborted"
  /\ UNCHANGED <<floor, registered, finished, busy>>

Next ==
  \/ \E h \in Hooks : Register(h) \/ Finish(h)
  \/ \E w \in Work : Enter(w) \/ Leave(w)
  \/ Begin
  \/ Descend
  \/ Complete
  \/ Abort

Spec == Init /\ [][Next]_vars
=============================================================================
