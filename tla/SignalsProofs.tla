---------------------------- MODULE SignalsProofs ----------------------------
(***************************************************************************)
(* Proofs about Signals: its type invariant, the order in which hooks run  *)
(* and work is drained, and that it implements LevelledShutdown, for any   *)
(* number of levels, hooks, units of work and callers of SafeStop.         *)
(***************************************************************************)
EXTENDS Signals, FiniteSetTheorems, TLAPS

ActiveAt(l) == {w \in Work : work[w] = "active" /\ WorkLevel[w] = l}

\* The counter of a level is the number of its active units of work.
CountInv == \A l \in Levels : wg[l] = Cardinality(ActiveAt(l))

\* The safeStop that is past close(stopCh) holds mux, and whoever holds mux
\* is that safeStop.
MuxInv ==
  /\ \A p \in Stoppers : pc[p] \in Walking => mux = p
  /\ mux # Free => pc[mux] \in Walking /\ stopCh = "closed"

\* The walk: where lvl is in each phase.
WalkInv ==
  /\ stopCh = "open" =>
       /\ lvl = LevelMax
       /\ \A h \in Hooks : hook[h] = "idle"
       /\ \A p \in Stoppers : pc[p] # "returned"
  /\ \A p \in Stoppers :
       /\ pc[p] \in {"launch", "join"} \cup Waiting => lvl >= 0
       /\ pc[p] = "exit" => lvl = -1
       /\ pc[p] = "returned" => p \in Returning /\ mux = Free /\ lvl = -1
  /\ stopCh = "closed" /\ mux = Free => \E p \in Returning : pc[p] = "returned"

\* The hooks: above lvl they are done, at lvl they are as far as the walk is,
\* below lvl they are idle.
HookInv ==
  /\ \A h \in preStopFuncs : HookLevel[h] <= LevelMax
  /\ \A h \in Hooks :
       /\ hook[h] # "idle" => h \in preStopFuncs /\ HookLevel[h] >= lvl
       /\ hook[h] = "running" =>
            HookLevel[h] = lvl /\ (\E p \in Stoppers : pc[p] = "join")
  /\ \A p \in Stoppers, h \in Hooks :
       pc[p] = "launch" /\ HookLevel[h] = lvl => hook[h] = "idle"
  /\ \A p \in Stoppers, h \in preStopFuncs :
       pc[p] \in Waiting /\ HookLevel[h] = lvl => hook[h] = "done"
  /\ mux # Free =>
       \A h \in preStopFuncs : HookLevel[h] > lvl => hook[h] = "done"

\* Work that is active above lvl was added after its level was drained.
WorkInv == \A w \in Work : work[w] = "active" /\ WorkLevel[w] > lvl => w \in late

\* While a woken safeStop is not back from Wait, the work of its level is late.
WakeInv ==
  \A p \in Stoppers, w \in Work :
    pc[p] = "woken" /\ work[w] = "active" /\ WorkLevel[w] = lvl => w \in late

\* How the process can have ended.
ProcInv ==
  /\ proc = "exited" => \E p \in Stoppers : pc[p] = "exit"
  /\ proc = "close_panic" => stopCh = "closed" /\ mux = Free
  /\ proc = "wait_panic" => RacingWork

\* The inductive invariant.
IInv ==
  /\ Types /\ CountInv /\ MuxInv /\ WalkInv
  /\ HookInv /\ WorkInv /\ WakeInv /\ ProcInv

-----------------------------------------------------------------------------
(* The counters.                                                           *)

\* The active units of a level are finitely many, so they can be counted.
LEMMA ActiveFinite == \A l \in Levels : IsFiniteSet(ActiveAt(l))
  BY WorkAssumption, FS_Subset DEF ActiveAt

\* AddFor keeps the counter of the level equal to its number of active units.
LEMMA AddForCount ==
  ASSUME Types, CountInv, NEW w \in Work, AddFor(w)
  PROVE  CountInv'
<1> SUFFICES ASSUME NEW l \in Levels PROVE wg'[l] = Cardinality(ActiveAt(l)')
  BY DEF CountInv
<1>1. CASE l = WorkLevel[w]
  <2>1. ActiveAt(l)' = ActiveAt(l) \cup {w} /\ w \notin ActiveAt(l)
    BY <1>1 DEF ActiveAt, AddFor, Types
  <2>2. Cardinality(ActiveAt(l)') = Cardinality(ActiveAt(l)) + 1
    BY <2>1, ActiveFinite, FS_AddElement
  <2>3. wg'[l] = wg[l] + 1
    BY <1>1 DEF AddFor, Types
  <2>4. QED
    BY <2>2, <2>3 DEF CountInv
<1>2. CASE l # WorkLevel[w]
  <2>1. ActiveAt(l)' = ActiveAt(l)
    BY <1>2 DEF ActiveAt, AddFor, Types
  <2>2. wg'[l] = wg[l]
    BY <1>2 DEF AddFor, Types
  <2>3. QED
    BY <2>1, <2>2 DEF CountInv
<1>3. QED
  BY <1>1, <1>2

\* DoneFor does too, and the counter it decrements was positive.
LEMMA DoneForCount ==
  ASSUME Types, CountInv, NEW w \in Work, DoneFor(w)
  PROVE  CountInv' /\ wg' \in [Levels -> Nat]
<1> DEFINE k == WorkLevel[w]
<1>0. k \in Levels
  BY LevelAssumption
<1>1. ActiveAt(k)' = ActiveAt(k) \ {w} /\ w \in ActiveAt(k)
  BY DEF ActiveAt, DoneFor, Types
<1>2. Cardinality(ActiveAt(k)') = Cardinality(ActiveAt(k)) - 1
  BY <1>0, <1>1, ActiveFinite, FS_RemoveElement
<1>3. Cardinality(ActiveAt(k)') \in Nat
  <2>1. IsFiniteSet(ActiveAt(k)')
    BY <1>0, <1>1, ActiveFinite, FS_Subset
  <2>2. QED
    BY <2>1, FS_CardinalityType
<1>4. wg' = [wg EXCEPT ![k] = wg[k] - 1]
  BY DEF DoneFor
<1>5. wg'[k] = Cardinality(ActiveAt(k)')
  BY <1>0, <1>2, <1>4 DEF CountInv, Types
<1>6. ASSUME NEW l \in Levels, l # k
      PROVE  wg'[l] = Cardinality(ActiveAt(l)')
  <2>1. ActiveAt(l)' = ActiveAt(l)
    BY <1>6 DEF ActiveAt, DoneFor, Types
  <2>2. wg'[l] = wg[l]
    BY <1>4, <1>6 DEF Types
  <2>3. QED
    BY <2>1, <2>2 DEF CountInv
<1>7. CountInv'
  BY <1>5, <1>6 DEF CountInv
<1>8. wg' \in [Levels -> Nat]
  BY <1>0, <1>3, <1>4, <1>5 DEF Types
<1>9. QED
  BY <1>7, <1>8

\* A counter at zero means that no unit of the level is active.
LEMMA ZeroMeansIdle ==
  ASSUME Types, CountInv, NEW l \in Levels, wg[l] = 0
  PROVE  \A w \in Work : WorkLevel[w] = l => work[w] # "active"
<1>1. ActiveAt(l) = {}
  BY ActiveFinite, FS_EmptySet DEF CountInv
<1>2. QED
  BY <1>1 DEF ActiveAt

\* Steps that touch neither the counters nor the work keep CountInv.
LEMMA SameCount ==
  ASSUME CountInv, wg' = wg, work' = work
  PROVE  CountInv'
BY DEF CountInv, ActiveAt

-----------------------------------------------------------------------------
(* The inductive invariant.                                                *)

\* The Handler that SetupSignalHandler installs satisfies the invariant.
LEMMA InitIInv == Init => IInv
<1> SUFFICES ASSUME Init PROVE IInv
  OBVIOUS
<1>1. Types
  <2>1. lvl \in -1 .. LevelMax /\ sent \in 0 .. MaxSignals /\ pending \in 0 .. SignalCap
    BY LevelAssumption, BoundAssumption DEF Init
  <2>2. late \subseteq Work /\ preStopFuncs \subseteq Hooks
    BY DEF Init
  <2>3. wg \in [Levels -> Nat]
    BY DEF Init
  <2>4. setup \in BOOLEAN
    BY DEF Init
  <2>5. QED
    BY <2>1, <2>2, <2>3, <2>4 DEF Init, Types, ProcStates
<1>2. CountInv
  <2> SUFFICES ASSUME NEW l \in Levels PROVE wg[l] = Cardinality(ActiveAt(l))
    BY DEF CountInv
  <2>1. ActiveAt(l) = {}
    BY DEF Init, ActiveAt
  <2>2. QED
    BY <2>1, FS_EmptySet DEF Init
<1>3. MuxInv /\ WalkInv /\ HookInv /\ WorkInv /\ WakeInv /\ ProcInv
  BY DEF Init, MuxInv, WalkInv, HookInv, WorkInv, WakeInv, ProcInv, Walking, Waiting
<1>4. QED
  BY <1>1, <1>2, <1>3 DEF IInv

\* The steps that leave mux, the walk, the hooks and the work alone.
LEMMA QuietStep ==
  ASSUME IInv,
         UNCHANGED <<stopCh, mux, preStopFuncs, hook, wg, work, late, lvl>>,
         Types', ProcInv',
         \A p \in Stoppers :
           pc'[p] = pc[p] \/ (pc[p] = "idle" /\ pc'[p] = "lock")
  PROVE  IInv'
<1>1. CountInv'
  BY SameCount DEF IInv
<1>2. MuxInv'
  BY ProcAssumption DEF IInv, MuxInv, Walking, Waiting, Types
<1>3. WalkInv'
  BY ProcAssumption DEF IInv, WalkInv, Types, Stoppers, Waiting
<1>4. HookInv' /\ WorkInv' /\ WakeInv'
  BY DEF IInv, HookInv, WorkInv, WakeInv, Types, Waiting
<1>5. QED
  BY <1>1, <1>2, <1>3, <1>4 DEF IInv

\* Set-up, signals, entering safeStop and the timers are such steps.
LEMMA QuietSteps ==
  ASSUME IInv,
         \/ SetupSignalHandler
         \/ SignalHandlerNoInit
         \/ \E h \in Hooks : PreStopOutOfBounds(h)
         \/ Signal
         \/ ReceiveSignal
         \/ \E p \in Callers : SafeStop(p)
         \/ \E p \in Stoppers : TimerFires(p)
  PROVE  IInv'
<1> USE DEF ProcStates, RacingWork
<1>1. CASE SetupSignalHandler
  BY <1>1, QuietStep DEF SetupSignalHandler, IInv, Types, ProcInv
<1>2. CASE SignalHandlerNoInit
  BY <1>2, QuietStep DEF SignalHandlerNoInit, IInv, Types, ProcInv
<1>3. ASSUME NEW h \in Hooks, PreStopOutOfBounds(h) PROVE IInv'
  BY <1>3, QuietStep DEF PreStopOutOfBounds, IInv, Types, ProcInv
<1>4. CASE Signal
  BY <1>4, QuietStep, BoundAssumption DEF Signal, IInv, Types, ProcInv
<1>5. CASE ReceiveSignal
  <2>1. Types'
    BY <1>5, BoundAssumption DEF ReceiveSignal, EnterSafeStop, IInv, Types, Stoppers
  <2>2. ProcInv'
    BY <1>5 DEF ReceiveSignal, EnterSafeStop, IInv, Types, ProcInv
  <2>3. QED
    BY <1>5, <2>1, <2>2, QuietStep DEF ReceiveSignal, EnterSafeStop, IInv, Types
<1>6. ASSUME NEW p \in Callers, SafeStop(p) PROVE IInv'
  <2>1. Types'
    BY <1>6 DEF SafeStop, EnterSafeStop, IInv, Types, Stoppers
  <2>2. ProcInv'
    BY <1>6 DEF SafeStop, EnterSafeStop, IInv, Types, ProcInv
  <2>3. QED
    BY <1>6, <2>1, <2>2, QuietStep DEF SafeStop, EnterSafeStop, IInv, Types
<1>7. ASSUME NEW p \in Stoppers, TimerFires(p) PROVE IInv'
  BY <1>7, QuietStep DEF TimerFires, IInv, Types, ProcInv
<1>8. QED
  BY <1>1, <1>2, <1>3, <1>4, <1>5, <1>6, <1>7

\* Registration: mux is free, so no walk is under way.
LEMMA PreStopIInv ==
  ASSUME IInv, NEW h \in Hooks, PreStopInBounds(h)
  PROVE  IInv'
<1> USE DEF PreStopInBounds, IInv
<1>1. Types' /\ MuxInv' /\ WalkInv' /\ WorkInv' /\ WakeInv' /\ ProcInv'
  BY DEF Types, MuxInv, WalkInv, WorkInv, WakeInv, ProcInv, RacingWork
<1>2. CountInv'
  BY SameCount
<1>3. \A p \in Stoppers : pc[p] \notin Walking
  BY ProcAssumption DEF MuxInv
<1>4. HookInv'
  BY <1>3 DEF HookInv, Walking, Waiting, Types
<1>5. QED
  BY <1>1, <1>2, <1>4

\* AddFor and DoneFor keep the invariant: work added behind the walk is late.
LEMMA WorkStepIInv ==
  ASSUME IInv, NEW w \in Work, AddFor(w) \/ DoneFor(w)
  PROVE  IInv'
<1>1. CASE AddFor(w)
  <2>1. CountInv'
    BY <1>1, AddForCount DEF IInv
  <2>2. Types'
    <3>1. wg' \in [Levels -> Nat]
      <4>1. wg \in [Levels -> Nat] /\ WorkLevel[w] \in Levels
        BY LevelAssumption DEF IInv, Types
      <4>2. wg' = [wg EXCEPT ![WorkLevel[w]] = wg[WorkLevel[w]] + 1]
        BY <1>1 DEF AddFor
      <4>3. QED
        BY <4>1, <4>2
    <3>2. late \subseteq Work /\ late' \in {late, late \cup {w}}
      BY <1>1 DEF AddFor, IInv, Types
    <3>3. QED
      BY <1>1, <3>1, <3>2 DEF AddFor, IInv, Types
  <2>3. WorkInv' /\ WakeInv'
    BY <1>1 DEF AddFor, Drained, IInv, Types, WorkInv, WakeInv
  <2>4. MuxInv' /\ WalkInv' /\ HookInv' /\ ProcInv'
    BY <1>1 DEF AddFor, IInv, MuxInv, WalkInv, HookInv, ProcInv
  <2>5. QED
    BY <2>1, <2>2, <2>3, <2>4 DEF IInv
<1>2. CASE DoneFor(w)
  <2>1. CountInv' /\ wg' \in [Levels -> Nat]
    BY <1>2, DoneForCount DEF IInv
  <2>a. pc' = [p \in Stoppers |-> IF p \in Sleepers(w) THEN "woken" ELSE pc[p]]
    BY <1>2 DEF DoneFor
  <2>b. \A p \in Sleepers(w) :
          /\ p \in Stoppers /\ pc[p] = "asleep"
          /\ WorkLevel[w] = lvl /\ wg[lvl] = 1
    BY DEF Sleepers
  <2>c. \A p \in Stoppers :
          /\ pc'[p] = pc[p] \/ (pc[p] = "asleep" /\ pc'[p] = "woken")
          /\ pc'[p] # pc[p] => WorkLevel[w] = lvl /\ wg[lvl] = 1
    BY <2>a, <2>b
  <2>2. Types'
    <3>1. pc' \in [Stoppers -> {"idle", "lock", "returned"} \cup Walking]
      BY <2>a DEF IInv, Types, Walking, Waiting
    <3>2. work' \in [Work -> {"none", "active", "done"}]
      BY <1>2 DEF DoneFor, IInv, Types
    <3>3. QED
      BY <1>2, <2>1, <3>1, <3>2 DEF DoneFor, IInv, Types
  <2>d. \A v \in Work : work'[v] = "active" => work[v] = "active"
    BY <1>2 DEF DoneFor, IInv, Types
  <2>3. WorkInv'
    BY <1>2, <2>d DEF DoneFor, IInv, WorkInv
  <2>4. MuxInv'
    BY <1>2, <2>c, ProcAssumption DEF DoneFor, IInv, MuxInv, Walking, Waiting, Types
  <2>5. WalkInv'
    BY <1>2, <2>c, ProcAssumption DEF DoneFor, IInv, WalkInv, Waiting, Types, Stoppers
  <2>6. HookInv'
    BY <1>2, <2>c DEF DoneFor, IInv, HookInv, Waiting
  <2>7. ProcInv'
    BY <1>2 DEF DoneFor, ProcInv
  <2>8. WakeInv'
    <3> SUFFICES ASSUME NEW p \in Stoppers, NEW v \in Work, pc'[p] = "woken",
                        work'[v] = "active", WorkLevel[v] = lvl
                 PROVE  v \in late
      BY <1>2 DEF DoneFor, WakeInv
    <3>1. CASE pc'[p] = pc[p]
      BY <2>d, <3>1 DEF IInv, WakeInv
    <3>2. CASE pc'[p] # pc[p]
      <4>1. WorkLevel[w] = lvl /\ wg[lvl] = 1 /\ lvl \in Levels
        BY <2>c, <3>2, LevelAssumption
      <4>2. wg'[lvl] = 0
        BY <1>2, <4>1 DEF DoneFor, IInv, Types
      <4>3. wg' \in [Levels -> Nat] /\ CountInv'
        BY <2>1
      <4>4. ActiveAt(lvl)' = {}
        <5>1. IsFiniteSet(ActiveAt(lvl)')
          BY WorkAssumption, FS_Subset DEF ActiveAt
        <5>2. Cardinality(ActiveAt(lvl)') = 0
          BY <1>2, <4>1, <4>2, <4>3 DEF CountInv, DoneFor
        <5>3. QED
          BY <5>1, <5>2, FS_EmptySet
      <4>5. QED
        BY <1>2, <4>4 DEF ActiveAt, DoneFor
    <3>3. QED
      BY <3>1, <3>2
  <2>9. QED
    BY <2>1, <2>2, <2>3, <2>4, <2>5, <2>6, <2>7, <2>8 DEF IInv
<1>3. QED
  BY <1>1, <1>2

\* A hook that returns was running, so it was registered and started.
LEMMA HookReturnsIInv ==
  ASSUME IInv, NEW h \in Hooks, HookReturns(h)
  PROVE  IInv'
<1> USE DEF HookReturns, IInv
<1>1. Types' /\ MuxInv' /\ WorkInv' /\ WakeInv' /\ ProcInv'
  BY DEF Types, MuxInv, WorkInv, WakeInv, ProcInv, RacingWork
<1>2. CountInv'
  BY SameCount
<1>3. WalkInv'
  BY DEF WalkInv, Types
<1>4. HookInv'
  BY DEF HookInv, Types, Waiting
<1>5. QED
  BY <1>1, <1>2, <1>3, <1>4

\* mux is free and the channel open: no other safeStop is past close.
LEMMA AcquireIInv ==
  ASSUME IInv, NEW p \in Stoppers, Acquire(p)
  PROVE  IInv'
<1> USE DEF Acquire, IInv
<1>1. CountInv'
  BY SameCount
<1>2. WorkInv' /\ WakeInv'
  BY DEF WorkInv, WakeInv, CloseStopCh, CloseTwice, Types
<1>3. CASE CloseStopCh(p)
  <2> USE <1>3 DEF CloseStopCh
  <2>1. Types'
    BY DEF Types, Walking
  <2>2. \A q \in Stoppers : pc[q] \notin Walking
    BY ProcAssumption DEF MuxInv
  <2>3. MuxInv'
    BY <2>2 DEF MuxInv, Types, Walking, Waiting
  <2>4. WalkInv'
    BY <2>2, ProcAssumption, LevelAssumption DEF WalkInv, Types, Walking, Waiting
  <2>5. HookInv'
    <3>1. \A h \in preStopFuncs : ~(HookLevel[h] > lvl)
      BY LevelAssumption DEF HookInv, WalkInv, Types
    <3>2. QED
      BY <2>2, <3>1 DEF HookInv, WalkInv, Types, Walking, Waiting
  <2>6. ProcInv'
    BY <2>2 DEF ProcInv, Walking
  <2>7. QED
    BY <1>1, <1>2, <2>1, <2>3, <2>4, <2>5, <2>6
<1>4. CASE CloseTwice
  BY <1>1, <1>2, <1>4
  DEF CloseTwice, Types, ProcStates, MuxInv, WalkInv, HookInv, ProcInv
<1>5. QED
  BY <1>3, <1>4

\* The hooks of the walk's level are started together, none of them before.
LEMMA LaunchIInv ==
  ASSUME IInv, NEW p \in Stoppers, LaunchHooks(p)
  PROVE  IInv'
<1> USE DEF LaunchHooks, IInv
<1>1. Types'
  BY DEF Types, Walking, Waiting
<1>2. CountInv'
  BY SameCount
<1>3. mux = p /\ stopCh = "closed" /\ \A q \in Stoppers \ {p} : pc[q] \notin Walking
  BY ProcAssumption DEF MuxInv, Walking
<1>4. MuxInv'
  BY <1>3 DEF MuxInv, Types, Walking, Waiting
<1>5. WalkInv'
  BY <1>3, ProcAssumption DEF WalkInv, Types, Waiting
<1>6. HookInv'
  BY <1>3, ProcAssumption, LevelAssumption DEF HookInv, HooksAt, Types, Walking, Waiting
<1>7. WorkInv' /\ WakeInv' /\ ProcInv'
  BY <1>3 DEF WorkInv, WakeInv, ProcInv, RacingWork, Types
<1>8. QED
  BY <1>1, <1>2, <1>4, <1>5, <1>6, <1>7

\* wg.Wait lets the walk go on when every hook of the level is done.
LEMMA JoinIInv ==
  ASSUME IInv, NEW p \in Stoppers, JoinHooks(p)
  PROVE  IInv'
<1> USE DEF JoinHooks, IInv
<1>1. Types'
  BY DEF Types, Walking, Waiting
<1>2. CountInv'
  BY SameCount
<1>3. mux = p /\ stopCh = "closed" /\ \A q \in Stoppers \ {p} : pc[q] \notin Walking
  BY ProcAssumption DEF MuxInv, Walking
<1>4. MuxInv'
  BY <1>3 DEF MuxInv, Types, Walking, Waiting
<1>5. WalkInv'
  BY <1>3, ProcAssumption DEF WalkInv, Types, Waiting
<1>6. HookInv'
  BY <1>3, ProcAssumption DEF HookInv, HooksAt, Types, Walking, Waiting
<1>7. WorkInv' /\ WakeInv' /\ ProcInv'
  BY <1>3 DEF WorkInv, WakeInv, ProcInv, RacingWork, Types
<1>8. QED
  BY <1>1, <1>2, <1>4, <1>5, <1>6, <1>7

\* What Descend leaves alone, as WaitFor and WakeUp both do.
WaitFrame == UNCHANGED <<stopCh, mux, preStopFuncs, hook, wg, work, late>>

\* Leaving a level: its hooks are done and, its counter being zero, none of
\* its work is active.
LEMMA DescendIInv ==
  ASSUME IInv, NEW p \in Stoppers, pc[p] \in Waiting, wg[lvl] = 0, Descend(p),
         WaitFrame, UNCHANGED <<setup, sent, pending, timer>>
  PROVE  IInv'
<1> USE DEF Descend, WaitFrame, IInv
<1>0. lvl \in Levels
  BY DEF WalkInv, Types, Levels
<1>1. Types'
  BY <1>0, LevelAssumption DEF Types, Levels, Walking
<1>2. CountInv'
  BY SameCount
<1>3. mux = p /\ stopCh = "closed" /\ \A q \in Stoppers \ {p} : pc[q] \notin Walking
  BY ProcAssumption DEF MuxInv, Walking
<1>4. MuxInv'
  BY <1>3 DEF MuxInv, Types, Walking, Waiting
<1>5. WalkInv'
  BY <1>0, <1>3, ProcAssumption DEF WalkInv, Types, Walking, Waiting, Levels
<1>6. HookInv'
  BY <1>0, <1>3, ProcAssumption, LevelAssumption
  DEF HookInv, Types, Walking, Waiting, Levels
<1>7. WorkInv'
  <2>1. \A w \in Work : WorkLevel[w] = lvl => work[w] # "active"
    BY <1>0, ZeroMeansIdle
  <2>2. QED
    BY <1>0, <2>1, LevelAssumption DEF WorkInv, Levels
<1>8. WakeInv'
  BY <1>3 DEF WakeInv, Types, Walking, Waiting
<1>9. ProcInv'
  <2>1. proc = "wait_panic" => FALSE
    BY <1>0, ZeroMeansIdle DEF ProcInv, RacingWork, Types
  <2>2. proc = "exited" => \E q \in Stoppers : pc'[q] = "exit"
    BY <1>3 DEF ProcInv, Types, Walking, Waiting
  <2>3. QED
    BY <2>1, <2>2 DEF ProcInv
<1>10. QED
  BY <1>1, <1>2, <1>4, <1>5, <1>6, <1>7, <1>8, <1>9

\* Wait goes to sleep on a positive counter, or the level is left.
LEMMA WaitForIInv ==
  ASSUME IInv, NEW p \in Stoppers, WaitFor(p)
  PROVE  IInv'
<1>1. CASE wg[lvl] = 0 /\ Descend(p)
  BY <1>1, DescendIInv DEF WaitFor, WaitFrame, Waiting
<1>2. CASE pc' = [pc EXCEPT ![p] = "asleep"] /\ UNCHANGED <<proc, lvl>>
  <2> USE <1>2 DEF WaitFor, IInv
  <2>1. Types'
    BY DEF Types, Walking, Waiting
  <2>2. CountInv'
    BY SameCount
  <2>3. mux = p /\ stopCh = "closed" /\ \A q \in Stoppers \ {p} : pc[q] \notin Walking
    BY ProcAssumption DEF MuxInv, Walking, Waiting
  <2>4. MuxInv'
    BY <2>3 DEF MuxInv, Types, Walking, Waiting
  <2>5. WalkInv'
    BY <2>3, ProcAssumption DEF WalkInv, Types, Waiting
  <2>6. HookInv'
    BY <2>3, ProcAssumption DEF HookInv, Types, Walking, Waiting
  <2>7. WorkInv' /\ WakeInv' /\ ProcInv'
    BY <2>3 DEF WorkInv, WakeInv, ProcInv, Types
  <2>8. QED
    BY <2>1, <2>2, <2>4, <2>5, <2>6, <2>7
<1>3. QED
  BY <1>1, <1>2 DEF WaitFor

\* A woken Wait leaves the level, or finds the counter positive again: the
\* work that is active there is late.
LEMMA WakeUpIInv ==
  ASSUME IInv, NEW p \in Stoppers, WakeUp(p)
  PROVE  IInv'
<1>1. CASE wg[lvl] = 0 /\ Descend(p)
  BY <1>1, DescendIInv DEF WakeUp, WaitFrame, Waiting
<1>2. CASE wg[lvl] > 0 /\ proc' = "wait_panic" /\ UNCHANGED <<pc, lvl>>
  <2>1. lvl \in Levels
    BY DEF WakeUp, IInv, WalkInv, Types, Levels, Waiting
  <2>2. PICK w \in Work : work[w] = "active" /\ WorkLevel[w] = lvl
    <3>1. ActiveAt(lvl) # {}
      BY <1>2, <2>1, FS_EmptySet DEF IInv, CountInv
    <3>2. QED
      BY <3>1 DEF ActiveAt
  <2>3. RacingWork
    BY <2>2 DEF WakeUp, RacingWork, IInv, WakeInv
  <2>4. ProcInv'
    BY <1>2, <2>3 DEF WakeUp, ProcInv, RacingWork
  <2>5. Types' /\ CountInv' /\ MuxInv' /\ WalkInv' /\ HookInv' /\ WorkInv' /\ WakeInv'
    BY <1>2, SameCount DEF WakeUp, IInv, Types, ProcStates, MuxInv, WalkInv,
                           HookInv, WorkInv, WakeInv
  <2>6. QED
    BY <2>4, <2>5 DEF IInv
<1>3. QED
  BY <1>1, <1>2 DEF WakeUp

\* exitFunc is called by the holder of mux, below the lowest level.
LEMMA ExitFuncIInv ==
  ASSUME IInv, NEW p \in Stoppers, ExitFunc(p)
  PROVE  IInv'
<1> USE DEF ExitFunc, IInv
<1>1. Types'
  BY DEF Types, ProcStates
<1>2. CountInv'
  BY SameCount
<1>3. mux = p /\ stopCh = "closed" /\ \A q \in Stoppers \ {p} : pc[q] \notin Walking
  BY ProcAssumption DEF MuxInv, Walking
<1>4. MuxInv'
  BY <1>3 DEF MuxInv, Types, Walking, Waiting
<1>5. WalkInv'
  BY <1>3, ProcAssumption DEF WalkInv, Types, Walking, Waiting, Stoppers
<1>6. HookInv'
  BY <1>3, ProcAssumption DEF HookInv, Types, Walking, Waiting
<1>7. WorkInv' /\ WakeInv' /\ ProcInv'
  BY <1>3 DEF WorkInv, WakeInv, ProcInv, RacingWork, Types
<1>8. QED
  BY <1>1, <1>2, <1>4, <1>5, <1>6, <1>7

\* Every step of the Handler keeps the invariant.
LEMMA NextIInv == IInv /\ [Next]_vars => IInv'
<1> SUFFICES ASSUME IInv, [Next]_vars PROVE IInv'
  OBVIOUS
<1>1. CASE UNCHANGED vars
  BY <1>1 DEF vars, IInv, Types, CountInv, ActiveAt, MuxInv, WalkInv, HookInv,
              WorkInv, WakeInv, ProcInv, RacingWork
<1>2. CASE SetupSignalHandler \/ SignalHandlerNoInit \/ Signal \/ ReceiveSignal
  BY <1>2, QuietSteps
<1>3. ASSUME NEW h \in Hooks, PreStop(h) PROVE IInv'
  BY <1>3, PreStopIInv, QuietSteps DEF PreStop
<1>4. ASSUME NEW h \in Hooks, HookReturns(h) PROVE IInv'
  BY <1>4, HookReturnsIInv
<1>5. ASSUME NEW w \in Work, AddFor(w) \/ DoneFor(w) PROVE IInv'
  BY <1>5, WorkStepIInv
<1>6. ASSUME NEW p \in Callers, SafeStop(p) PROVE IInv'
  BY <1>6, QuietSteps
<1>7. ASSUME NEW p \in Stoppers, StopperStep(p) PROVE IInv'
  BY <1>7, AcquireIInv, LaunchIInv, JoinIInv, WaitForIInv, WakeUpIInv, ExitFuncIInv
  DEF StopperStep
<1>8. ASSUME NEW p \in Stoppers, TimerFires(p) PROVE IInv'
  BY <1>8, QuietSteps
<1>9. CASE Terminated
  BY <1>1, <1>9 DEF Terminated
<1>10. QED
  BY <1>1, <1>2, <1>3, <1>4, <1>5, <1>6, <1>7, <1>8, <1>9 DEF Next

\* IInv holds in every reachable state.
THEOREM Invariance == Spec => []IInv
  BY InitIInv, NextIInv, PTL DEF Spec

-----------------------------------------------------------------------------
(* What follows from the invariant.                                        *)

\* In every state of the invariant the ranges hold and the walk holds mux.
LEMMA IInvTypeOK == IInv => TypeOK
  BY DEF IInv, MuxInv, TypeOK

\* Every variable of the Handler keeps its type, wait-group counters stay
\* natural numbers, and at most one safeStop walks through the levels.
THEOREM Typing == Spec => []TypeOK
<1>1. IInv => TypeOK
  BY IInvTypeOK
<1>2. QED
  BY <1>1, Invariance, PTL

\* safeStop runs the hooks level by level from the top.
THEOREM HooksInOrder == Spec => []HookOrder
<1>1. IInv => HookOrder
  BY LevelAssumption DEF IInv, HookInv, HookOrder, Started, Types
<1>2. QED
  BY <1>1, Invariance, PTL

\* In every state of the invariant the work above a started hook is drained.
LEMMA IInvDrains == IInv => DrainBeforeHooks
  BY LevelAssumption
  DEF IInv, HookInv, WorkInv, DrainBeforeHooks, Started, Types, Levels

\* A hook starts only when the work above its level has been drained.
THEOREM DrainedBeforeHooks == Spec => []DrainBeforeHooks
  BY IInvDrains, Invariance, PTL

\* In every state of the invariant an exited process has run all its hooks.
LEMMA IInvGraceful == IInv => GracefulExit
<1> SUFFICES ASSUME IInv, proc = "exited"
             PROVE  /\ \A h \in preStopFuncs : hook[h] = "done"
                    /\ \A w \in Work : work[w] = "active" => w \in late
  BY DEF GracefulExit
<1>1. PICK p \in Stoppers : pc[p] = "exit"
  BY DEF IInv, ProcInv
<1>2. lvl = -1 /\ mux # Free
  BY <1>1, ProcAssumption DEF IInv, WalkInv, MuxInv, Walking
<1>3. \A h \in preStopFuncs : hook[h] = "done"
  BY <1>2, LevelAssumption DEF IInv, HookInv, Types
<1>4. \A w \in Work : work[w] = "active" => w \in late
  BY <1>2, LevelAssumption DEF IInv, WorkInv, Levels
<1>5. QED
  BY <1>3, <1>4

\* A shutdown that reaches exitFunc has run all hooks and drained all work.
THEOREM GracefulExits == Spec => []GracefulExit
  BY IInvGraceful, Invariance, PTL

\* With os.Exit as every exitFunc the stop channel is never closed twice.
THEOREM NoDoubleClose == Spec => []PanicNeedsReturningExit
<1>1. IInv => PanicNeedsReturningExit
  BY DEF IInv, ProcInv, WalkInv, PanicNeedsReturningExit
<1>2. QED
  BY <1>1, Invariance, PTL

\* The Wait of safeStop panics only when late work reused its wait group.
THEOREM NoPanicWithoutRace == Spec => []WaitPanicNeedsRace
<1>1. IInv => WaitPanicNeedsRace
  BY DEF IInv, ProcInv, WaitPanicNeedsRace
<1>2. QED
  BY <1>1, Invariance, PTL

\* No hook is registered while safeStop walks through the levels.
THEOREM FrozenRegistration == Spec => RegistrationFrozen
<1>1. IInv /\ [Next]_vars =>
        [preStopFuncs' # preStopFuncs =>
           \/ stopCh = "open"
           \/ \E p \in Returning : pc[p] = "returned"]_vars
  <2> SUFFICES ASSUME IInv, Next, preStopFuncs' # preStopFuncs
               PROVE  \/ stopCh = "open"
                      \/ \E p \in Returning : pc[p] = "returned"
    BY DEF vars
  <2>1. PICK h \in Hooks : PreStopInBounds(h)
    BY DEF Next, PreStop, SetupSignalHandler, SignalHandlerNoInit,
           PreStopOutOfBounds, HookReturns, AddFor, DoneFor, Signal,
           ReceiveSignal, SafeStop, StopperStep, Acquire, LaunchHooks,
           JoinHooks, WaitFor, WakeUp, ExitFunc, TimerFires, Terminated, vars
  <2>2. mux = Free
    BY <2>1 DEF PreStopInBounds
  <2>3. QED
    BY <2>2 DEF IInv, Types, WalkInv
<1>2. QED
  BY <1>1, Invariance, PTL DEF Spec, RegistrationFrozen

\* A hook runs at most once, after the stop channel has been closed.
THEOREM RunOnce == Spec => HooksRunOnce
<1> DEFINE Once == \A h \in Hooks : hook'[h] # hook[h] =>
              /\ stopCh = "closed"
              /\ <<hook[h], hook'[h]>> \in {<<"idle", "running">>, <<"running", "done">>}
<1>1. IInv /\ [Next]_vars => [Once]_vars
  <2> SUFFICES ASSUME IInv, Next PROVE hook' = hook \/ Once
    BY DEF vars
  <2>1. ASSUME NEW p \in Stoppers, LaunchHooks(p) PROVE Once
    <3>1. stopCh = "closed"
      BY <2>1, ProcAssumption DEF LaunchHooks, IInv, MuxInv, Walking
    <3>2. \A h \in HooksAt(lvl) : hook[h] = "idle"
      BY <2>1 DEF LaunchHooks, IInv, HookInv, HooksAt, Types
    <3>3. QED
      BY <2>1, <3>1, <3>2 DEF LaunchHooks
  <2>2. ASSUME NEW k \in Hooks, HookReturns(k) PROVE Once
    <3>1. stopCh = "closed"
      BY <2>2 DEF HookReturns, IInv, WalkInv, Types
    <3>2. QED
      BY <2>2, <3>1 DEF HookReturns, IInv, Types
  <2>3. QED
    BY <2>1, <2>2
    DEF Next, PreStop, SetupSignalHandler, SignalHandlerNoInit, PreStopInBounds,
        PreStopOutOfBounds, AddFor, DoneFor, Signal, ReceiveSignal, SafeStop,
        StopperStep, Acquire, JoinHooks, WaitFor, WakeUp, ExitFunc, TimerFires,
        Terminated, vars
<1>2. QED
  BY <1>1, Invariance, PTL DEF Spec, HooksRunOnce

-----------------------------------------------------------------------------
(* The refinement.                                                         *)

\* What Phase is, case by case.
PhaseTable ==
  /\ proc \notin {"up", "exited"} => Phase = "aborted"
  /\ proc = "exited" => Phase = "complete"
  /\ proc = "up" /\ mux # Free => Phase = "draining"
  /\ proc = "up" /\ stopCh = "open" => Phase = "serving"
  /\ proc = "up" /\ stopCh = "closed" /\ mux = Free => Phase = "complete"

\* The phase of the contract, by what became of the process and the channel.
LEMMA PhaseValue == IInv => PhaseTable
<1> SUFFICES ASSUME IInv PROVE PhaseTable
  OBVIOUS
<1> DEFINE Returned == \E p \in Stoppers : pc[p] = "returned"
<1>1. mux # Free => stopCh = "closed" /\ ~Returned
  BY DEF IInv, MuxInv, WalkInv
<1>2. stopCh = "open" => ~Returned
  BY DEF IInv, WalkInv
<1>3. stopCh = "closed" /\ mux = Free => Returned
  BY ProcAssumption DEF IInv, WalkInv, Stoppers
<1>4. QED
  BY <1>1, <1>2, <1>3 DEF Phase, PhaseTable

\* Every step of the Handler is a step of its contract or leaves the
\* contract's view of it alone.
LEMMA StepMeetsContract ==
  ASSUME IInv, IInv', PhaseTable, PhaseTable', Next
  PROVE  [Contract!Next]_(Contract!vars)
<1> USE DEF Contract!vars, Contract!Next
<1>a. stopCh \in {"open", "closed"} /\ stopCh' \in {"open", "closed"}
  BY DEF IInv, Types
<1>2. CASE SetupSignalHandler \/ Signal \/ ReceiveSignal \/ \E p \in Callers : SafeStop(p)
  <2>1. UNCHANGED <<proc, stopCh, mux, preStopFuncs, hook, work, lvl>>
    BY <1>2 DEF SetupSignalHandler, Signal, ReceiveSignal, SafeStop
  <2>2. proc = "up"
    BY <1>2 DEF SetupSignalHandler, Signal, ReceiveSignal, SafeStop, EnterSafeStop
  <2>3. Phase' = Phase
    BY <1>a, <2>1, <2>2 DEF PhaseTable
  <2>4. QED
    BY <2>1, <2>3 DEF Finished, Busy
<1>3. ASSUME NEW h \in Hooks, PreStopInBounds(h)
      PROVE  Contract!Register(h)
  BY <1>a, <1>3 DEF PreStopInBounds, PhaseTable, Contract!Register, Finished, Busy
<1>4. ASSUME NEW w \in Work, AddFor(w) PROVE Contract!Enter(w)
  <2>1. Phase' = Phase /\ Phase # "aborted"
    BY <1>a, <1>4 DEF AddFor, PhaseTable
  <2>2. Busy' = Busy \cup {w}
    BY <1>4 DEF AddFor, Busy, IInv, Types
  <2>3. QED
    BY <1>4, <2>1, <2>2 DEF AddFor, Contract!Enter, Finished
<1>5. ASSUME NEW w \in Work, DoneFor(w) PROVE Contract!Leave(w)
  <2>1. Phase' = Phase /\ Phase # "aborted"
    BY <1>a, <1>5 DEF DoneFor, PhaseTable
  <2>2. Busy' = Busy \ {w}
    BY <1>5 DEF DoneFor, Busy, IInv, Types
  <2>3. QED
    BY <1>5, <2>1, <2>2 DEF DoneFor, Contract!Leave, Finished
<1>6. ASSUME NEW h \in Hooks, HookReturns(h) PROVE Contract!Finish(h)
  <2>1. h \in preStopFuncs /\ HookLevel[h] = lvl /\ mux # Free
    BY <1>6, ProcAssumption DEF HookReturns, IInv, HookInv, MuxInv, Walking
  <2>2. Phase = "draining" /\ Phase' = "draining"
    BY <1>6, <2>1 DEF HookReturns, PhaseTable
  <2>3. Finished' = Finished \cup {h} /\ h \notin Finished
    BY <1>6 DEF HookReturns, Finished, IInv, Types
  <2>4. QED
    BY <1>6, <2>1, <2>2, <2>3 DEF HookReturns, Contract!Finish, Busy
<1>7. ASSUME NEW p \in Stoppers, Acquire(p) PROVE Contract!Begin \/ Contract!Abort
  <2>1. CASE CloseStopCh(p)
    <3>1. Phase = "serving" /\ Phase' = "draining"
      BY <1>7, <2>1, ProcAssumption DEF Acquire, CloseStopCh, PhaseTable
    <3>2. QED
      BY <1>7, <2>1, <3>1 DEF Acquire, CloseStopCh, Contract!Begin, Finished, Busy
  <2>2. CASE CloseTwice
    <3>1. Phase = "complete" /\ Phase' = "aborted"
      BY <1>7, <2>2 DEF Acquire, CloseTwice, PhaseTable
    <3>2. QED
      BY <1>7, <2>2, <3>1 DEF Acquire, CloseTwice, Contract!Abort, Finished, Busy
  <2>3. QED
    BY <1>7, <2>1, <2>2 DEF Acquire
<1>8. ASSUME NEW p \in Stoppers, LaunchHooks(p) \/ JoinHooks(p)
      PROVE  UNCHANGED Contract!vars
  <2>1. mux # Free
    BY <1>8, ProcAssumption DEF LaunchHooks, JoinHooks, IInv, MuxInv, Walking
  <2>2. Phase' = Phase
    BY <1>8, <2>1 DEF LaunchHooks, JoinHooks, PhaseTable
  <2>3. Finished' = Finished
    <3>1. CASE LaunchHooks(p)
      BY <3>1 DEF LaunchHooks, HooksAt, Finished, IInv, HookInv, Types
    <3>2. CASE JoinHooks(p)
      BY <3>2 DEF JoinHooks, Finished
    <3>3. QED
      BY <1>8, <3>1, <3>2
  <2>4. QED
    BY <1>8, <2>2, <2>3 DEF LaunchHooks, JoinHooks, Busy
<1>9. ASSUME NEW p \in Stoppers, WaitFor(p) \/ WakeUp(p)
      PROVE  Contract!Descend \/ Contract!Abort \/ UNCHANGED Contract!vars
  <2>0. pc[p] \in Waiting /\ proc = "up"
    BY <1>9 DEF WaitFor, WakeUp, Waiting
  <2>1. mux # Free /\ lvl \in Levels
    BY <2>0, ProcAssumption DEF IInv, MuxInv, WalkInv, Types, Levels, Walking
  <2>a. Phase = "draining"
    BY <2>0, <2>1 DEF PhaseTable
  <2>b. UNCHANGED <<stopCh, mux, preStopFuncs, Finished, Busy>>
    BY <1>9 DEF WaitFor, WakeUp, Finished, Busy
  <2>2. CASE wg[lvl] = 0 /\ Descend(p)
    <3>1. Phase' = "draining"
      BY <2>0, <2>1, <2>2, <2>b DEF Descend, PhaseTable
    <3>2. \A h \in preStopFuncs : HookLevel[h] = lvl => h \in Finished
      BY <2>0 DEF IInv, HookInv, Types, Finished
    <3>3. \A w \in Busy : WorkLevel[w] # lvl
      BY <2>1, <2>2, ZeroMeansIdle DEF IInv, Busy
    <3>4. Contract!Descend
      BY <2>1, <2>2, <2>a, <2>b, <3>1, <3>2, <3>3
      DEF Descend, Contract!Descend, Levels
    <3>5. QED
      BY <3>4
  <2>3. CASE UNCHANGED <<proc, lvl>>
    <3>1. Phase' = Phase
      BY <2>0, <2>1, <2>3, <2>a, <2>b DEF PhaseTable
    <3>2. QED
      BY <2>3, <2>b, <3>1
  <2>4. CASE proc' = "wait_panic" /\ UNCHANGED lvl
    <3>1. Phase' = "aborted"
      BY <2>4 DEF PhaseTable
    <3>2. QED
      BY <2>4, <2>a, <2>b, <3>1 DEF Contract!Abort
  <2>5. QED
    BY <1>9, <2>2, <2>3, <2>4 DEF WaitFor, WakeUp
<1>10. ASSUME NEW p \in Stoppers, ExitFunc(p) PROVE Contract!Complete
  <2>1. mux # Free /\ lvl = -1 /\ stopCh = "closed"
    BY <1>10, ProcAssumption DEF ExitFunc, IInv, MuxInv, WalkInv, Walking
  <2>2. Phase = "draining" /\ Phase' = "complete"
    BY <1>10, <2>1 DEF ExitFunc, PhaseTable
  <2>3. QED
    BY <1>10, <2>1, <2>2 DEF ExitFunc, Contract!Complete, Finished, Busy
<1>11. ASSUME NEW p \in Stoppers, TimerFires(p)
       PROVE  Contract!Abort \/ UNCHANGED Contract!vars
  <2>1. UNCHANGED <<Finished, Busy, lvl, preStopFuncs>>
    BY <1>11 DEF TimerFires, Finished, Busy
  <2>2. CASE p \in Returning
    <3>1. Phase' = Phase
      BY <1>a, <1>11, <2>2 DEF TimerFires, PhaseTable
    <3>2. QED
      BY <2>1, <3>1
  <2>3. CASE p \notin Returning
    <3>1. Phase' = "aborted" /\ Phase # "aborted"
      BY <1>a, <1>11, <2>3 DEF TimerFires, PhaseTable
    <3>2. QED
      BY <2>1, <3>1 DEF Contract!Abort
  <2>4. QED
    BY <2>2, <2>3
<1>12. ASSUME SignalHandlerNoInit \/ \E h \in Hooks : PreStopOutOfBounds(h)
       PROVE  Contract!Abort
  <2>1. /\ proc = "up" /\ proc' \in {"init_panic", "level_panic"}
        /\ UNCHANGED <<stopCh, mux, Finished, Busy, lvl, preStopFuncs>>
    BY <1>12 DEF SignalHandlerNoInit, PreStopOutOfBounds, Finished, Busy
  <2>2. Phase' = "aborted" /\ Phase # "aborted"
    BY <1>a, <2>1 DEF PhaseTable
  <2>3. QED
    BY <2>1, <2>2 DEF Contract!Abort
<1>13. CASE Terminated
  BY <1>13 DEF Terminated, vars, Phase, Finished, Busy
<1>14. QED
  BY <1>2, <1>3, <1>4, <1>5, <1>6, <1>7, <1>8, <1>9, <1>10, <1>11, <1>12, <1>13
  DEF Next, PreStop, StopperStep

\* The Handler implements the level-by-level shutdown of LevelledShutdown,
\* whatever the number of callers of SafeStop and whenever timers fire.
THEOREM HandlerMeetsContract == Spec => MeetsContract
<1>1. Init => Contract!Init
  <2> SUFFICES ASSUME Init PROVE Contract!Init
    OBVIOUS
  <2>1. PhaseTable
    BY InitIInv, PhaseValue
  <2>2. Phase = "serving" /\ Finished = {} /\ Busy = {}
    BY <2>1 DEF Init, PhaseTable, Finished, Busy
  <2>3. QED
    BY <2>2 DEF Init, Contract!Init
<1>2. IInv /\ IInv' /\ [Next]_vars => [Contract!Next]_(Contract!vars)
  <2> SUFFICES ASSUME IInv, IInv', [Next]_vars
               PROVE  [Contract!Next]_(Contract!vars)
    OBVIOUS
  <2>1. PhaseTable /\ PhaseTable'
    BY PhaseValue, PTL
  <2>2. CASE Next
    BY <2>1, <2>2, StepMeetsContract
  <2>3. CASE UNCHANGED vars
    BY <2>3 DEF vars, Contract!vars, Phase, Finished, Busy
  <2>4. QED
    BY <2>2, <2>3
<1>3. QED
  BY <1>1, <1>2, Invariance, PTL DEF Spec, MeetsContract, Contract!Spec
=============================================================================
