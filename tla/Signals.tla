------------------------------- MODULE Signals -------------------------------
(***************************************************************************)
(* signals.Handler: the process-wide graceful-shutdown coordinator of      *)
(* signals/signal.go.  A shutdown (safeStop) closes the stop channel and   *)
(* then walks the levels from LevelMax down to LevelRoot; at each level it *)
(* runs the level's pre-stop hooks concurrently, joins them, and waits for *)
(* the level's wait group.  A timer started next to it ends the process    *)
(* if that takes too long.                                                 *)
(*                                                                         *)
(* A unit of Work is one AddFor(level, 1) ... DoneFor(level) bracket.  A   *)
(* Stopper is a goroutine that may call safeStop: the signal goroutine, or *)
(* any caller of SafeStop (the interrupt of a w.Group, in module Group).   *)
(***************************************************************************)
EXTENDS Integers, FiniteSets

CONSTANTS
  LevelMax,        \* the highest level (31 in the code)
  Hooks,           \* functions passed to PreStop
  HookLevel,       \* the level each of them is registered at
  Registering,     \* the hooks whose own body calls PreStop
  Work,            \* units of work bracketed by AddFor and DoneFor
  WorkLevel,       \* the level of each unit
  SignalProc,      \* the goroutine started by SetupSignalHandler
  Callers,         \* the other goroutines that call SafeStop
  Returning,       \* the callers whose exitFunc returns (not os.Exit)
  SignalCap,       \* capacity of the os.Signal channel (2 in the code)
  MaxSignals,      \* bound: termination signals sent to the process
  TimeoutElapses,  \* FALSE: behaviours shorter than the 30 s timeout
  Free             \* mux is not held

Levels   == 0 .. LevelMax
Stoppers == Callers \cup {SignalProc}

ASSUME LevelAssumption ==
  /\ LevelMax \in Nat
  /\ HookLevel \in [Hooks -> Nat]
  /\ WorkLevel \in [Work -> Levels]
ASSUME WorkAssumption == IsFiniteSet(Work)
ASSUME ProcAssumption ==
  /\ Registering \subseteq Hooks
  /\ SignalProc \notin Callers
  /\ Returning \subseteq Callers
  /\ Free \notin Stoppers
ASSUME BoundAssumption ==
  /\ SignalCap \in Nat
  /\ MaxSignals \in Nat
  /\ TimeoutElapses \in BOOLEAN

VARIABLES
  proc,          \* "up", or how the process ended
  setup,         \* stopHandler # nil
  sent,          \* termination signals sent so far
  pending,       \* signals buffered in the channel c
  stopCh,        \* "open" or "closed"
  mux,           \* the stopper that holds Handler.mux, or Free
  preStopFuncs,  \* the hooks registered so far
  hook,          \* progress of each hook: "idle", "running", "done"
  wg,            \* the wait-group counter of each level
  work,          \* "none", "active" or "done"
  late,          \* history: work added when its level was already drained
  pc,            \* where each stopper is in safeStop
  lvl,           \* loop variable of the safeStop that holds mux
  timer          \* the timer goroutine of each safeStop

vars == <<proc, setup, sent, pending, stopCh, mux, preStopFuncs, hook, wg,
          work, late, pc, lvl, timer>>

\* Where a safeStop is while it walks through the levels, and while it is in
\* the Wait of a level's wait group: about to look at the counter, asleep, or
\* woken and not yet back.
Waiting == {"wait", "asleep", "woken"}
Walking == {"launch", "join", "exit"} \cup Waiting

HooksAt(l) == {h \in preStopFuncs : HookLevel[h] = l}
Started(h) == hook[h] \in {"running", "done"}

Init ==
  /\ proc = "up"
  /\ setup = FALSE
  /\ sent = 0
  /\ pending = 0
  /\ stopCh = "open"
  /\ mux = Free
  /\ preStopFuncs = {}
  /\ hook = [h \in Hooks |-> "idle"]
  /\ wg = [l \in Levels |-> 0]
  /\ work = [w \in Work |-> "none"]
  /\ late = {}
  /\ pc = [p \in Stoppers |-> "idle"]
  /\ lvl = LevelMax
  /\ timer = [p \in Stoppers |-> "off"]

-----------------------------------------------------------------------------
(* The API: setting up, registering, counting work.                        *)

\* once.Do: a later call finds the Handler and changes nothing.
SetupSignalHandler ==
  /\ proc = "up"
  /\ ~setup
  /\ setup' = TRUE
  /\ UNCHANGED <<proc, sent, pending, stopCh, mux, preStopFuncs, hook, wg,
                 work, late, pc, lvl, timer>>

\* SignalHandler panics when SetupSignalHandler has not been called.
SignalHandlerNoInit ==
  /\ proc = "up"
  /\ ~setup
  /\ proc' = "init_panic"
  /\ UNCHANGED <<setup, sent, pending, stopCh, mux, preStopFuncs, hook, wg,
                 work, late, pc, lvl, timer>>

\* Mutant: the append is not protected by mux.
PreStopUnlocked(h) ==
  /\ proc = "up"
  /\ setup
  /\ h \notin preStopFuncs
  /\ HookLevel[h] <= LevelMax
  /\ preStopFuncs' = preStopFuncs \cup {h}
  /\ UNCHANGED <<proc, setup, sent, pending, stopCh, mux, hook, wg, work,
                 late, pc, lvl, timer>>

\* PreStop checks the level before it locks; the append happens under mux.
PreStopInBounds(h) ==
  /\ proc = "up"
  /\ setup
  /\ h \notin preStopFuncs
  /\ HookLevel[h] <= LevelMax
  /\ mux = Free
  /\ preStopFuncs' = preStopFuncs \cup {h}
  /\ UNCHANGED <<proc, setup, sent, pending, stopCh, mux, hook, wg, work,
                 late, pc, lvl, timer>>

PreStopOutOfBounds(h) ==
  /\ proc = "up"
  /\ setup
  /\ HookLevel[h] > LevelMax
  /\ proc' = "level_panic"
  /\ UNCHANGED <<setup, sent, pending, stopCh, mux, preStopFuncs, hook, wg,
                 work, late, pc, lvl, timer>>

PreStop(h) == PreStopInBounds(h) \/ PreStopOutOfBounds(h)

\* The walk has seen the counter of the level at zero.
Drained(l) == l > lvl \/ (l = lvl /\ \E p \in Stoppers : pc[p] = "woken")

\* AddFor and DoneFor take no lock and ignore the state of the shutdown.
AddFor(w) ==
  /\ proc = "up"
  /\ setup
  /\ work[w] = "none"
  /\ work' = [work EXCEPT ![w] = "active"]
  /\ wg' = [wg EXCEPT ![WorkLevel[w]] = @ + 1]
  /\ late' = IF Drained(WorkLevel[w]) THEN late \cup {w} ELSE late
  /\ UNCHANGED <<proc, setup, sent, pending, stopCh, mux, preStopFuncs, hook,
                 pc, lvl, timer>>

\* Mutant: a unit of work is uncounted and may be uncounted again.
DoneForAgain(w) ==
  /\ proc = "up"
  /\ work[w] = "active"
  /\ wg' = [wg EXCEPT ![WorkLevel[w]] = @ - 1]
  /\ UNCHANGED <<proc, setup, sent, pending, stopCh, mux, preStopFuncs, hook,
                 work, late, pc, lvl, timer>>

\* The safeStop that the last unit of its level wakes.
Sleepers(w) ==
  {p \in Stoppers : pc[p] = "asleep" /\ WorkLevel[w] = lvl /\ wg[lvl] = 1}

\* Mutant: every DoneFor wakes the waiting safeStop.
DoneForWakes(w) ==
  /\ proc = "up"
  /\ work[w] = "active"
  /\ work' = [work EXCEPT ![w] = "done"]
  /\ wg' = [wg EXCEPT ![WorkLevel[w]] = @ - 1]
  /\ pc' = [p \in Stoppers |->
             IF pc[p] = "asleep" /\ WorkLevel[w] = lvl THEN "woken" ELSE pc[p]]
  /\ UNCHANGED <<proc, setup, sent, pending, stopCh, mux, preStopFuncs, hook,
                 late, lvl, timer>>

DoneFor(w) ==
  /\ proc = "up"
  /\ work[w] = "active"
  /\ work' = [work EXCEPT ![w] = "done"]
  /\ wg' = [wg EXCEPT ![WorkLevel[w]] = @ - 1]
  /\ pc' = [p \in Stoppers |-> IF p \in Sleepers(w) THEN "woken" ELSE pc[p]]
  /\ UNCHANGED <<proc, setup, sent, pending, stopCh, mux, preStopFuncs, hook,
                 late, lvl, timer>>

-----------------------------------------------------------------------------
(* Signals and safeStop.                                                   *)

\* signal.Notify never blocks: a signal that finds the channel full is lost.
Signal ==
  /\ proc = "up"
  /\ setup
  /\ sent < MaxSignals
  /\ sent' = sent + 1
  /\ pending' = IF pending < SignalCap THEN pending + 1 ELSE pending
  /\ UNCHANGED <<proc, setup, stopCh, mux, preStopFuncs, hook, wg, work, late,
                 pc, lvl, timer>>

\* Mutant: no timer is started.
EnterSafeStopNoTimer(p) ==
  /\ proc = "up"
  /\ setup
  /\ pc[p] = "idle"
  /\ pc' = [pc EXCEPT ![p] = "lock"]
  /\ UNCHANGED timer

\* safeStop starts the timer goroutine before it asks for the lock.
EnterSafeStop(p) ==
  /\ proc = "up"
  /\ setup
  /\ pc[p] = "idle"
  /\ pc' = [pc EXCEPT ![p] = "lock"]
  /\ timer' = [timer EXCEPT ![p] = "armed"]

\* The signal goroutine receives one signal, ever.
ReceiveSignal ==
  /\ EnterSafeStop(SignalProc)
  /\ pending > 0
  /\ pending' = pending - 1
  /\ UNCHANGED <<proc, setup, sent, stopCh, mux, preStopFuncs, hook, wg, work,
                 late, lvl>>

SafeStop(p) ==
  /\ EnterSafeStop(p)
  /\ UNCHANGED <<proc, setup, sent, pending, stopCh, mux, preStopFuncs, hook,
                 wg, work, late, lvl>>

\* The lock is granted and the stop channel closed.
CloseStopCh(p) ==
  /\ stopCh = "open"
  /\ mux' = p
  /\ stopCh' = "closed"
  /\ pc' = [pc EXCEPT ![p] = "launch"]
  /\ UNCHANGED proc

\* close of a closed channel panics; nothing recovers, the process dies.
CloseTwice ==
  /\ stopCh = "closed"
  /\ proc' = "close_panic"
  /\ UNCHANGED <<mux, stopCh, pc>>

\* Mutant: safeStop does not wait for the lock.
AcquireUnlocked(p) ==
  /\ proc = "up"
  /\ pc[p] = "lock"
  /\ CloseStopCh(p) \/ CloseTwice
  /\ UNCHANGED <<setup, sent, pending, preStopFuncs, hook, wg, work, late, lvl,
                 timer>>

\* Mutant: safeStop unlocks as soon as the channel is closed.
AcquireBriefly(p) ==
  /\ proc = "up"
  /\ pc[p] = "lock"
  /\ mux = Free
  /\ stopCh = "open"
  /\ stopCh' = "closed"
  /\ pc' = [pc EXCEPT ![p] = "launch"]
  /\ UNCHANGED <<proc, mux, setup, sent, pending, preStopFuncs, hook, wg, work,
                 late, lvl, timer>>

Acquire(p) ==
  /\ proc = "up"
  /\ pc[p] = "lock"
  /\ mux = Free
  /\ CloseStopCh(p) \/ CloseTwice
  /\ UNCHANGED <<setup, sent, pending, preStopFuncs, hook, wg, work, late, lvl,
                 timer>>

\* Mutant: the hooks of the higher levels are started once more.
LaunchHooksFromTop(p) ==
  /\ proc = "up"
  /\ pc[p] = "launch"
  /\ hook' = [h \in Hooks |->
               IF h \in preStopFuncs /\ HookLevel[h] >= lvl THEN "running" ELSE hook[h]]
  /\ pc' = [pc EXCEPT ![p] = "join"]
  /\ UNCHANGED <<proc, setup, sent, pending, stopCh, mux, preStopFuncs, wg,
                 work, late, lvl, timer>>

\* One goroutine per hook of the level; a level without hooks starts none.
LaunchHooks(p) ==
  /\ proc = "up"
  /\ pc[p] = "launch"
  /\ hook' = [h \in Hooks |-> IF h \in HooksAt(lvl) THEN "running" ELSE hook[h]]
  /\ pc' = [pc EXCEPT ![p] = "join"]
  /\ UNCHANGED <<proc, setup, sent, pending, stopCh, mux, preStopFuncs, wg,
                 work, late, lvl, timer>>

\* A hook that calls PreStop needs mux, which the running safeStop holds.
HookReturns(h) ==
  /\ proc = "up"
  /\ hook[h] = "running"
  /\ h \in Registering => mux = Free
  /\ hook' = [hook EXCEPT ![h] = "done"]
  /\ UNCHANGED <<proc, setup, sent, pending, stopCh, mux, preStopFuncs, wg,
                 work, late, pc, lvl, timer>>

\* Mutant: the hooks of a level are not joined.
JoinNothing(p) ==
  /\ proc = "up"
  /\ pc[p] = "join"
  /\ pc' = [pc EXCEPT ![p] = "wait"]
  /\ UNCHANGED <<proc, setup, sent, pending, stopCh, mux, preStopFuncs, hook,
                 wg, work, late, lvl, timer>>

JoinHooks(p) ==
  /\ proc = "up"
  /\ pc[p] = "join"
  /\ \A h \in HooksAt(lvl) : hook[h] = "done"
  /\ pc' = [pc EXCEPT ![p] = "wait"]
  /\ UNCHANGED <<proc, setup, sent, pending, stopCh, mux, preStopFuncs, hook,
                 wg, work, late, lvl, timer>>

\* Mutant: the wait group of the level is not waited for.
WaitForNothing(p) ==
  /\ proc = "up"
  /\ pc[p] = "wait"
  /\ lvl' = lvl - 1
  /\ pc' = [pc EXCEPT ![p] = IF lvl = 0 THEN "exit" ELSE "launch"]
  /\ UNCHANGED <<proc, setup, sent, pending, stopCh, mux, preStopFuncs, hook,
                 wg, work, late, timer>>

\* Mutant: the loop stops above LevelRoot.
WaitForAboveRoot(p) ==
  /\ proc = "up"
  /\ pc[p] = "wait"
  /\ wg[lvl] = 0
  /\ lvl' = lvl - 1
  /\ pc' = [pc EXCEPT ![p] = IF lvl <= 1 THEN "exit" ELSE "launch"]
  /\ UNCHANGED <<proc, setup, sent, pending, stopCh, mux, preStopFuncs, hook,
                 wg, work, late, timer>>

\* Wait has returned: the loop goes on to the next level or is over.
Descend(p) ==
  /\ lvl' = lvl - 1
  /\ pc' = [pc EXCEPT ![p] = IF lvl = 0 THEN "exit" ELSE "launch"]
  /\ UNCHANGED proc

\* Wait returns at once or goes to sleep on the group's semaphore.
WaitFor(p) ==
  /\ proc = "up"
  /\ pc[p] = "wait"
  /\ \/ wg[lvl] = 0 /\ Descend(p)
     \/ /\ wg[lvl] > 0
        /\ pc' = [pc EXCEPT ![p] = "asleep"]
        /\ UNCHANGED <<proc, lvl>>
  /\ UNCHANGED <<setup, sent, pending, stopCh, mux, preStopFuncs, hook, wg,
                 work, late, timer>>

\* The counter was seen at zero, but Wait looks at it again when it wakes: if
\* an AddFor was faster, it panics ("WaitGroup is reused before previous Wait
\* has returned"), and nothing recovers.  An AddFor that comes while DoneFor
\* is still releasing the semaphore panics itself, with the same outcome.
WakeUp(p) ==
  /\ proc = "up"
  /\ pc[p] = "woken"
  /\ \/ wg[lvl] = 0 /\ Descend(p)
     \/ /\ wg[lvl] > 0
        /\ proc' = "wait_panic"
        /\ UNCHANGED <<pc, lvl>>
  /\ UNCHANGED <<setup, sent, pending, stopCh, mux, preStopFuncs, hook, wg,
                 work, late, timer>>

\* exitFunc(0): os.Exit ends the process, any other function may return, and
\* then the deferred Unlock runs.
ExitFunc(p) ==
  /\ proc = "up"
  /\ pc[p] = "exit"
  /\ \/ /\ p \notin Returning
        /\ proc' = "exited"
        /\ UNCHANGED <<mux, pc>>
     \/ /\ p \in Returning
        /\ mux' = Free
        /\ pc' = [pc EXCEPT ![p] = "returned"]
        /\ UNCHANGED proc
  /\ UNCHANGED <<setup, sent, pending, stopCh, preStopFuncs, hook, wg, work,
                 late, lvl, timer>>

\* The timer goroutine: nothing ever stops the timer.
TimerFires(p) ==
  /\ proc = "up"
  /\ TimeoutElapses
  /\ timer[p] = "armed"
  /\ timer' = [timer EXCEPT ![p] = "fired"]
  /\ proc' = IF p \in Returning THEN proc ELSE "timed_out"
  /\ UNCHANGED <<setup, sent, pending, stopCh, mux, preStopFuncs, hook, wg,
                 work, late, pc, lvl>>

-----------------------------------------------------------------------------
StopperStep(p) ==
  Acquire(p) \/ LaunchHooks(p) \/ JoinHooks(p) \/ WaitFor(p) \/ WakeUp(p)
  \/ ExitFunc(p)

\* The process is gone; nothing else happens.
Terminated == proc # "up" /\ UNCHANGED vars

Next ==
  \/ SetupSignalHandler
  \/ SignalHandlerNoInit
  \/ \E h \in Hooks : PreStop(h) \/ HookReturns(h)
  \/ \E w \in Work : AddFor(w) \/ DoneFor(w)
  \/ Signal
  \/ ReceiveSignal
  \/ \E p \in Callers : SafeStop(p)
  \/ \E p \in Stoppers : StopperStep(p) \/ TimerFires(p)
  \/ Terminated

Spec == Init /\ [][Next]_vars

\* The scheduler runs the shutdown goroutines and the timers go off; hooks
\* and workers promise nothing.
StopperFairness ==
  /\ WF_vars(ReceiveSignal)
  /\ \A p \in Stoppers : WF_vars(StopperStep(p)) /\ WF_vars(TimerFires(p))

FairSpec == Spec /\ StopperFairness

-----------------------------------------------------------------------------
(* Properties.                                                             *)

ProcStates ==
  {"up", "exited", "timed_out", "close_panic", "level_panic", "init_panic",
   "wait_panic"}

\* The range of every variable.
Types ==
  /\ proc \in ProcStates
  /\ setup \in BOOLEAN
  /\ sent \in 0 .. MaxSignals
  /\ pending \in 0 .. SignalCap
  /\ stopCh \in {"open", "closed"}
  /\ mux \in Stoppers \cup {Free}
  /\ preStopFuncs \subseteq Hooks
  /\ hook \in [Hooks -> {"idle", "running", "done"}]
  /\ wg \in [Levels -> Nat]
  /\ work \in [Work -> {"none", "active", "done"}]
  /\ late \subseteq Work
  /\ pc \in [Stoppers ->
              {"idle", "lock", "returned"} \cup Walking]
  /\ lvl \in -1 .. LevelMax
  /\ timer \in [Stoppers -> {"off", "armed", "fired"}]

\* Every variable of the Handler keeps its type; in particular no wait-group
\* counter goes negative (sync.WaitGroup would panic in DoneFor), and at most
\* one safeStop is past close(stopCh), the one that holds mux.
TypeOK ==
  /\ Types
  /\ \A p \in Stoppers : pc[p] \in Walking => mux = p

\* "PreStop registers f to run at level during shutdown, before waiting for
\* that level" and the levels are taken from the top: when a hook has started,
\* no hook of a higher level is still to run or running.  (A hook registered
\* after a shutdown whose exitFunc returned stays idle; mux is then free.)
HookOrder ==
  \A h, k \in Hooks :
    /\ Started(h)
    /\ k \in preStopFuncs
    /\ HookLevel[k] > HookLevel[h]
    /\ mux # Free
    => hook[k] = "done"

\* safeStop drains a level before it runs the hooks below: work that is active
\* above the level of a started hook was added after its level was drained.
\* With LevelRequest > LevelDB this is why a request that was counted in time
\* never sees the database closed under it.
DrainBeforeHooks ==
  \A h \in Hooks, w \in Work :
    /\ Started(h)
    /\ WorkLevel[w] > HookLevel[h]
    /\ work[w] = "active"
    => w \in late

\* A shutdown that was not cut off by the timer ran every registered hook to
\* its end and left no work behind but the work that was added too late.
GracefulExit ==
  proc = "exited" =>
    /\ \A h \in preStopFuncs : hook[h] = "done"
    /\ \A w \in Work : work[w] = "active" => w \in late

\* The stop channel is closed twice only when an exitFunc returned: with
\* os.Exit the second safeStop, racing the first, waits for mux for ever.
PanicNeedsReturningExit ==
  proc = "close_panic" => \E p \in Returning : pc[p] = "returned"

\* Some work of the level the walk is at was counted when the level was drained.
RacingWork == \E w \in late : work[w] = "active" /\ WorkLevel[w] = lvl

\* The Wait of safeStop panics only because of work that was counted between
\* the end of the level's last unit and the moment safeStop woke up: programs
\* that count no work once they have seen the stop channel closed are safe.
WaitPanicNeedsRace == proc = "wait_panic" => RacingWork

\* Once shutdown has begun PreStop blocks: no hook is added to the set that
\* safeStop walks through while it walks through it.
RegistrationFrozen ==
  [][preStopFuncs' # preStopFuncs =>
       \/ stopCh = "open"
       \/ \E p \in Returning : pc[p] = "returned"]_vars

\* A hook is run at most once and never runs before the stop channel is closed.
HooksRunOnce ==
  [][\A h \in Hooks : hook'[h] # hook[h] =>
       /\ stopCh = "closed"
       /\ <<hook[h], hook'[h]>> \in {<<"idle", "running">>, <<"running", "done">>}]_vars

\* The part of the Handler's state that its contract speaks about.
Phase ==
  IF proc \notin {"up", "exited"} THEN "aborted"
  ELSE IF proc = "exited" \/ \E p \in Stoppers : pc[p] = "returned" THEN "complete"
  ELSE IF stopCh = "closed" THEN "draining" ELSE "serving"
Finished == {h \in Hooks : hook[h] = "done"}
Busy == {w \in Work : work[w] = "active"}

Contract == INSTANCE LevelledShutdown
              WITH phase <- Phase, floor <- lvl, registered <- preStopFuncs,
                   finished <- Finished, busy <- Busy

\* The Handler, with its goroutines racing for mux and its timers, implements
\* the level-by-level shutdown of LevelledShutdown.
MeetsContract == Contract!Spec

\* "second signal. Exit directly.": two signals end the process within the
\* timeout even if a hook hangs.
SecondSignalExits == (sent >= 2) ~> (proc # "up")
=============================================================================
