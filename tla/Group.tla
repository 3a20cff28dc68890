-------------------------------- MODULE Group --------------------------------
(***************************************************************************)
(* w.Group of wrapper/run.go on top of the signals Handler: actors that    *)
(* run concurrently and are interrupted together.  Every actor is a unit   *)
(* of level-1 work of the Handler: Add counts it, and its interrupt, not   *)
(* its execute, uncounts it.  Run appends one more actor, which waits for  *)
(* the stop channel and whose interrupt is SafeStop.                       *)
(*                                                                         *)
(* The engine underneath is github.com/oklog/run (external): Run starts    *)
(* every execute in a goroutine, waits for the first one to return, calls  *)
(* every interrupt in the order of Add, and waits for the other executes.  *)
(***************************************************************************)
EXTENDS Signals, Sequences

CONSTANTS
  Actors,       \* the actors added by the program; units of level-1 work
  Groups,       \* the groups; each may call SafeStop
  ActorGroup    \* the group each actor is added to

ASSUME GroupAssumption ==
  /\ Actors \subseteq Work
  /\ Groups = Callers
  /\ ActorGroup \in [Actors -> Groups]

VARIABLES
  actors,   \* the actors of each group in the order of Add
  gpc,      \* where each group is in Run
  idx,      \* the position of the interrupt Run calls next
  exec,     \* the execute of each actor
  waiter    \* the execute of the actor that Run appends

groupVars == <<actors, gpc, idx, exec, waiter>>
allVars == <<vars, groupVars>>

MembersOf(g) == {a \in Actors : \E i \in DOMAIN actors[g] : actors[g][i] = a}

GInit ==
  /\ Init
  /\ actors = [g \in Groups |-> <<>>]
  /\ gpc = [g \in Groups |-> "adding"]
  /\ idx = [g \in Groups |-> 1]
  /\ exec = [a \in Actors |-> "idle"]
  /\ waiter = [g \in Groups |-> "idle"]

-----------------------------------------------------------------------------
\* Mutant: Add counts the actor twice.
AddTwice(a) ==
  LET g == ActorGroup[a]
  IN  /\ proc = "up" /\ setup
      /\ gpc[g] = "adding"
      /\ work[a] = "none"
      /\ work' = [work EXCEPT ![a] = "active"]
      /\ wg' = [wg EXCEPT ![WorkLevel[a]] = @ + 2]
      /\ actors' = [actors EXCEPT ![g] = Append(@, a)]
      /\ UNCHANGED <<proc, setup, sent, pending, stopCh, mux, preStopFuncs, hook,
                     late, pc, lvl, timer, gpc, idx, exec, waiter>>

\* Group.Add: SignalHandler() panics without a Handler, else AddFor(1, 1).
Add(a) ==
  LET g == ActorGroup[a]
  IN  /\ gpc[g] = "adding"
      /\ \/ /\ AddFor(a)
            /\ actors' = [actors EXCEPT ![g] = Append(@, a)]
         \/ /\ SignalHandlerNoInit
            /\ UNCHANGED actors
      /\ UNCHANGED <<gpc, idx, exec, waiter>>

\* Group.Run appends the stop-channel actor and starts every execute.
Run(g) ==
  /\ proc = "up"
  /\ setup
  /\ gpc[g] = "adding"
  /\ gpc' = [gpc EXCEPT ![g] = "running"]
  /\ exec' = [a \in Actors |-> IF a \in MembersOf(g) THEN "running" ELSE exec[a]]
  /\ waiter' = [waiter EXCEPT ![g] = "running"]
  /\ UNCHANGED <<vars, actors, idx>>

ExecuteReturns(a) ==
  /\ proc = "up"
  /\ exec[a] = "running"
  /\ exec' = [exec EXCEPT ![a] = "returned"]
  /\ UNCHANGED <<vars, actors, gpc, idx, waiter>>

\* <-stopCh.Channel() and return ErrStopping.
StopChannelReturns(g) ==
  /\ proc = "up"
  /\ waiter[g] = "running"
  /\ stopCh = "closed"
  /\ waiter' = [waiter EXCEPT ![g] = "returned"]
  /\ UNCHANGED <<vars, actors, gpc, idx, exec>>

\* The first execute to return starts the interrupts.
FirstReturn(g) ==
  /\ proc = "up"
  /\ gpc[g] = "running"
  /\ waiter[g] = "returned" \/ \E a \in MembersOf(g) : exec[a] = "returned"
  /\ gpc' = [gpc EXCEPT ![g] = "interrupting"]
  /\ UNCHANGED <<vars, actors, idx, exec, waiter>>

\* Mutant: an interrupt is called and the next one skipped.
InterruptSkip(g) ==
  /\ gpc[g] = "interrupting"
  /\ idx[g] <= Len(actors[g])
  /\ DoneFor(actors[g][idx[g]])
  /\ idx' = [idx EXCEPT ![g] = @ + 2]
  /\ UNCHANGED <<actors, gpc, exec, waiter>>

\* The wrapped interrupt: interrupt(err) returns, then DoneFor(1).
Interrupt(g) ==
  /\ gpc[g] = "interrupting"
  /\ idx[g] <= Len(actors[g])
  /\ DoneFor(actors[g][idx[g]])
  /\ idx' = [idx EXCEPT ![g] = @ + 1]
  /\ UNCHANGED <<actors, gpc, exec, waiter>>

\* Mutant: the stop-channel actor is not the last to be interrupted.
InterruptSafeStopEarly(g) ==
  /\ gpc[g] = "interrupting"
  /\ SafeStop(g)
  /\ gpc' = [gpc EXCEPT ![g] = "stopping"]
  /\ UNCHANGED <<actors, idx, exec, waiter>>

\* The last interrupt is the one of the stop-channel actor.
InterruptSafeStop(g) ==
  /\ gpc[g] = "interrupting"
  /\ idx[g] > Len(actors[g])
  /\ SafeStop(g)
  /\ gpc' = [gpc EXCEPT ![g] = "stopping"]
  /\ UNCHANGED <<actors, idx, exec, waiter>>

\* SafeStop comes back only if ExitFunc does; then Run waits for the rest.
RunReturns(g) ==
  /\ proc = "up"
  /\ gpc[g] = "stopping"
  /\ pc[g] = "returned"
  /\ waiter[g] = "returned"
  /\ \A a \in MembersOf(g) : exec[a] = "returned"
  /\ gpc' = [gpc EXCEPT ![g] = "returned"]
  /\ UNCHANGED <<vars, actors, idx, exec, waiter>>

-----------------------------------------------------------------------------
\* What the rest of the program and the Handler's own goroutines do.
HandlerStep ==
  /\ \/ SetupSignalHandler
     \/ \E h \in Hooks : PreStop(h) \/ HookReturns(h)
     \/ \E w \in Work \ Actors : AddFor(w) \/ DoneFor(w)
     \/ Signal
     \/ ReceiveSignal
     \/ \E p \in Stoppers : StopperStep(p) \/ TimerFires(p)
     \/ Terminated
  /\ UNCHANGED groupVars

GroupStep(g) ==
  \/ Run(g)
  \/ StopChannelReturns(g)
  \/ FirstReturn(g)
  \/ Interrupt(g)
  \/ InterruptSafeStop(g)
  \/ RunReturns(g)

GNext ==
  \/ HandlerStep
  \/ \E a \in Actors : Add(a) \/ ExecuteReturns(a)
  \/ \E g \in Groups : GroupStep(g)

GSpec == GInit /\ [][GNext]_allVars

\* The scheduler runs the goroutines of the Handler; user code may hang.
GHandlerFairness ==
  /\ WF_allVars(ReceiveSignal /\ UNCHANGED groupVars)
  /\ \A p \in Stoppers : WF_allVars(StopperStep(p) /\ UNCHANGED groupVars)

\* Time passes: an armed timer goes off.
TimeoutsElapse ==
  \A p \in Stoppers : WF_allVars(TimerFires(p) /\ UNCHANGED groupVars)

\* The interrupts, the hooks and the counted work come to an end, and main
\* calls Run.  Nothing is assumed of the executes.
ClientsEnd ==
  /\ \A g \in Groups : WF_allVars(GroupStep(g))
  /\ \A h \in Hooks : WF_allVars(HookReturns(h) /\ UNCHANGED groupVars)
  /\ \A w \in Work \ Actors : WF_allVars(DoneFor(w) /\ UNCHANGED groupVars)

GFairSpec == GSpec /\ GHandlerFairness

-----------------------------------------------------------------------------
(* Properties.                                                             *)

\* The state of every group keeps its type and a group interrupts no actor
\* beyond its list.
GTypeOK ==
  /\ TypeOK
  /\ actors \in [Groups -> Seq(Actors)]
  /\ gpc \in [Groups ->
               {"adding", "running", "interrupting", "stopping", "returned"}]
  /\ idx \in [Groups -> Nat \ {0}]
  /\ exec \in [Actors -> {"idle", "running", "returned"}]
  /\ waiter \in [Groups -> {"idle", "running", "returned"}]
  /\ \A g \in Groups : idx[g] <= Len(actors[g]) + 1

\* Groups use the Handler within its rules: every step of the composed system
\* is a step of Signals or leaves the Handler alone, so what holds of Signals
\* holds here.
UsesHandler == Spec

\* A group that has reached SafeStop has uncounted all its actors.  SafeStop
\* runs on the goroutine that would uncount them: were one still counted, the
\* walk would wait at level 1 for itself until the timer ends the process.
NoSelfWait ==
  \A g \in Groups : pc[g] # "idle" =>
    \A a \in MembersOf(g) : work[a] = "done"

\* A termination signal ends the process, whatever hooks, workers and actors
\* do: the signal goroutine uses os.Exit and its timer needs no lock.
SignalStops ==
  TimeoutsElapse => ((pending > 0) ~> (proc # "up"))

\* When interrupts, hooks and counted work come to an end, a signal or an actor
\* that returns leads to a graceful exit, unless a timer is faster, the
\* SafeStop of a group comes to the end of a shutdown and its exitFunc returns,
\* or an Add or AddFor reuses the wait group that safeStop is just leaving and
\* Wait panics; no timer is needed.  In particular the signal goroutine and the groups, each
\* in its own safeStop, never wait for one another for ever.
StopsGracefully ==
  ClientsEnd =>
    ((\/ pending > 0
      \/ \E g \in Groups : gpc[g] = "interrupting")
       ~> (\/ proc \in {"exited", "timed_out"}
           \/ proc = "wait_panic" /\ RacingWork
           \/ \E p \in Returning : pc[p] = "returned"))

\* "Run starts all registered actors and blocks until they have all finished":
\* a shutdown that was not cut short by the timer leaves no execute running
\* (actors added after their level was drained set aside).
RunWaitsForActors ==
  proc = "exited" => \A a \in Actors \ late : exec[a] # "running"
=============================================================================
