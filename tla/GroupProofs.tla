----------------------------- MODULE GroupProofs -----------------------------
(***************************************************************************)
(* Proofs about Group: the composed system is an implementation of Signals *)
(* (so the theorems of SignalsProofs carry over to it), and no group ever  *)
(* waits in SafeStop for an actor that it should have uncounted itself.    *)
(***************************************************************************)
EXTENDS Group, SignalsProofs, SequenceTheorems

\* Every step of the composed system is a Handler step or a Handler stutter.
LEMMA GStepUsesHandler ==
  ASSUME [GNext]_allVars, GTypeOK
  PROVE  [Next]_vars
<1>1. CASE UNCHANGED allVars
  BY <1>1 DEF allVars
<1>2. CASE HandlerStep
  BY <1>2 DEF HandlerStep, Next
<1>3. ASSUME NEW a \in Actors, Add(a) \/ ExecuteReturns(a) PROVE [Next]_vars
  BY <1>3, GroupAssumption DEF Add, ExecuteReturns, Next
<1>4. ASSUME NEW g \in Groups, GroupStep(g) PROVE [Next]_vars
  <2>1. CASE Interrupt(g)
    <3>1. idx[g] \in DOMAIN actors[g] /\ actors[g][idx[g]] \in Work
      BY <2>1, GroupAssumption DEF Interrupt, GTypeOK
    <3>2. QED
      BY <2>1, <3>1 DEF Interrupt, Next
  <2>2. CASE InterruptSafeStop(g)
    BY <2>2, GroupAssumption DEF InterruptSafeStop, Next
  <2>3. CASE Run(g) \/ StopChannelReturns(g) \/ FirstReturn(g) \/ RunReturns(g)
    BY <2>3 DEF Run, StopChannelReturns, FirstReturn, RunReturns
  <2>4. QED
    BY <1>4, <2>1, <2>2, <2>3 DEF GroupStep
<1>5. QED
  BY <1>1, <1>2, <1>3, <1>4 DEF GNext

\* A group is interrupting before it is stopping, a safeStop of the group has
\* begun only when it is, and the actors before idx are uncounted.
GroupInv ==
  \A g \in Groups :
    /\ pc[g] # "idle" => gpc[g] \in {"stopping", "returned"}
    /\ gpc[g] \in {"stopping", "returned"} => idx[g] > Len(actors[g])
    /\ gpc[g] \in {"adding", "running"} => idx[g] = 1
    /\ \A i \in DOMAIN actors[g] : i < idx[g] => work[actors[g][i]] = "done"

GIInv == IInv /\ GTypeOK /\ GroupInv

\* A program that has added no actor yet satisfies the invariant.
LEMMA GInitIInv == GInit => GIInv
<1> SUFFICES ASSUME GInit PROVE GIInv
  OBVIOUS
<1>1. IInv /\ TypeOK
  BY InitIInv, IInvTypeOK DEF GInit
<1>2. GTypeOK
  BY <1>1 DEF GInit, GTypeOK
<1>3. GroupInv
  BY GroupAssumption DEF GInit, GroupInv, Init, Stoppers
<1>4. QED
  BY <1>1, <1>2, <1>3 DEF GIInv

\* Only AddFor and DoneFor touch work, and "done" is final.
LEMMA DoneIsFinal ==
  ASSUME Types, [Next]_vars
  PROVE  \A w \in Work : work[w] = "done" => work'[w] = "done"
BY DEF Next, PreStop, SetupSignalHandler, SignalHandlerNoInit, PreStopInBounds,
       PreStopOutOfBounds, HookReturns, AddFor, DoneFor, Signal, ReceiveSignal,
       SafeStop, StopperStep, Acquire, LaunchHooks, JoinHooks, WaitFor, WakeUp, Descend, ExitFunc,
       TimerFires, Terminated, vars, Types

\* A group's safeStop is entered by the group alone.
LEMMA IdleStaysIdle ==
  ASSUME Types, HandlerStep
  PROVE  \A g \in Groups : pc[g] = "idle" => pc'[g] = "idle"
BY GroupAssumption, ProcAssumption
DEF HandlerStep, PreStop, SetupSignalHandler, PreStopInBounds,
    PreStopOutOfBounds, HookReturns, AddFor, DoneFor, Signal, ReceiveSignal,
    EnterSafeStop, StopperStep, Acquire, CloseStopCh, CloseTwice, LaunchHooks,
    JoinHooks, WaitFor, WakeUp, Descend, ExitFunc, TimerFires, Terminated, vars,
    Types, Stoppers, Sleepers

\* Add, Run, the interrupts and every step of the Handler keep the invariant.
LEMMA GNextIInv == GIInv /\ [GNext]_allVars => GIInv'
<1> SUFFICES ASSUME GIInv, [GNext]_allVars PROVE GIInv'
  OBVIOUS
<1>a. [Next]_vars
  BY GStepUsesHandler DEF GIInv
<1>b. IInv' /\ TypeOK'
  <2>1. IInv'
    BY <1>a, NextIInv DEF GIInv
  <2>2. QED
    BY <2>1, IInvTypeOK, PTL
<1>c. \A w \in Work : work[w] = "done" => work'[w] = "done"
  BY <1>a, DoneIsFinal DEF GIInv, IInv
<1>d. \A g \in Groups : \A i \in DOMAIN actors[g] : actors[g][i] \in Work
  BY GroupAssumption DEF GIInv, GTypeOK
<1>1. CASE UNCHANGED groupVars /\ (HandlerStep \/ UNCHANGED allVars)
  <2>1. GTypeOK'
    BY <1>1, <1>b DEF GIInv, GTypeOK, groupVars
  <2>2. \A g \in Groups : pc[g] = "idle" => pc'[g] = "idle"
    BY <1>1, IdleStaysIdle DEF GIInv, IInv, allVars, vars
  <2>3. GroupInv'
    BY <1>1, <1>c, <1>d, <2>2 DEF GIInv, GroupInv, groupVars
  <2>4. QED
    BY <1>b, <2>1, <2>3 DEF GIInv
<1>2. ASSUME NEW a \in Actors, Add(a) PROVE GIInv'
  <2> DEFINE g == ActorGroup[a]
  <2>1. g \in Groups /\ gpc[g] = "adding"
    BY <1>2, GroupAssumption DEF Add
  <2>2. actors' = actors \/ actors' = [actors EXCEPT ![g] = Append(actors[g], a)]
    BY <1>2 DEF Add
  <2>3. UNCHANGED <<gpc, idx, exec, waiter, pc>>
    BY <1>2 DEF Add, AddFor, SignalHandlerNoInit
  <2>4. /\ actors' \in [Groups -> Seq(Actors)]
        /\ \A k \in Groups : k # g => actors'[k] = actors[k]
        /\ Len(actors'[g]) >= Len(actors[g])
    <3> DEFINE s == actors[g]
    <3>1. actors \in [Groups -> Seq(Actors)] /\ s \in Seq(Actors)
      BY <2>1 DEF GIInv, GTypeOK
    <3>2. Append(s, a) \in Seq(Actors) /\ Len(Append(s, a)) = Len(s) + 1 /\ Len(s) \in Nat
      BY <3>1
    <3> HIDE DEF s
    <3>3. CASE actors' = actors
      BY <3>1, <3>2, <3>3 DEF s
    <3>4. CASE actors' = [actors EXCEPT ![g] = Append(s, a)]
      BY <2>1, <3>1, <3>2, <3>4 DEF s
    <3>5. QED
      BY <2>2, <3>3, <3>4 DEF s
  <2>5. GTypeOK'
    <3>1. idx[g] = 1 /\ Len(actors'[g]) \in Nat
      BY <2>1, <2>4 DEF GIInv, GroupInv
    <3>2. ASSUME NEW k \in Groups PROVE idx[k] <= Len(actors'[k]) + 1
      <4>1. CASE k = g
        BY <3>1, <4>1
      <4>2. CASE k # g
        BY <2>4, <4>2 DEF GIInv, GTypeOK
      <4>3. QED
        BY <4>1, <4>2
    <3>3. QED
      BY <1>b, <2>3, <2>4, <3>2 DEF GIInv, GTypeOK
  <2>6. GroupInv'
    <3> SUFFICES ASSUME NEW k \in Groups
                 PROVE  /\ pc[k] # "idle" => gpc[k] \in {"stopping", "returned"}
                        /\ gpc[k] \in {"stopping", "returned"} => idx[k] > Len(actors'[k])
                        /\ gpc[k] \in {"adding", "running"} => idx[k] = 1
                        /\ \A i \in DOMAIN actors'[k] : i < idx[k] => work'[actors'[k][i]] = "done"
      BY <2>3 DEF GroupInv
    <3>1. CASE k = g
      BY <2>1, <2>4, <3>1 DEF GIInv, GroupInv
    <3>2. CASE k # g
      BY <1>c, <1>d, <2>4, <3>2 DEF GIInv, GroupInv
    <3>3. QED
      BY <3>1, <3>2
  <2>7. QED
    BY <1>b, <2>5, <2>6 DEF GIInv
<1>3. ASSUME NEW a \in Actors, ExecuteReturns(a) PROVE GIInv'
  <2>1. GTypeOK'
    BY <1>3, <1>b DEF ExecuteReturns, GIInv, GTypeOK
  <2>2. GroupInv'
    BY <1>3 DEF ExecuteReturns, GIInv, GroupInv, vars
  <2>3. QED
    BY <1>b, <2>1, <2>2 DEF GIInv
<1>4. ASSUME NEW g \in Groups,
             Run(g) \/ StopChannelReturns(g) \/ FirstReturn(g) \/ RunReturns(g)
      PROVE  GIInv'
  <2>1. GTypeOK'
    <3>1. CASE Run(g)
      BY <3>1, <1>b DEF Run, GIInv, GTypeOK
    <3>2. CASE StopChannelReturns(g)
      BY <3>2, <1>b DEF StopChannelReturns, GIInv, GTypeOK
    <3>3. CASE FirstReturn(g) \/ RunReturns(g)
      BY <3>3, <1>b DEF FirstReturn, RunReturns, GIInv, GTypeOK
    <3>4. QED
      BY <1>4, <3>1, <3>2, <3>3
  <2>2. UNCHANGED <<vars, actors, idx>>
    BY <1>4 DEF Run, StopChannelReturns, FirstReturn, RunReturns
  <2>3. \/ gpc' = gpc
        \/ gpc[g] = "adding" /\ gpc' = [gpc EXCEPT ![g] = "running"]
        \/ gpc[g] = "running" /\ gpc' = [gpc EXCEPT ![g] = "interrupting"]
        \/ gpc[g] = "stopping" /\ gpc' = [gpc EXCEPT ![g] = "returned"]
    BY <1>4 DEF Run, StopChannelReturns, FirstReturn, RunReturns
  <2>4. GroupInv'
    BY <2>2, <2>3 DEF GIInv, GTypeOK, GroupInv, vars
  <2>5. QED
    BY <1>b, <2>1, <2>4 DEF GIInv
<1>5. ASSUME NEW g \in Groups, Interrupt(g) PROVE GIInv'
  <2>1. UNCHANGED <<actors, gpc, exec, waiter>> /\ gpc[g] = "interrupting"
    BY <1>5 DEF Interrupt
  <2>1a. \A k \in Groups : pc[k] = "idle" => pc'[k] = "idle"
    BY <1>5, GroupAssumption DEF Interrupt, DoneFor, Sleepers, Stoppers
  <2>2. idx' = [idx EXCEPT ![g] = idx[g] + 1] /\ idx[g] <= Len(actors[g])
    BY <1>5 DEF Interrupt
  <2>3. GTypeOK'
    BY <1>b, <2>1, <2>2 DEF GIInv, GTypeOK
  <2>4. work'[actors[g][idx[g]]] = "done"
    <3>1. actors[g][idx[g]] \in Work
      BY <1>d, <2>2 DEF GIInv, GTypeOK
    <3>2. QED
      BY <1>5, <3>1 DEF Interrupt, DoneFor, GIInv, IInv, Types
  <2>5. \A i \in DOMAIN actors[g] : i < idx[g] + 1 => work'[actors[g][i]] = "done"
    BY <1>c, <1>d, <2>4 DEF GIInv, GTypeOK, GroupInv
  <2>6. GroupInv'
    BY <1>c, <1>d, <2>1, <2>1a, <2>2, <2>5 DEF GIInv, GTypeOK, GroupInv
  <2>7. QED
    BY <1>b, <2>3, <2>6 DEF GIInv
<1>6. ASSUME NEW g \in Groups, InterruptSafeStop(g) PROVE GIInv'
  <2>1. GTypeOK'
    BY <1>6, <1>b DEF InterruptSafeStop, GIInv, GTypeOK
  <2>2. GroupInv'
    BY <1>6, GroupAssumption
    DEF InterruptSafeStop, SafeStop, EnterSafeStop, GIInv, GTypeOK, IInv, Types,
        GroupInv, Stoppers
  <2>3. QED
    BY <1>b, <2>1, <2>2 DEF GIInv
<1>7. QED
  BY <1>1, <1>2, <1>3, <1>4, <1>5, <1>6
  DEF GNext, GroupStep, HandlerStep, allVars

\* GIInv holds in every reachable state of the groups and the Handler: in
\* particular the wrapped interrupts uncount the actors in the order of Add.
THEOREM GInvariance == GSpec => []GIInv
  BY GInitIInv, GNextIInv, PTL DEF GSpec

\* Groups use the Handler within its rules.
THEOREM GroupUsesHandler == GSpec => UsesHandler
<1>1. GInit => Init
  BY DEF GInit
<1>2. GIInv /\ [GNext]_allVars => [Next]_vars
  BY GStepUsesHandler DEF GIInv
<1>3. QED
  BY <1>1, <1>2, GInvariance, PTL DEF GSpec, Spec, UsesHandler

\* The state of every group keeps its type.
THEOREM GTyping == GSpec => []GTypeOK
<1>1. GIInv => GTypeOK
  BY DEF GIInv
<1>2. QED
  BY <1>1, GInvariance, PTL

\* A group that is in SafeStop has uncounted all its actors.
THEOREM GroupNoSelfWait == GSpec => []NoSelfWait
<1>1. GIInv => NoSelfWait
  <2> SUFFICES ASSUME GIInv, NEW g \in Groups, pc[g] # "idle",
                      NEW a \in Actors, NEW i \in DOMAIN actors[g], actors[g][i] = a
               PROVE  work[a] = "done"
    BY DEF NoSelfWait, MembersOf
  <2>1. idx[g] > Len(actors[g])
    BY DEF GIInv, GroupInv
  <2>2. i < idx[g]
    BY <2>1 DEF GIInv, GTypeOK
  <2>3. QED
    BY <2>2 DEF GIInv, GroupInv
<1>2. QED
  BY <1>1, GInvariance, PTL
=============================================================================
