------------------------- MODULE TaskOwnershipProofs -------------------------
(***************************************************************************)
(* That a generation of tasks is quiet once a finish returned, that none   *)
(* of its tasks escapes the stop, that completion means released and that  *)
(* failures survive, for every set of tasks and of waiters.                *)
(*                                                                         *)
(* The second part is about the native runners of a client                 *)
(* (NativeRuntime), which outlive the stop that cancelled them: they leave *)
(* the sessions after them alone.                                          *)
(***************************************************************************)
EXTENDS ClientResources, TLAPS

(* Who waits has closed the group, and only a waiter that drains has the   *)
(* lock.                                                                   *)
WaitersClosed ==
  /\ \A w \in Waiter : waiter[w] # "idle" /\ waiter[w] # "done" => closed
  /\ \A w \in Waiter : lock = w => waiter[w] = "draining"

(* FinishedIsQuiet, with the finished tasks joined too.                    *)
NothingLeft == (\E w \in Waiter : waiter[w] = "done") => closed /\ InSet = {}

(* SignalMeansReleased, with the states a told task can be in.             *)
Told == \A t \in signalled : state[t] \in {"ended", "joined", "rejected", "detached"}

IInv ==
  /\ TypeOK /\ WaitersClosed /\ NothingLeft /\ NoStragglers /\ Told /\ FailuresSurvive

-----------------------------------------------------------------------------
(* A new generation has no task: the invariant holds at first.             *)
LEMMA InitIInv == Init => IInv
  BY WaiterAssumption DEF Init, IInv, TypeOK, WaitersClosed, NothingLeft, NoStragglers,
     Told, FailuresSurvive, Alive

(* Types are preserved.                                                    *)
LEMMA TypePreserved == TypeOK /\ [Next]_vars => TypeOK'
<1> SUFFICES ASSUME TypeOK, [Next]_vars PROVE TypeOK'
  OBVIOUS
<1> USE DEF TypeOK
<1>1. CASE UNCHANGED vars
  BY <1>1 DEF vars, tasks
<1>2. ASSUME NEW t \in Task, Admit(t) PROVE TypeOK'
  BY <1>2 DEF Admit, Ended
<1>3. ASSUME NEW t \in Task, Reject(t) PROVE TypeOK'
  BY <1>3 DEF Reject
<1>4. ASSUME NEW t \in Task, Runtime(t) PROVE TypeOK'
  BY <1>4 DEF Runtime, Start, TakeAbort, Finish, Panic, DropFuture, Signal
<1>5. ASSUME NEW t \in Task, DropHandle(t) PROVE TypeOK'
  BY <1>5 DEF DropHandle
<1>6. ASSUME NEW w \in Waiter, Begin(w) PROVE TypeOK'
  BY <1>6 DEF Begin, Close, InSet
<1>7. ASSUME NEW w \in Waiter, Lock(w) PROVE TypeOK'
  BY <1>7 DEF Lock, tasks
<1>8. ASSUME NEW w \in Waiter, Join(w) PROVE TypeOK'
  BY <1>8 DEF Join, Ended
<1>9. ASSUME NEW w \in Waiter, Done(w) PROVE TypeOK'
  BY <1>9 DEF Done, tasks
<1>10. ASSUME NEW w \in Waiter, Cancel(w) PROVE TypeOK'
  BY <1>10 DEF Cancel, tasks
<1>11. CASE ScopeDropped
  BY <1>11 DEF ScopeDropped, Close, InSet
<1>12. CASE OwnerDropped
  BY <1>12 DEF OwnerDropped, Close, InSet
<1>13. QED
  BY <1>1, <1>2, <1>3, <1>4, <1>5, <1>6, <1>7, <1>8, <1>9, <1>10, <1>11, <1>12
     DEF Next, Drain

(* Waiters: closing is never undone, and the lock passes through Lock,     *)
(* Done and Cancel only.                                                   *)
LEMMA WaitersPreserved == IInv /\ [Next]_vars => WaitersClosed'
<1> SUFFICES ASSUME IInv, [Next]_vars PROVE WaitersClosed'
  OBVIOUS
<1> USE WaiterAssumption DEF IInv, TypeOK, WaitersClosed
<1>1. CASE UNCHANGED <<closed, lock, waiter>>
  BY <1>1
<1>2. CASE ScopeDropped \/ OwnerDropped
  BY <1>2 DEF ScopeDropped, OwnerDropped, Close
<1>3. ASSUME NEW w \in Waiter, Begin(w) PROVE WaitersClosed'
  BY <1>3 DEF Begin, Close
<1>4. ASSUME NEW w \in Waiter, Lock(w) PROVE WaitersClosed'
  BY <1>4 DEF Lock
<1>5. ASSUME NEW w \in Waiter, Done(w) PROVE WaitersClosed'
  BY <1>5 DEF Done
<1>6. ASSUME NEW w \in Waiter, Cancel(w) PROVE WaitersClosed'
  BY <1>6 DEF Cancel
<1>7. ASSUME NEW w \in Waiter, Join(w) PROVE WaitersClosed'
  BY <1>7 DEF Join
<1>8. ASSUME NEW t \in Task, Admit(t) \/ Reject(t) \/ Runtime(t) \/ DropHandle(t)
      PROVE UNCHANGED <<closed, lock, waiter>>
  BY <1>8 DEF Admit, Reject, Runtime, Start, TakeAbort, Finish, Panic, DropFuture, Signal,
     DropHandle
<1>9. QED
  BY <1>1, <1>2, <1>3, <1>4, <1>5, <1>6, <1>7, <1>8 DEF Next, Drain, vars

(* An empty set stays empty: only Admit adds to it, and it is closed.      *)
LEMMA NothingLeftPreserved == IInv /\ [Next]_vars => NothingLeft'
<1> SUFFICES ASSUME IInv, [Next]_vars PROVE NothingLeft'
  OBVIOUS
<1> USE DEF IInv, TypeOK, NothingLeft, InSet
<1>1. CASE UNCHANGED vars
  BY <1>1 DEF vars, tasks
<1>2. ASSUME NEW t \in Task, Admit(t) PROVE NothingLeft'
  BY <1>2 DEF Admit, Ended
<1>3. ASSUME NEW t \in Task, Reject(t) \/ DropHandle(t) PROVE NothingLeft'
  BY <1>3 DEF Reject, DropHandle
<1>4. ASSUME NEW t \in Task, Runtime(t) PROVE NothingLeft'
  BY <1>4 DEF Runtime, Start, TakeAbort, Finish, Panic, DropFuture, Signal
<1>5. ASSUME NEW w \in Waiter, Begin(w) PROVE NothingLeft'
  BY <1>5 DEF Begin, Close
<1>6. ASSUME NEW w \in Waiter, Lock(w) PROVE NothingLeft'
  BY <1>6 DEF Lock, tasks
<1>7. ASSUME NEW w \in Waiter, Join(w) PROVE NothingLeft'
  BY <1>7 DEF Join, Ended
<1>8. ASSUME NEW w \in Waiter, Done(w) PROVE NothingLeft'
  <2>1. closed /\ InSet = {}
    BY <1>8 DEF Done, WaitersClosed
  <2>2. closed' /\ InSet' = {}
    BY <1>8, <2>1 DEF Done, tasks
  <2>3. QED
    BY <2>2
<1>9. ASSUME NEW w \in Waiter, Cancel(w) PROVE NothingLeft'
  BY <1>9 DEF Cancel, tasks
<1>10. CASE ScopeDropped
  BY <1>10 DEF ScopeDropped, Close
<1>11. CASE OwnerDropped
  BY <1>11 DEF OwnerDropped, Close
<1>12. QED
  BY <1>1, <1>2, <1>3, <1>4, <1>5, <1>6, <1>7, <1>8, <1>9, <1>10, <1>11 DEF Next, Drain

(* Closing tells every task of the set, and nothing is admitted after it.  *)
LEMMA StragglersPreserved == IInv /\ [Next]_vars => NoStragglers'
<1> SUFFICES ASSUME IInv, [Next]_vars PROVE NoStragglers'
  OBVIOUS
<1> USE DEF IInv, TypeOK, NoStragglers, Alive
<1>1. CASE UNCHANGED vars
  BY <1>1 DEF vars, tasks
<1>2. ASSUME NEW t \in Task, Admit(t) PROVE NoStragglers'
  BY <1>2 DEF Admit
<1>3. ASSUME NEW t \in Task, Reject(t) \/ DropHandle(t) PROVE NoStragglers'
  BY <1>3 DEF Reject, DropHandle
<1>4. ASSUME NEW t \in Task, Runtime(t) PROVE NoStragglers'
  BY <1>4 DEF Runtime, Start, TakeAbort, Finish, Panic, DropFuture, Signal
<1>5. ASSUME NEW w \in Waiter, Begin(w) PROVE NoStragglers'
  BY <1>5 DEF Begin, Close, InSet
<1>6. ASSUME NEW w \in Waiter, Lock(w) \/ Done(w) \/ Cancel(w) PROVE NoStragglers'
  BY <1>6 DEF Lock, Done, Cancel, tasks
<1>7. ASSUME NEW w \in Waiter, Join(w) PROVE NoStragglers'
  BY <1>7 DEF Join
<1>8. CASE ScopeDropped
  BY <1>8 DEF ScopeDropped, Close, InSet
<1>9. CASE OwnerDropped
  BY <1>9 DEF OwnerDropped, Close, InSet
<1>10. QED
  BY <1>1, <1>2, <1>3, <1>4, <1>5, <1>6, <1>7, <1>8, <1>9 DEF Next, Drain

(* A task is told in its last step or when it is rejected.                 *)
LEMMA ToldPreserved == IInv /\ [Next]_vars => Told'
<1> SUFFICES ASSUME IInv, [Next]_vars PROVE Told'
  OBVIOUS
<1> USE DEF IInv, TypeOK, Told
<1>1. CASE UNCHANGED vars
  BY <1>1 DEF vars, tasks
<1>2. ASSUME NEW t \in Task, Admit(t) PROVE Told'
  BY <1>2 DEF Admit, Ended
<1>3. ASSUME NEW t \in Task, Reject(t) \/ DropHandle(t) PROVE Told'
  BY <1>3 DEF Reject, DropHandle
<1>4. ASSUME NEW t \in Task, Runtime(t) PROVE Told'
  BY <1>4 DEF Runtime, Start, TakeAbort, Finish, Panic, DropFuture, Signal
<1>5. ASSUME NEW w \in Waiter, Begin(w) \/ Lock(w) \/ Done(w) \/ Cancel(w) PROVE Told'
  BY <1>5 DEF Begin, Lock, Done, Cancel, tasks
<1>6. ASSUME NEW w \in Waiter, Join(w) PROVE Told'
  BY <1>6 DEF Join, Ended
<1>7. CASE ScopeDropped \/ OwnerDropped
  BY <1>7 DEF ScopeDropped, OwnerDropped
<1>8. QED
  BY <1>1, <1>2, <1>3, <1>4, <1>5, <1>6, <1>7 DEF Next, Drain

(* Every way of joining a task records its failure.                        *)
LEMMA FailuresPreserved == IInv /\ [Next]_vars => FailuresSurvive'
<1> SUFFICES ASSUME IInv, [Next]_vars PROVE FailuresSurvive'
  OBVIOUS
<1> USE DEF IInv, TypeOK, FailuresSurvive
<1>1. CASE UNCHANGED vars
  BY <1>1 DEF vars, tasks
<1>2. ASSUME NEW t \in Task, Admit(t) PROVE FailuresSurvive'
  BY <1>2 DEF Admit, Ended
<1>3. ASSUME NEW t \in Task, Reject(t) \/ DropHandle(t) PROVE FailuresSurvive'
  BY <1>3 DEF Reject, DropHandle
<1>4. ASSUME NEW t \in Task, Runtime(t) PROVE FailuresSurvive'
  BY <1>4 DEF Runtime, Start, TakeAbort, Finish, Panic, DropFuture, Signal
<1>5. ASSUME NEW w \in Waiter, Begin(w) \/ Lock(w) \/ Done(w) \/ Cancel(w)
      PROVE FailuresSurvive'
  BY <1>5 DEF Begin, Lock, Done, Cancel, tasks
<1>6. ASSUME NEW w \in Waiter, Join(w) PROVE FailuresSurvive'
  BY <1>6 DEF Join, Ended
<1>7. CASE ScopeDropped \/ OwnerDropped
  BY <1>7 DEF ScopeDropped, OwnerDropped
<1>8. QED
  BY <1>1, <1>2, <1>3, <1>4, <1>5, <1>6, <1>7 DEF Next, Drain

(* The parts together: an inductive invariant of the group.                *)
LEMMA IInvPreserved == IInv /\ [Next]_vars => IInv'
  BY TypePreserved, WaitersPreserved, NothingLeftPreserved, StragglersPreserved,
     ToldPreserved, FailuresPreserved DEF IInv

(* Alive tasks are in the set, and no told task is alive.                  *)
LEMMA IInvImplies == IInv => FinishedIsQuiet /\ SignalMeansReleased
  BY DEF IInv, NothingLeft, Told, FinishedIsQuiet, SignalMeansReleased, InSet, Alive

-----------------------------------------------------------------------------
(* The inductive invariant holds in every behaviour.                       *)
THEOREM Inductive == Spec => []IInv
  BY InitIInv, IInvPreserved, PTL DEF Spec

(* Once a finish or shutdown returned, nothing of the generation runs or   *)
(* ever starts, for any number of tasks and waiters, cancelled or not.     *)
THEOREM QuietAfterFinish == Spec => []FinishedIsQuiet
  BY Inductive, IInvImplies, PTL

(* No task escapes the stop: admission and close share one critical        *)
(* section.                                                                *)
THEOREM NobodyEscapes == Spec => []NoStragglers
<1>1. IInv => NoStragglers
  BY DEF IInv
<1>2. QED
  BY Inductive, <1>1, PTL

(* A completion signal is sent after the task's captures are dropped.      *)
THEOREM ReleasedWhenTold == Spec => []SignalMeansReleased
  BY Inductive, IInvImplies, PTL

(* A panic is on record as soon as its task is joined, whoever joins it.   *)
THEOREM FailuresAreKept == Spec => []FailuresSurvive
<1>1. IInv => FailuresSurvive
  BY DEF IInv
<1>2. QED
  BY Inductive, <1>1, PTL

(* A finish that returned has left nothing behind, and nothing outlives    *)
(* the stop unasked (`shutdown`, `Spawner::admit`).                        *)
THEOREM CompleteStop == Spec => []StopIsComplete
<1>1. FinishedIsQuiet /\ NoStragglers => StopIsComplete
  BY DEF StopIsComplete
<1>2. QED
  BY QuietAfterFinish, NobodyEscapes, <1>1, PTL

(* What a waiter is told is true (`TaskCompletion::drop`, `shutdown`).     *)
THEOREM TrueOutcomes == Spec => []OutcomesAreTrue
<1>1. SignalMeansReleased /\ FailuresSurvive => OutcomesAreTrue
  BY DEF OutcomesAreTrue
<1>2. QED
  BY ReleasedWhenTold, FailuresAreKept, <1>1, PTL

-----------------------------------------------------------------------------
(* The native runners of a client, over any number of starts and runs      *)
(* (NativeRuntime).                                                        *)
(*                                                                         *)
(* A runner of an earlier start may still be unwinding, so that who is     *)
(* current is known only through the token and the attached counters:      *)
(* RunnersInv relates the two to the core's state.                         *)

\* Runners and starts are numbered.
RuntimeConstants == MaxRunner \in Nat /\ MaxStart \in Nat

\* A token was given by a start that has happened.
TokensAreIssued == \A r \in NR!Runners : nrToken[r] <= nrStart

\* The attached counters belong to a runner of the current start, and until it is
\* stopped the current start has no other.
CurrentIsAttached ==
  /\ nrCounters # 0 => nrToken[nrCounters] = nrStart
  /\ \A r \in NR!Runners :
        NR!Live(r) /\ nrToken[r] = nrStart /\ nrState # "Stopped" => nrActive /\ nrCounters = r

\* A stopped core has cancelled whoever runs, and answers no request.
StoppedIsQuiet ==
  nrState = "Stopped" =>
    nrWaiters = {} /\ \A r \in NR!Runners : NR!Live(r) => NR!Cancelled(r)

\* A plan that waits is newer than what was acknowledged, an attached device is not,
\* and only a runner with a tunnel, or one that leaves it, has a device.
PlansAreNew ==
  /\ nrPendingPlan # 0 => nrPendingPlan > nrLastGeneration
  /\ \A plan \in nrOffered : plan.generation > 0
  /\ nrTun # NR!NoPlan => nrTun.generation <= nrLastGeneration
  /\ \A r \in NR!Runners : nrDevice[r] # NR!NoPlan => nrPc[r] \in {"tunnel", "ended"}

\* Every start but a running one has been cancelled, and every runner has a start.
StopsAreFinal ==
  /\ nrState # "Stopped" => nrStart > 0
  /\ \A t \in 1..MaxStart :
        t < nrStart \/ (t = nrStart /\ nrState = "Stopped") => t \in nrCancelled
  /\ \A r \in NR!Runners : nrPc[r] # "idle" => nrToken[r] > 0

\* The plan of a start that no longer admits runners, whose only live runner, if any,
\* published it.
Announced(plan) ==
  /\ plan.runner \in NR!Runners /\ nrPc[plan.runner] # "idle"
  /\ nrToken[plan.runner] = nrStart => nrState # "Connecting"
  /\ \A s \in NR!Runners :
        NR!Live(s) /\ nrToken[s] = nrToken[plan.runner] => s = plan.runner

PlansHaveRunners ==
  /\ \A plan \in nrOffered : Announced(plan)
  /\ nrTun # NR!NoPlan => Announced(nrTun)
  /\ \A r \in NR!Runners : nrDevice[r] # NR!NoPlan =>
        nrDevice[r].runner \in NR!Runners /\ nrPc[nrDevice[r].runner] # "idle"

RunnersInv ==
  /\ NR!RunnersHold
  /\ TokensAreIssued /\ CurrentIsAttached /\ StoppedIsQuiet /\ PlansAreNew
  /\ StopsAreFinal /\ PlansHaveRunners

\* The absent plan has the type of one.
LEMMA NoPlanType == NR!NoPlan \in [generation : Nat, runner : {0} \cup NR!Runners]
BY DEF NR!NoPlan

\* A runner on its way from one place to another stays the runner of its start, and
\* leaves counters and generations alone.
LEMMA OnTheWay ==
  ASSUME RuntimeConstants, RunnersInv, NEW r \in NR!Runners,
         \/ NR!Connect(r) \/ NR!Handshake(r) \/ NR!Publish(r) \/ NR!CheckCancel(r)
         \/ NR!PollCore(r)
  PROVE  /\ \A s \in NR!Runners : NR!Live(s)' <=> NR!Live(s)
         /\ UNCHANGED <<nrStart, nrToken, nrCounters, nrActive, nrGen, nrLastGeneration>>
         /\ nrPc[r] # "checked" => UNCHANGED <<nrDevice, nrTun>>
         /\ nrState' = "Stopped" <=> nrState = "Stopped"
<1> USE DEF NR!core, NR!Go, NR!Step, NR!Request, NR!Ended
<1>1. nrPc \in [NR!Runners -> NR!Places]
  BY DEF RunnersInv, NR!RunnersHold, NR!TypeOK
<1>2. \E place \in NR!Places \ {"idle", "done"} : nrPc' = [nrPc EXCEPT ![r] = place]
  BY DEF NR!Connect, NR!Handshake, NR!Publish, NR!CheckCancel, NR!PollCore, NR!Places,
         NR!Awaiting
<1>3. nrPc[r] \notin {"idle", "done"}
  BY DEF NR!Connect, NR!Handshake, NR!Publish, NR!CheckCancel, NR!PollCore
<1>4. \A s \in NR!Runners : NR!Live(s)' <=> NR!Live(s)
  BY <1>1, <1>2, <1>3 DEF NR!Live
<1>5. /\ UNCHANGED <<nrStart, nrToken, nrCounters, nrActive, nrGen, nrLastGeneration>>
      /\ nrPc[r] # "checked" => UNCHANGED <<nrDevice, nrTun>>
      /\ nrState' = "Stopped" <=> nrState = "Stopped"
  BY DEF NR!Connect, NR!Handshake, NR!Publish, NR!CheckCancel, NR!PollCore, NR!Publishable
<1> QED
  BY <1>4, <1>5

\* Who owns a device is a matter of four variables.
LEMMA DeviceFrame ==
  ASSUME NR!DeviceHasOneOwner, UNCHANGED <<nrDevice, nrTun, nrGen, nrLastGeneration>>
  PROVE  NR!DeviceHasOneOwner'
BY DEF NR!DeviceHasOneOwner, NR!NoPlan

\* The action of StaleFinishIsSilent.
SilentFinish ==
  \A r \in NR!Runners :
    nrPc[r] = "finishing" /\ nrPc'[r] = "done" /\ nrToken[r] # nrStart => UNCHANGED NR!core

\* Every step keeps the types.
LEMMA RuntimeTypesStep ==
  ASSUME RuntimeConstants, RunnersInv, NR!Next
  PROVE  NR!TypeOK'
<1> USE DEF RunnersInv, RuntimeConstants, NR!RunnersHold, NR!TypeOK, NR!NoPlan, NR!Go,
         NR!core, NR!runners, NR!Live, NR!Cancelled, NR!Runners, NR!Places, NR!Awaiting
<1>1. CASE NR!Start
  <2>1. nrStart' \in 0..MaxStart
    BY <1>1 DEF NR!Start
  <2>2. /\ nrState' = "Connecting" /\ nrActive' = FALSE /\ nrCounters' = 0
        /\ nrPendingPlan' = 0 /\ nrTun' = NR!NoPlan /\ nrWaiters' = {}
        /\ UNCHANGED <<nrCancelled, nrLastGeneration, nrPc, nrToken, nrGen, nrFlag, nrDevice, nrOffered>>
    BY <1>1 DEF NR!Start, NR!ClearSession
  <2> HIDE DEF NR!NoPlan
  <2> QED
    BY <2>1, <2>2, NoPlanType
<1>2. CASE NR!Stop
  BY <1>2 DEF NR!Stop, NR!ClearSession
<1>3. CASE NR!StopQueueFull
  BY <1>3 DEF NR!StopQueueFull
<1>4. ASSUME NEW r \in NR!Runners, NR!RunAsync(r)
      PROVE  NR!TypeOK'
  BY <1>4 DEF NR!RunAsync, NR!MayRun
<1>5. ASSUME NEW r \in NR!Runners, NR!DropAttempt(r)
      PROVE  NR!TypeOK'
  BY <1>5 DEF NR!DropAttempt, NR!Ended
<1>6. ASSUME NEW r \in NR!Runners, NR!WaiterDropped(r)
      PROVE  NR!TypeOK'
  BY <1>6 DEF NR!WaiterDropped, NR!Ended
<1>7. ASSUME NEW r \in NR!Runners, NR!Connect(r)
      PROVE  NR!TypeOK'
  BY <1>7 DEF NR!Connect, NR!Step, NR!Request, NR!Ended
<1>8. ASSUME NEW r \in NR!Runners, NR!Handshake(r)
      PROVE  NR!TypeOK'
  BY <1>8 DEF NR!Handshake, NR!Step, NR!Request, NR!Ended
<1>9. ASSUME NEW r \in NR!Runners, NR!NextGeneration(r)
      PROVE  NR!TypeOK'
  <2>1. nrLastGeneration + 1 \in Nat
    OBVIOUS
  <2>2. nrGen' \in [NR!Runners -> Nat] /\ nrPc' \in [NR!Runners -> NR!Places]
    BY <1>9, <2>1 DEF NR!NextGeneration
  <2> QED
    BY <1>9, <2>2 DEF NR!NextGeneration
<1>10. ASSUME NEW r \in NR!Runners, NR!Publish(r)
      PROVE  NR!TypeOK'
  <2>1. nrPc' \in [NR!Runners -> NR!Places]
    BY <1>10 DEF NR!Publish, NR!Ended
  <2>2. CASE NR!Publishable(r) /\ nrPendingPlan' = nrGen[r]
             /\ nrOffered' = nrOffered \cup {[generation |-> nrGen[r], runner |-> r]}
    <3>1. nrOffered' \subseteq [generation : Nat, runner : NR!Runners] /\ nrPendingPlan' \in Nat
      BY <2>2
    <3> QED
      BY <1>10, <2>1, <2>2, <3>1 DEF NR!Publish, NR!Ended
  <2>3. CASE NR!Ended(r)
    BY <2>1, <2>3 DEF NR!Ended
  <2> QED
    BY <1>10, <2>2, <2>3 DEF NR!Publish
<1>11. ASSUME NEW r \in NR!Runners, NR!CheckCancel(r)
      PROVE  NR!TypeOK'
  BY <1>11 DEF NR!CheckCancel, NR!Step, NR!Ended
<1>12. ASSUME NEW r \in NR!Runners, NR!PollCore(r)
      PROVE  NR!TypeOK'
  <2>1. CASE NR!Step(r, "checked", "awaiting") \/ NR!Ended(r)
    BY <2>1 DEF NR!Step, NR!Ended
  <2>2. CASE nrTun' = NR!NoPlan /\ nrDevice' = [nrDevice EXCEPT ![r] = nrTun]
             /\ NR!Go(r, "tunnel")
             /\ UNCHANGED <<nrState, nrActive, nrCounters, nrPendingPlan, nrLastGeneration,
                            nrWaiters, nrStart, nrCancelled, nrToken, nrGen, nrFlag, nrOffered>>
    <3>1. nrDevice' \in [NR!Runners -> [generation : Nat, runner : {0} \cup NR!Runners]]
      BY <2>2
    <3>2. nrPc' \in [NR!Runners -> NR!Places]
      BY <2>2
    <3> QED
      BY <2>2, <3>1, <3>2, NoPlanType
  <2> QED
    BY <1>12, <2>1, <2>2 DEF NR!PollCore
<1>13. ASSUME NEW r \in NR!Runners, NR!TunnelEnds(r)
      PROVE  NR!TypeOK'
  BY <1>13 DEF NR!TunnelEnds, NR!Step
<1>14. ASSUME NEW r \in NR!Runners, NR!ReadFlag(r)
      PROVE  NR!TypeOK'
  <2>1. (nrToken[r] \in nrCancelled) \in BOOLEAN
    OBVIOUS
  <2>2. /\ nrFlag' \in [NR!Runners -> BOOLEAN]
        /\ nrDevice' \in [NR!Runners -> [generation : Nat, runner : {0} \cup NR!Runners]]
        /\ nrPc' \in [NR!Runners -> NR!Places]
    <3>1. nrFlag' \in [NR!Runners -> BOOLEAN]
      BY <1>14, <2>1 DEF NR!ReadFlag
    <3>2. nrDevice' \in [NR!Runners -> [generation : Nat, runner : {0} \cup NR!Runners]]
      BY <1>14, NoPlanType DEF NR!ReadFlag
    <3> QED
      BY <1>14, <3>1, <3>2 DEF NR!ReadFlag
  <2> QED
    BY <1>14, <2>2 DEF NR!ReadFlag
<1>15. ASSUME NEW r \in NR!Runners, NR!FinishGeneration(r)
      PROVE  NR!TypeOK'
  <2>1. nrPc' \in [NR!Runners -> NR!Places]
    BY <1>15 DEF NR!FinishGeneration
  <2>2. /\ nrState' \in {nrState, "Failed"} /\ nrPendingPlan' \in {nrPendingPlan, 0}
        /\ nrTun' \in {nrTun, NR!NoPlan} /\ nrWaiters' \in {nrWaiters, {}}
        /\ nrCounters' \in {nrCounters, 0} /\ nrActive' \in {nrActive, FALSE}
        /\ UNCHANGED <<nrLastGeneration, nrStart, nrCancelled, nrToken, nrGen, nrFlag, nrDevice, nrOffered>>
    BY <1>15 DEF NR!FinishGeneration, NR!ClearSession
  <2> QED
    BY <2>1, <2>2, NoPlanType
<1>16. ASSUME NEW r \in NR!Runners, NR!CancelKicked(r)
      PROVE  NR!TypeOK'
  <2>1. nrCancelled' = nrCancelled \cup {nrToken[r]} /\ UNCHANGED <<NR!core, nrStart, NR!runners, nrOffered>>
    BY <1>16 DEF NR!CancelKicked
  <2>2. nrToken[r] \in 0..MaxStart
    OBVIOUS
  <2>3. nrCancelled' \subseteq 0..MaxStart
    BY <2>1, <2>2
  <2> QED
    BY <2>1, <2>3
<1>17. ASSUME NEW r \in NR!Runners, NEW ok \in BOOLEAN, NR!AnswerRequest(r, ok)
      PROVE  NR!TypeOK'
  BY <1>17 DEF NR!AnswerRequest
<1>18. ASSUME NEW plan \in nrOffered, NR!AnswerPlan(plan)
      PROVE  NR!TypeOK'
  <2>1. /\ plan \in [generation : Nat, runner : NR!Runners]
        /\ plan \in [generation : Nat, runner : {0} \cup NR!Runners]
    OBVIOUS
  <2>2. /\ nrOffered' \subseteq nrOffered
        /\ nrState' \in {nrState, "Running", "Failed"}
        /\ nrPendingPlan' \in {nrPendingPlan, 0}
        /\ nrLastGeneration' \in {nrLastGeneration, plan.generation}
        /\ nrTun' \in {nrTun, plan, NR!NoPlan}
        /\ UNCHANGED <<nrActive, nrCounters, nrWaiters, nrStart, nrCancelled, nrPc, nrToken, nrGen, nrFlag,
                       nrDevice>>
    BY <1>18 DEF NR!AnswerPlan
  <2>3. nrLastGeneration' \in Nat /\ nrPendingPlan' \in Nat
        /\ nrTun' \in [generation : Nat, runner : {0} \cup NR!Runners]
    BY <2>1, <2>2, NoPlanType
  <2> QED
    BY <2>2, <2>3
<1> HIDE DEF RunnersInv, RuntimeConstants, NR!RunnersHold, NR!TypeOK, NR!NoPlan, NR!Go,
         NR!core, NR!runners, NR!Live, NR!Cancelled, NR!Runners, NR!Places, NR!Awaiting
<1> QED
  BY <1>1, <1>2, <1>3, <1>4, <1>5, <1>6, <1>7, <1>8, <1>9, <1>10, <1>11, <1>12, <1>13,
     <1>14, <1>15, <1>16, <1>17, <1>18
  DEF NR!Next, NR!Runner

\* Every step leaves a start with one live runner at most: a second is admitted only
\* when the first has ended.
LEMMA OneRunnerStep ==
  ASSUME RuntimeConstants, RunnersInv, NR!Next
  PROVE  NR!OneRunnerPerStart'
<1> USE DEF RunnersInv, RuntimeConstants, NR!RunnersHold, NR!TypeOK, NR!NoPlan, NR!Go,
         NR!core, NR!runners, NR!Live, NR!Cancelled, NR!Runners, NR!Places, NR!Awaiting,
         NR!OneRunnerPerStart, CurrentIsAttached, TokensAreIssued
<1>1. CASE NR!Start
  BY <1>1 DEF NR!Start, NR!ClearSession
<1>2. CASE NR!Stop
  BY <1>2 DEF NR!Stop, NR!ClearSession
<1>3. CASE NR!StopQueueFull
  BY <1>3 DEF NR!StopQueueFull
<1>4. ASSUME NEW r \in NR!Runners, NR!RunAsync(r)
      PROVE  NR!OneRunnerPerStart'
  BY <1>4 DEF NR!RunAsync, NR!MayRun
<1>5. ASSUME NEW r \in NR!Runners, NR!DropAttempt(r)
      PROVE  NR!OneRunnerPerStart'
  BY <1>5 DEF NR!DropAttempt, NR!Ended
<1>6. ASSUME NEW r \in NR!Runners, NR!WaiterDropped(r)
      PROVE  NR!OneRunnerPerStart'
  BY <1>6 DEF NR!WaiterDropped, NR!Ended
<1>7. ASSUME NEW r \in NR!Runners, NR!Connect(r)
      PROVE  NR!OneRunnerPerStart'
  BY <1>7, OnTheWay
<1>8. ASSUME NEW r \in NR!Runners, NR!Handshake(r)
      PROVE  NR!OneRunnerPerStart'
  BY <1>8, OnTheWay
<1>9. ASSUME NEW r \in NR!Runners, NR!NextGeneration(r)
      PROVE  NR!OneRunnerPerStart'
  BY <1>9 DEF NR!NextGeneration
<1>10. ASSUME NEW r \in NR!Runners, NR!Publish(r)
      PROVE  NR!OneRunnerPerStart'
  BY <1>10, OnTheWay
<1>11. ASSUME NEW r \in NR!Runners, NR!CheckCancel(r)
      PROVE  NR!OneRunnerPerStart'
  BY <1>11, OnTheWay
<1>12. ASSUME NEW r \in NR!Runners, NR!PollCore(r)
      PROVE  NR!OneRunnerPerStart'
  BY <1>12, OnTheWay
<1>13. ASSUME NEW r \in NR!Runners, NR!TunnelEnds(r)
      PROVE  NR!OneRunnerPerStart'
  BY <1>13 DEF NR!TunnelEnds, NR!Step
<1>14. ASSUME NEW r \in NR!Runners, NR!ReadFlag(r)
      PROVE  NR!OneRunnerPerStart'
  BY <1>14 DEF NR!ReadFlag
<1>15. ASSUME NEW r \in NR!Runners, NR!FinishGeneration(r)
      PROVE  NR!OneRunnerPerStart'
  <2>1. /\ nrPc' = [nrPc EXCEPT ![r] = "done"] /\ UNCHANGED <<nrToken, nrStart>>
        /\ \/ nrCounters # r /\ UNCHANGED <<nrCounters, nrActive>>
           \/ ~nrActive'
    BY <1>15 DEF NR!FinishGeneration
  <2>2. \A s \in NR!Runners : NR!Live(s)' => NR!Live(s)
    BY <2>1
  <2>3. \A s \in NR!Runners : s # r /\ NR!Live(s) => NR!Live(s)'
    BY <2>1
  <2>4. nrActive' => nrCounters' \in NR!Runners /\ nrCounters' # r /\ nrCounters' = nrCounters /\ nrActive
    BY <2>1, Zenon
  <2> HIDE DEF NR!Live
  <2>5. \A s, q \in NR!Runners : NR!Live(s)' /\ NR!Live(q)' /\ nrToken'[s] = nrToken'[q] => s = q
    BY <2>1, <2>2
  <2>6. nrActive' => nrCounters' # 0 /\ NR!Live(nrCounters)' /\ nrToken'[nrCounters'] = nrStart'
    BY <2>1, <2>3, <2>4
  <2> QED
    BY <2>5, <2>6
<1>16. ASSUME NEW r \in NR!Runners, NR!CancelKicked(r)
      PROVE  NR!OneRunnerPerStart'
  BY <1>16 DEF NR!CancelKicked
<1>17. ASSUME NEW r \in NR!Runners, NEW ok \in BOOLEAN, NR!AnswerRequest(r, ok)
      PROVE  NR!OneRunnerPerStart'
  BY <1>17 DEF NR!AnswerRequest
<1>18. ASSUME NEW plan \in nrOffered, NR!AnswerPlan(plan)
      PROVE  NR!OneRunnerPerStart'
  BY <1>18 DEF NR!AnswerPlan
<1> HIDE DEF RunnersInv, RuntimeConstants, NR!RunnersHold, NR!TypeOK, NR!NoPlan, NR!Go,
         NR!core, NR!runners, NR!Live, NR!Cancelled, NR!Runners, NR!Places, NR!Awaiting,
         NR!OneRunnerPerStart, CurrentIsAttached, TokensAreIssued
<1> QED
  BY <1>1, <1>2, <1>3, <1>4, <1>5, <1>6, <1>7, <1>8, <1>9, <1>10, <1>11, <1>12, <1>13,
     <1>14, <1>15, <1>16, <1>17, <1>18
  DEF NR!Next, NR!Runner

\* Every step leaves the runners of earlier starts cancelled: the next start needs a
\* stopped core, and a stop cancels.
LEMMA StaleStep ==
  ASSUME RuntimeConstants, RunnersInv, NR!Next
  PROVE  NR!StaleRunnersAreCancelled'
<1> USE DEF RunnersInv, RuntimeConstants, NR!RunnersHold, NR!TypeOK, NR!NoPlan, NR!Go,
         NR!core, NR!runners, NR!Live, NR!Cancelled, NR!Runners, NR!Places, NR!Awaiting,
         NR!StaleRunnersAreCancelled, StoppedIsQuiet, TokensAreIssued
<1>1. CASE NR!Start
  BY <1>1 DEF NR!Start, NR!ClearSession
<1>2. CASE NR!Stop
  BY <1>2 DEF NR!Stop, NR!ClearSession
<1>3. CASE NR!StopQueueFull
  BY <1>3 DEF NR!StopQueueFull
<1>4. ASSUME NEW r \in NR!Runners, NR!RunAsync(r)
      PROVE  NR!StaleRunnersAreCancelled'
  BY <1>4 DEF NR!RunAsync, NR!MayRun
<1>5. ASSUME NEW r \in NR!Runners, NR!DropAttempt(r)
      PROVE  NR!StaleRunnersAreCancelled'
  BY <1>5 DEF NR!DropAttempt, NR!Ended
<1>6. ASSUME NEW r \in NR!Runners, NR!WaiterDropped(r)
      PROVE  NR!StaleRunnersAreCancelled'
  BY <1>6 DEF NR!WaiterDropped, NR!Ended
<1>7. ASSUME NEW r \in NR!Runners, NR!Connect(r)
      PROVE  NR!StaleRunnersAreCancelled'
  BY <1>7 DEF NR!Connect, NR!Step, NR!Request, NR!Ended
<1>8. ASSUME NEW r \in NR!Runners, NR!Handshake(r)
      PROVE  NR!StaleRunnersAreCancelled'
  BY <1>8 DEF NR!Handshake, NR!Step, NR!Request, NR!Ended
<1>9. ASSUME NEW r \in NR!Runners, NR!NextGeneration(r)
      PROVE  NR!StaleRunnersAreCancelled'
  BY <1>9 DEF NR!NextGeneration
<1>10. ASSUME NEW r \in NR!Runners, NR!Publish(r)
      PROVE  NR!StaleRunnersAreCancelled'
  BY <1>10 DEF NR!Publish, NR!Publishable, NR!Ended
<1>11. ASSUME NEW r \in NR!Runners, NR!CheckCancel(r)
      PROVE  NR!StaleRunnersAreCancelled'
  BY <1>11 DEF NR!CheckCancel, NR!Step, NR!Ended
<1>12. ASSUME NEW r \in NR!Runners, NR!PollCore(r)
      PROVE  NR!StaleRunnersAreCancelled'
  BY <1>12 DEF NR!PollCore, NR!Step, NR!Ended, NR!Takeable
<1>13. ASSUME NEW r \in NR!Runners, NR!TunnelEnds(r)
      PROVE  NR!StaleRunnersAreCancelled'
  BY <1>13 DEF NR!TunnelEnds, NR!Step
<1>14. ASSUME NEW r \in NR!Runners, NR!ReadFlag(r)
      PROVE  NR!StaleRunnersAreCancelled'
  BY <1>14 DEF NR!ReadFlag
<1>15. ASSUME NEW r \in NR!Runners, NR!FinishGeneration(r)
      PROVE  NR!StaleRunnersAreCancelled'
  BY <1>15 DEF NR!FinishGeneration, NR!ClearSession
<1>16. ASSUME NEW r \in NR!Runners, NR!CancelKicked(r)
      PROVE  NR!StaleRunnersAreCancelled'
  BY <1>16 DEF NR!CancelKicked
<1>17. ASSUME NEW r \in NR!Runners, NEW ok \in BOOLEAN, NR!AnswerRequest(r, ok)
      PROVE  NR!StaleRunnersAreCancelled'
  BY <1>17 DEF NR!AnswerRequest
<1>18. ASSUME NEW plan \in nrOffered, NR!AnswerPlan(plan)
      PROVE  NR!StaleRunnersAreCancelled'
  BY <1>18 DEF NR!AnswerPlan
<1> HIDE DEF RunnersInv, RuntimeConstants, NR!RunnersHold, NR!TypeOK, NR!NoPlan, NR!Go,
         NR!core, NR!runners, NR!Live, NR!Cancelled, NR!Runners, NR!Places, NR!Awaiting,
         NR!StaleRunnersAreCancelled, StoppedIsQuiet, TokensAreIssued
<1> QED
  BY <1>1, <1>2, <1>3, <1>4, <1>5, <1>6, <1>7, <1>8, <1>9, <1>10, <1>11, <1>12, <1>13,
     <1>14, <1>15, <1>16, <1>17, <1>18
  DEF NR!Next, NR!Runner

\* Every step leaves a device with one owner: a plan that is acknowledged is newer
\* than any that was.
LEMMA DeviceStep ==
  ASSUME RuntimeConstants, RunnersInv, NR!Next
  PROVE  NR!DeviceHasOneOwner'
<1> USE DEF RunnersInv, RuntimeConstants, NR!RunnersHold, NR!TypeOK, NR!NoPlan, NR!Go,
         NR!core, NR!runners, NR!Live, NR!Cancelled, NR!Runners, NR!Places, NR!Awaiting,
         NR!DeviceHasOneOwner, PlansAreNew
<1>1. CASE NR!Start
  BY <1>1 DEF NR!Start, NR!ClearSession
<1>2. CASE NR!Stop
  BY <1>2 DEF NR!Stop, NR!ClearSession
<1>3. CASE NR!StopQueueFull
  BY <1>3 DEF NR!StopQueueFull
<1>4. ASSUME NEW r \in NR!Runners, NR!RunAsync(r)
      PROVE  NR!DeviceHasOneOwner'
  BY <1>4 DEF NR!RunAsync, NR!MayRun
<1>5. ASSUME NEW r \in NR!Runners, NR!DropAttempt(r)
      PROVE  NR!DeviceHasOneOwner'
  BY <1>5 DEF NR!DropAttempt, NR!Ended
<1>6. ASSUME NEW r \in NR!Runners, NR!WaiterDropped(r)
      PROVE  NR!DeviceHasOneOwner'
  BY <1>6 DEF NR!WaiterDropped, NR!Ended
<1>7. ASSUME NEW r \in NR!Runners, NR!Connect(r)
      PROVE  NR!DeviceHasOneOwner'
  <2>1. UNCHANGED <<nrDevice, nrTun, nrGen, nrLastGeneration>>
    BY <1>7, OnTheWay DEF NR!Connect, NR!Step, NR!Request
  <2> QED
    BY <2>1, DeviceFrame
<1>8. ASSUME NEW r \in NR!Runners, NR!Handshake(r)
      PROVE  NR!DeviceHasOneOwner'
  <2>1. UNCHANGED <<nrDevice, nrTun, nrGen, nrLastGeneration>>
    BY <1>8, OnTheWay DEF NR!Handshake, NR!Step, NR!Request
  <2> QED
    BY <2>1, DeviceFrame
<1>9. ASSUME NEW r \in NR!Runners, NR!NextGeneration(r)
      PROVE  NR!DeviceHasOneOwner'
  BY <1>9 DEF NR!NextGeneration
<1>10. ASSUME NEW r \in NR!Runners, NR!Publish(r)
      PROVE  NR!DeviceHasOneOwner'
  <2>1. UNCHANGED <<nrDevice, nrTun, nrGen, nrLastGeneration>>
    BY <1>10, OnTheWay DEF NR!Publish
  <2> QED
    BY <2>1, DeviceFrame
<1>11. ASSUME NEW r \in NR!Runners, NR!CheckCancel(r)
      PROVE  NR!DeviceHasOneOwner'
  <2>1. UNCHANGED <<nrDevice, nrTun, nrGen, nrLastGeneration>>
    BY <1>11, OnTheWay DEF NR!CheckCancel
  <2> QED
    BY <2>1, DeviceFrame
<1>12. ASSUME NEW r \in NR!Runners, NR!PollCore(r)
      PROVE  NR!DeviceHasOneOwner'
  <2>1. CASE NR!Step(r, "checked", "awaiting") \/ NR!Ended(r)
    BY <2>1, DeviceFrame DEF NR!Step, NR!Ended
  <2>2. CASE /\ nrTun # NR!NoPlan /\ nrTun.generation = nrGen[r]
             /\ nrTun' = NR!NoPlan /\ nrDevice' = [nrDevice EXCEPT ![r] = nrTun]
             /\ UNCHANGED <<nrLastGeneration, nrGen>>
    <3>1. \A s \in NR!Runners : nrDevice'[s] = IF s = r THEN nrTun ELSE nrDevice[s]
      BY <2>2
    <3>2. \A s \in NR!Runners : s # r /\ nrDevice[s] # NR!NoPlan => nrDevice[s] # nrTun
      OBVIOUS
    <3> HIDE DEF NR!NoPlan
    <3> QED
      BY <2>2, <3>1, <3>2
  <2> QED
    BY <1>12, <2>1, <2>2 DEF NR!PollCore, NR!Takeable
<1>13. ASSUME NEW r \in NR!Runners, NR!TunnelEnds(r)
      PROVE  NR!DeviceHasOneOwner'
  BY <1>13 DEF NR!TunnelEnds, NR!Step
<1>14. ASSUME NEW r \in NR!Runners, NR!ReadFlag(r)
      PROVE  NR!DeviceHasOneOwner'
  BY <1>14 DEF NR!ReadFlag
<1>15. ASSUME NEW r \in NR!Runners, NR!FinishGeneration(r)
      PROVE  NR!DeviceHasOneOwner'
  BY <1>15 DEF NR!FinishGeneration, NR!ClearSession
<1>16. ASSUME NEW r \in NR!Runners, NR!CancelKicked(r)
      PROVE  NR!DeviceHasOneOwner'
  BY <1>16 DEF NR!CancelKicked
<1>17. ASSUME NEW r \in NR!Runners, NEW ok \in BOOLEAN, NR!AnswerRequest(r, ok)
      PROVE  NR!DeviceHasOneOwner'
  BY <1>17 DEF NR!AnswerRequest
<1>18. ASSUME NEW plan \in nrOffered, NR!AnswerPlan(plan)
      PROVE  NR!DeviceHasOneOwner'
  <2>1. CASE UNCHANGED NR!core
    BY <1>18, <2>1 DEF NR!AnswerPlan
  <2>2. CASE /\ nrPendingPlan = plan.generation /\ nrLastGeneration' = plan.generation
             /\ nrTun' \in {plan, NR!NoPlan}
    <3>1. plan.generation \in Nat /\ plan.generation > nrLastGeneration
      BY <2>2
    <3>2. UNCHANGED <<nrDevice, nrGen>>
      BY <1>18 DEF NR!AnswerPlan
    <3>3. \A s \in NR!Runners : nrDevice[s] # NR!NoPlan => nrDevice[s] # plan
      BY <3>1
    <3>4. \A s \in NR!Runners : nrDevice[s] # NR!NoPlan => nrGen[s] <= plan.generation
      BY <3>1
    <3> HIDE DEF NR!NoPlan
    <3> QED
      BY <2>2, <3>1, <3>2, <3>3, <3>4
  <2> QED
    BY <1>18, <2>1, <2>2 DEF NR!AnswerPlan
<1> HIDE DEF RunnersInv, RuntimeConstants, NR!RunnersHold, NR!TypeOK, NR!NoPlan, NR!Go,
         NR!core, NR!runners, NR!Live, NR!Cancelled, NR!Runners, NR!Places, NR!Awaiting,
         NR!DeviceHasOneOwner, PlansAreNew
<1> QED
  BY <1>1, <1>2, <1>3, <1>4, <1>5, <1>6, <1>7, <1>8, <1>9, <1>10, <1>11, <1>12, <1>13,
     <1>14, <1>15, <1>16, <1>17, <1>18
  DEF NR!Next, NR!Runner

\* Every step leaves the tokens issued.
LEMMA TokensStep ==
  ASSUME RuntimeConstants, RunnersInv, NR!Next
  PROVE  TokensAreIssued'
<1> USE DEF RunnersInv, RuntimeConstants, NR!RunnersHold, NR!TypeOK, NR!NoPlan, NR!Go,
         NR!core, NR!runners, NR!Live, NR!Cancelled, NR!Runners, NR!Places, NR!Awaiting,
         TokensAreIssued
<1>1. CASE NR!Start
  BY <1>1 DEF NR!Start, NR!ClearSession
<1>2. CASE NR!Stop
  BY <1>2 DEF NR!Stop, NR!ClearSession
<1>3. CASE NR!StopQueueFull
  BY <1>3 DEF NR!StopQueueFull
<1>4. ASSUME NEW r \in NR!Runners, NR!RunAsync(r)
      PROVE  TokensAreIssued'
  BY <1>4 DEF NR!RunAsync, NR!MayRun
<1>5. ASSUME NEW r \in NR!Runners, NR!DropAttempt(r)
      PROVE  TokensAreIssued'
  BY <1>5 DEF NR!DropAttempt, NR!Ended
<1>6. ASSUME NEW r \in NR!Runners, NR!WaiterDropped(r)
      PROVE  TokensAreIssued'
  BY <1>6 DEF NR!WaiterDropped, NR!Ended
<1>7. ASSUME NEW r \in NR!Runners, NR!Connect(r)
      PROVE  TokensAreIssued'
  BY <1>7 DEF NR!Connect, NR!Step, NR!Request, NR!Ended
<1>8. ASSUME NEW r \in NR!Runners, NR!Handshake(r)
      PROVE  TokensAreIssued'
  BY <1>8 DEF NR!Handshake, NR!Step, NR!Request, NR!Ended
<1>9. ASSUME NEW r \in NR!Runners, NR!NextGeneration(r)
      PROVE  TokensAreIssued'
  BY <1>9 DEF NR!NextGeneration
<1>10. ASSUME NEW r \in NR!Runners, NR!Publish(r)
      PROVE  TokensAreIssued'
  BY <1>10 DEF NR!Publish, NR!Publishable, NR!Ended
<1>11. ASSUME NEW r \in NR!Runners, NR!CheckCancel(r)
      PROVE  TokensAreIssued'
  BY <1>11 DEF NR!CheckCancel, NR!Step, NR!Ended
<1>12. ASSUME NEW r \in NR!Runners, NR!PollCore(r)
      PROVE  TokensAreIssued'
  BY <1>12 DEF NR!PollCore, NR!Step, NR!Ended, NR!Takeable
<1>13. ASSUME NEW r \in NR!Runners, NR!TunnelEnds(r)
      PROVE  TokensAreIssued'
  BY <1>13 DEF NR!TunnelEnds, NR!Step
<1>14. ASSUME NEW r \in NR!Runners, NR!ReadFlag(r)
      PROVE  TokensAreIssued'
  BY <1>14 DEF NR!ReadFlag
<1>15. ASSUME NEW r \in NR!Runners, NR!FinishGeneration(r)
      PROVE  TokensAreIssued'
  BY <1>15 DEF NR!FinishGeneration, NR!ClearSession
<1>16. ASSUME NEW r \in NR!Runners, NR!CancelKicked(r)
      PROVE  TokensAreIssued'
  BY <1>16 DEF NR!CancelKicked
<1>17. ASSUME NEW r \in NR!Runners, NEW ok \in BOOLEAN, NR!AnswerRequest(r, ok)
      PROVE  TokensAreIssued'
  BY <1>17 DEF NR!AnswerRequest
<1>18. ASSUME NEW plan \in nrOffered, NR!AnswerPlan(plan)
      PROVE  TokensAreIssued'
  BY <1>18 DEF NR!AnswerPlan
<1> HIDE DEF RunnersInv, RuntimeConstants, NR!RunnersHold, NR!TypeOK, NR!NoPlan, NR!Go,
         NR!core, NR!runners, NR!Live, NR!Cancelled, NR!Runners, NR!Places, NR!Awaiting,
         TokensAreIssued
<1> QED
  BY <1>1, <1>2, <1>3, <1>4, <1>5, <1>6, <1>7, <1>8, <1>9, <1>10, <1>11, <1>12, <1>13,
     <1>14, <1>15, <1>16, <1>17, <1>18
  DEF NR!Next, NR!Runner

\* Every step leaves the counters with the current start's only runner.
LEMMA AttachedStep ==
  ASSUME RuntimeConstants, RunnersInv, NR!Next
  PROVE  CurrentIsAttached'
<1> USE DEF RunnersInv, RuntimeConstants, NR!RunnersHold, NR!TypeOK, NR!NoPlan, NR!Go,
         NR!core, NR!runners, NR!Live, NR!Cancelled, NR!Runners, NR!Places, NR!Awaiting,
         CurrentIsAttached, TokensAreIssued, StoppedIsQuiet, NR!OneRunnerPerStart
<1>1. CASE NR!Start
  BY <1>1 DEF NR!Start, NR!ClearSession
<1>2. CASE NR!Stop
  BY <1>2 DEF NR!Stop, NR!ClearSession
<1>3. CASE NR!StopQueueFull
  BY <1>3 DEF NR!StopQueueFull
<1>4. ASSUME NEW r \in NR!Runners, NR!RunAsync(r)
      PROVE  CurrentIsAttached'
  BY <1>4 DEF NR!RunAsync, NR!MayRun
<1>5. ASSUME NEW r \in NR!Runners, NR!DropAttempt(r)
      PROVE  CurrentIsAttached'
  BY <1>5 DEF NR!DropAttempt, NR!Ended
<1>6. ASSUME NEW r \in NR!Runners, NR!WaiterDropped(r)
      PROVE  CurrentIsAttached'
  BY <1>6 DEF NR!WaiterDropped, NR!Ended
<1>7. ASSUME NEW r \in NR!Runners, NR!Connect(r)
      PROVE  CurrentIsAttached'
  BY <1>7 DEF NR!Connect, NR!Step, NR!Request, NR!Ended
<1>8. ASSUME NEW r \in NR!Runners, NR!Handshake(r)
      PROVE  CurrentIsAttached'
  BY <1>8 DEF NR!Handshake, NR!Step, NR!Request, NR!Ended
<1>9. ASSUME NEW r \in NR!Runners, NR!NextGeneration(r)
      PROVE  CurrentIsAttached'
  BY <1>9 DEF NR!NextGeneration
<1>10. ASSUME NEW r \in NR!Runners, NR!Publish(r)
      PROVE  CurrentIsAttached'
  BY <1>10, OnTheWay
<1>11. ASSUME NEW r \in NR!Runners, NR!CheckCancel(r)
      PROVE  CurrentIsAttached'
  BY <1>11 DEF NR!CheckCancel, NR!Step, NR!Ended
<1>12. ASSUME NEW r \in NR!Runners, NR!PollCore(r)
      PROVE  CurrentIsAttached'
  BY <1>12 DEF NR!PollCore, NR!Step, NR!Ended, NR!Takeable
<1>13. ASSUME NEW r \in NR!Runners, NR!TunnelEnds(r)
      PROVE  CurrentIsAttached'
  BY <1>13 DEF NR!TunnelEnds, NR!Step
<1>14. ASSUME NEW r \in NR!Runners, NR!ReadFlag(r)
      PROVE  CurrentIsAttached'
  BY <1>14 DEF NR!ReadFlag
<1>15. ASSUME NEW r \in NR!Runners, NR!FinishGeneration(r)
      PROVE  CurrentIsAttached'
  BY <1>15 DEF NR!FinishGeneration, NR!ClearSession
<1>16. ASSUME NEW r \in NR!Runners, NR!CancelKicked(r)
      PROVE  CurrentIsAttached'
  BY <1>16 DEF NR!CancelKicked
<1>17. ASSUME NEW r \in NR!Runners, NEW ok \in BOOLEAN, NR!AnswerRequest(r, ok)
      PROVE  CurrentIsAttached'
  BY <1>17 DEF NR!AnswerRequest
<1>18. ASSUME NEW plan \in nrOffered, NR!AnswerPlan(plan)
      PROVE  CurrentIsAttached'
  <2>1. /\ UNCHANGED <<nrCounters, nrActive, nrPc, nrToken, nrStart>>
        /\ nrState' = "Stopped" \/ nrState # "Stopped"
    BY <1>18 DEF NR!AnswerPlan
  <2> QED
    BY <2>1
<1> HIDE DEF RunnersInv, RuntimeConstants, NR!RunnersHold, NR!TypeOK, NR!NoPlan, NR!Go,
         NR!core, NR!runners, NR!Live, NR!Cancelled, NR!Runners, NR!Places, NR!Awaiting,
         CurrentIsAttached, TokensAreIssued, StoppedIsQuiet, NR!OneRunnerPerStart
<1> QED
  BY <1>1, <1>2, <1>3, <1>4, <1>5, <1>6, <1>7, <1>8, <1>9, <1>10, <1>11, <1>12, <1>13,
     <1>14, <1>15, <1>16, <1>17, <1>18
  DEF NR!Next, NR!Runner

\* Every step leaves a stopped core quiet.
LEMMA QuietStep ==
  ASSUME RuntimeConstants, RunnersInv, NR!Next
  PROVE  StoppedIsQuiet'
<1> USE DEF RunnersInv, RuntimeConstants, NR!RunnersHold, NR!TypeOK, NR!NoPlan, NR!Go,
         NR!core, NR!runners, NR!Live, NR!Cancelled, NR!Runners, NR!Places, NR!Awaiting,
         StoppedIsQuiet, NR!StaleRunnersAreCancelled
<1>1. CASE NR!Start
  BY <1>1 DEF NR!Start, NR!ClearSession
<1>2. CASE NR!Stop
  BY <1>2 DEF NR!Stop, NR!ClearSession
<1>3. CASE NR!StopQueueFull
  BY <1>3 DEF NR!StopQueueFull
<1>4. ASSUME NEW r \in NR!Runners, NR!RunAsync(r)
      PROVE  StoppedIsQuiet'
  BY <1>4 DEF NR!RunAsync, NR!MayRun
<1>5. ASSUME NEW r \in NR!Runners, NR!DropAttempt(r)
      PROVE  StoppedIsQuiet'
  BY <1>5 DEF NR!DropAttempt, NR!Ended
<1>6. ASSUME NEW r \in NR!Runners, NR!WaiterDropped(r)
      PROVE  StoppedIsQuiet'
  BY <1>6 DEF NR!WaiterDropped, NR!Ended
<1>7. ASSUME NEW r \in NR!Runners, NR!Connect(r)
      PROVE  StoppedIsQuiet'
  BY <1>7 DEF NR!Connect, NR!Step, NR!Request, NR!Ended
<1>8. ASSUME NEW r \in NR!Runners, NR!Handshake(r)
      PROVE  StoppedIsQuiet'
  BY <1>8 DEF NR!Handshake, NR!Step, NR!Request, NR!Ended
<1>9. ASSUME NEW r \in NR!Runners, NR!NextGeneration(r)
      PROVE  StoppedIsQuiet'
  BY <1>9 DEF NR!NextGeneration
<1>10. ASSUME NEW r \in NR!Runners, NR!Publish(r)
      PROVE  StoppedIsQuiet'
  BY <1>10 DEF NR!Publish, NR!Publishable, NR!Ended
<1>11. ASSUME NEW r \in NR!Runners, NR!CheckCancel(r)
      PROVE  StoppedIsQuiet'
  BY <1>11 DEF NR!CheckCancel, NR!Step, NR!Ended
<1>12. ASSUME NEW r \in NR!Runners, NR!PollCore(r)
      PROVE  StoppedIsQuiet'
  BY <1>12 DEF NR!PollCore, NR!Step, NR!Ended, NR!Takeable
<1>13. ASSUME NEW r \in NR!Runners, NR!TunnelEnds(r)
      PROVE  StoppedIsQuiet'
  BY <1>13 DEF NR!TunnelEnds, NR!Step
<1>14. ASSUME NEW r \in NR!Runners, NR!ReadFlag(r)
      PROVE  StoppedIsQuiet'
  BY <1>14 DEF NR!ReadFlag
<1>15. ASSUME NEW r \in NR!Runners, NR!FinishGeneration(r)
      PROVE  StoppedIsQuiet'
  BY <1>15 DEF NR!FinishGeneration, NR!ClearSession
<1>16. ASSUME NEW r \in NR!Runners, NR!CancelKicked(r)
      PROVE  StoppedIsQuiet'
  BY <1>16 DEF NR!CancelKicked
<1>17. ASSUME NEW r \in NR!Runners, NEW ok \in BOOLEAN, NR!AnswerRequest(r, ok)
      PROVE  StoppedIsQuiet'
  BY <1>17 DEF NR!AnswerRequest
<1>18. ASSUME NEW plan \in nrOffered, NR!AnswerPlan(plan)
      PROVE  StoppedIsQuiet'
  BY <1>18 DEF NR!AnswerPlan
<1> HIDE DEF RunnersInv, RuntimeConstants, NR!RunnersHold, NR!TypeOK, NR!NoPlan, NR!Go,
         NR!core, NR!runners, NR!Live, NR!Cancelled, NR!Runners, NR!Places, NR!Awaiting,
         StoppedIsQuiet, NR!StaleRunnersAreCancelled
<1> QED
  BY <1>1, <1>2, <1>3, <1>4, <1>5, <1>6, <1>7, <1>8, <1>9, <1>10, <1>11, <1>12, <1>13,
     <1>14, <1>15, <1>16, <1>17, <1>18
  DEF NR!Next, NR!Runner

\* Every step leaves a waiting plan newer than the acknowledged ones.
LEMMA PlansStep ==
  ASSUME RuntimeConstants, RunnersInv, NR!Next
  PROVE  PlansAreNew'
<1> USE DEF RunnersInv, RuntimeConstants, NR!RunnersHold, NR!TypeOK, NR!NoPlan, NR!Go,
         NR!core, NR!runners, NR!Live, NR!Cancelled, NR!Runners, NR!Places, NR!Awaiting,
         PlansAreNew
<1>1. CASE NR!Start
  BY <1>1 DEF NR!Start, NR!ClearSession
<1>2. CASE NR!Stop
  BY <1>2 DEF NR!Stop, NR!ClearSession
<1>3. CASE NR!StopQueueFull
  BY <1>3 DEF NR!StopQueueFull
<1>4. ASSUME NEW r \in NR!Runners, NR!RunAsync(r)
      PROVE  PlansAreNew'
  BY <1>4 DEF NR!RunAsync, NR!MayRun
<1>5. ASSUME NEW r \in NR!Runners, NR!DropAttempt(r)
      PROVE  PlansAreNew'
  BY <1>5 DEF NR!DropAttempt, NR!Ended
<1>6. ASSUME NEW r \in NR!Runners, NR!WaiterDropped(r)
      PROVE  PlansAreNew'
  BY <1>6 DEF NR!WaiterDropped, NR!Ended
<1>7. ASSUME NEW r \in NR!Runners, NR!Connect(r)
      PROVE  PlansAreNew'
  BY <1>7 DEF NR!Connect, NR!Step, NR!Request, NR!Ended
<1>8. ASSUME NEW r \in NR!Runners, NR!Handshake(r)
      PROVE  PlansAreNew'
  BY <1>8 DEF NR!Handshake, NR!Step, NR!Request, NR!Ended
<1>9. ASSUME NEW r \in NR!Runners, NR!NextGeneration(r)
      PROVE  PlansAreNew'
  BY <1>9 DEF NR!NextGeneration
<1>10. ASSUME NEW r \in NR!Runners, NR!Publish(r)
      PROVE  PlansAreNew'
  <2>1. CASE NR!Ended(r)
    BY <1>10, <2>1 DEF NR!Publish, NR!Ended
  <2>2. CASE /\ NR!Publishable(r) /\ nrPendingPlan' = nrGen[r]
             /\ nrOffered' = nrOffered \cup {[generation |-> nrGen[r], runner |-> r]}
             /\ NR!Go(r, "awaiting") /\ UNCHANGED <<nrLastGeneration, nrTun, nrDevice>>
    <3>1. nrGen[r] \in Nat /\ nrLastGeneration \in Nat /\ nrGen[r] > nrLastGeneration
      BY <2>2 DEF NR!Publishable
    <3>2. \A plan \in nrOffered' : plan.generation > 0
      BY <2>2, <3>1
    <3>3. \A s \in NR!Runners : nrDevice[s] # NR!NoPlan => s # r
      BY <1>10 DEF NR!Publish
    <3> QED
      BY <2>2, <3>1, <3>2, <3>3
  <2> QED
    BY <1>10, <2>1, <2>2 DEF NR!Publish
<1>11. ASSUME NEW r \in NR!Runners, NR!CheckCancel(r)
      PROVE  PlansAreNew'
  BY <1>11 DEF NR!CheckCancel, NR!Step, NR!Ended
<1>12. ASSUME NEW r \in NR!Runners, NR!PollCore(r)
      PROVE  PlansAreNew'
  BY <1>12 DEF NR!PollCore, NR!Step, NR!Ended, NR!Takeable
<1>13. ASSUME NEW r \in NR!Runners, NR!TunnelEnds(r)
      PROVE  PlansAreNew'
  BY <1>13 DEF NR!TunnelEnds, NR!Step
<1>14. ASSUME NEW r \in NR!Runners, NR!ReadFlag(r)
      PROVE  PlansAreNew'
  BY <1>14 DEF NR!ReadFlag
<1>15. ASSUME NEW r \in NR!Runners, NR!FinishGeneration(r)
      PROVE  PlansAreNew'
  BY <1>15 DEF NR!FinishGeneration, NR!ClearSession
<1>16. ASSUME NEW r \in NR!Runners, NR!CancelKicked(r)
      PROVE  PlansAreNew'
  BY <1>16 DEF NR!CancelKicked
<1>17. ASSUME NEW r \in NR!Runners, NEW ok \in BOOLEAN, NR!AnswerRequest(r, ok)
      PROVE  PlansAreNew'
  BY <1>17 DEF NR!AnswerRequest
<1>18. ASSUME NEW plan \in nrOffered, NR!AnswerPlan(plan)
      PROVE  PlansAreNew'
  <2>1. CASE UNCHANGED NR!core
    BY <1>18, <2>1 DEF NR!AnswerPlan
  <2>2. CASE /\ nrPendingPlan' = 0 /\ nrLastGeneration' = plan.generation
             /\ nrTun' \in {plan, NR!NoPlan}
    <3>1. nrOffered' \subseteq nrOffered /\ UNCHANGED <<nrPc, nrDevice>>
      BY <1>18 DEF NR!AnswerPlan
    <3>2. plan.generation \in Nat
      OBVIOUS
    <3> HIDE DEF NR!NoPlan
    <3> QED
      BY <2>2, <3>1, <3>2
  <2> QED
    BY <1>18, <2>1, <2>2 DEF NR!AnswerPlan
<1> HIDE DEF RunnersInv, RuntimeConstants, NR!RunnersHold, NR!TypeOK, NR!NoPlan, NR!Go,
         NR!core, NR!runners, NR!Live, NR!Cancelled, NR!Runners, NR!Places, NR!Awaiting,
         PlansAreNew
<1> QED
  BY <1>1, <1>2, <1>3, <1>4, <1>5, <1>6, <1>7, <1>8, <1>9, <1>10, <1>11, <1>12, <1>13,
     <1>14, <1>15, <1>16, <1>17, <1>18
  DEF NR!Next, NR!Runner

\* A runner keeps the start it began with, a new one joins the start that is being made,
\* and a cancelled token stays cancelled.
RunnersOnlyJoin ==
  /\ nrCancelled \subseteq nrCancelled'
  /\ \A s \in NR!Runners :
        \/ /\ nrPc[s] # "idle" => nrPc'[s] # "idle" /\ nrToken'[s] = nrToken[s]
           /\ nrPc[s] = "idle" => nrPc'[s] = "idle"
           /\ NR!Live(s)' => NR!Live(s)
        \/ nrPc[s] = "idle" /\ nrToken'[s] = nrStart /\ nrState = "Connecting"

\* Every step is of that kind: only run_async makes a runner, and only stop, a KICK and
\* their like write tokens.
LEMMA RunnersJoin ==
  ASSUME RuntimeConstants, RunnersInv, NR!Next
  PROVE  RunnersOnlyJoin
<1> USE DEF RunnersInv, NR!RunnersHold, NR!TypeOK, NR!Go, NR!core, NR!runners,
         NR!Live, NR!Runners, NR!Places, NR!Awaiting, RunnersOnlyJoin
<1>1. CASE NR!Start
  BY <1>1 DEF NR!Start, NR!ClearSession
<1>2. CASE NR!Stop
  BY <1>2 DEF NR!Stop, NR!ClearSession
<1>3. CASE NR!StopQueueFull
  BY <1>3 DEF NR!StopQueueFull
<1>4. ASSUME NEW r \in NR!Runners, NR!RunAsync(r)
      PROVE  RunnersOnlyJoin
  BY <1>4 DEF NR!RunAsync, NR!MayRun
<1>5. ASSUME NEW r \in NR!Runners, NR!DropAttempt(r)
      PROVE  RunnersOnlyJoin
  BY <1>5 DEF NR!DropAttempt, NR!Ended
<1>6. ASSUME NEW r \in NR!Runners, NR!WaiterDropped(r)
      PROVE  RunnersOnlyJoin
  BY <1>6 DEF NR!WaiterDropped, NR!Ended
<1>7. ASSUME NEW r \in NR!Runners, NR!Connect(r)
      PROVE  RunnersOnlyJoin
  BY <1>7 DEF NR!Connect, NR!Step, NR!Request, NR!Ended
<1>8. ASSUME NEW r \in NR!Runners, NR!Handshake(r)
      PROVE  RunnersOnlyJoin
  BY <1>8 DEF NR!Handshake, NR!Step, NR!Request, NR!Ended
<1>9. ASSUME NEW r \in NR!Runners, NR!NextGeneration(r)
      PROVE  RunnersOnlyJoin
  BY <1>9 DEF NR!NextGeneration
<1>10. ASSUME NEW r \in NR!Runners, NR!Publish(r)
      PROVE  RunnersOnlyJoin
  BY <1>10 DEF NR!Publish, NR!Publishable, NR!Ended
<1>11. ASSUME NEW r \in NR!Runners, NR!CheckCancel(r)
      PROVE  RunnersOnlyJoin
  BY <1>11 DEF NR!CheckCancel, NR!Step, NR!Ended
<1>12. ASSUME NEW r \in NR!Runners, NR!PollCore(r)
      PROVE  RunnersOnlyJoin
  BY <1>12 DEF NR!PollCore, NR!Step, NR!Ended, NR!Takeable
<1>13. ASSUME NEW r \in NR!Runners, NR!TunnelEnds(r)
      PROVE  RunnersOnlyJoin
  BY <1>13 DEF NR!TunnelEnds, NR!Step
<1>14. ASSUME NEW r \in NR!Runners, NR!ReadFlag(r)
      PROVE  RunnersOnlyJoin
  BY <1>14 DEF NR!ReadFlag
<1>15. ASSUME NEW r \in NR!Runners, NR!FinishGeneration(r)
      PROVE  RunnersOnlyJoin
  BY <1>15 DEF NR!FinishGeneration, NR!ClearSession
<1>16. ASSUME NEW r \in NR!Runners, NR!CancelKicked(r)
      PROVE  RunnersOnlyJoin
  BY <1>16 DEF NR!CancelKicked
<1>17. ASSUME NEW r \in NR!Runners, NEW ok \in BOOLEAN, NR!AnswerRequest(r, ok)
      PROVE  RunnersOnlyJoin
  BY <1>17 DEF NR!AnswerRequest
<1>18. ASSUME NEW plan \in nrOffered, NR!AnswerPlan(plan)
      PROVE  RunnersOnlyJoin
  BY <1>18 DEF NR!AnswerPlan
<1> HIDE DEF RunnersInv, NR!RunnersHold, NR!TypeOK, NR!Go, NR!core, NR!runners,
         NR!Live, NR!Runners, NR!Places, NR!Awaiting, RunnersOnlyJoin
<1> QED
  BY <1>1, <1>2, <1>3, <1>4, <1>5, <1>6, <1>7, <1>8, <1>9, <1>10, <1>11, <1>12, <1>13,
     <1>14, <1>15, <1>16, <1>17, <1>18
  DEF NR!Next, NR!Runner

\* A start follows a stop, and a stop cancels.
StartsFollowStops ==
  \/ /\ nrStart' = nrStart + 1 /\ nrState = "Stopped" /\ nrState' # "Stopped"
  \/ /\ nrStart' = nrStart
     /\ nrState' = "Connecting" => nrState = "Connecting"
     /\ nrState = "Stopped" => nrState' = "Stopped"
     /\ nrState' = "Stopped" => nrState = "Stopped" \/ nrStart \in nrCancelled'

\* Every step obeys this.
LEMMA StartsFollow ==
  ASSUME RuntimeConstants, RunnersInv, NR!Next
  PROVE  StartsFollowStops
<1> USE DEF RunnersInv, NR!RunnersHold, NR!TypeOK, NR!Go, NR!core, NR!runners,
         NR!Live, NR!Runners, NR!Places, NR!Awaiting,
         StoppedIsQuiet, StartsFollowStops
<1>1. CASE NR!Start
  BY <1>1 DEF NR!Start, NR!ClearSession
<1>2. CASE NR!Stop
  BY <1>2 DEF NR!Stop, NR!ClearSession
<1>3. CASE NR!StopQueueFull
  BY <1>3 DEF NR!StopQueueFull
<1>4. ASSUME NEW r \in NR!Runners, NR!RunAsync(r)
      PROVE  StartsFollowStops
  BY <1>4 DEF NR!RunAsync, NR!MayRun
<1>5. ASSUME NEW r \in NR!Runners, NR!DropAttempt(r)
      PROVE  StartsFollowStops
  BY <1>5 DEF NR!DropAttempt, NR!Ended
<1>6. ASSUME NEW r \in NR!Runners, NR!WaiterDropped(r)
      PROVE  StartsFollowStops
  BY <1>6 DEF NR!WaiterDropped, NR!Ended
<1>7. ASSUME NEW r \in NR!Runners, NR!Connect(r)
      PROVE  StartsFollowStops
  BY <1>7 DEF NR!Connect, NR!Step, NR!Request, NR!Ended
<1>8. ASSUME NEW r \in NR!Runners, NR!Handshake(r)
      PROVE  StartsFollowStops
  BY <1>8 DEF NR!Handshake, NR!Step, NR!Request, NR!Ended
<1>9. ASSUME NEW r \in NR!Runners, NR!NextGeneration(r)
      PROVE  StartsFollowStops
  BY <1>9 DEF NR!NextGeneration
<1>10. ASSUME NEW r \in NR!Runners, NR!Publish(r)
      PROVE  StartsFollowStops
  BY <1>10 DEF NR!Publish, NR!Publishable, NR!Ended
<1>11. ASSUME NEW r \in NR!Runners, NR!CheckCancel(r)
      PROVE  StartsFollowStops
  BY <1>11 DEF NR!CheckCancel, NR!Step, NR!Ended
<1>12. ASSUME NEW r \in NR!Runners, NR!PollCore(r)
      PROVE  StartsFollowStops
  BY <1>12 DEF NR!PollCore, NR!Step, NR!Ended, NR!Takeable
<1>13. ASSUME NEW r \in NR!Runners, NR!TunnelEnds(r)
      PROVE  StartsFollowStops
  BY <1>13 DEF NR!TunnelEnds, NR!Step
<1>14. ASSUME NEW r \in NR!Runners, NR!ReadFlag(r)
      PROVE  StartsFollowStops
  BY <1>14 DEF NR!ReadFlag
<1>15. ASSUME NEW r \in NR!Runners, NR!FinishGeneration(r)
      PROVE  StartsFollowStops
  BY <1>15 DEF NR!FinishGeneration, NR!ClearSession
<1>16. ASSUME NEW r \in NR!Runners, NR!CancelKicked(r)
      PROVE  StartsFollowStops
  BY <1>16 DEF NR!CancelKicked
<1>17. ASSUME NEW r \in NR!Runners, NEW ok \in BOOLEAN, NR!AnswerRequest(r, ok)
      PROVE  StartsFollowStops
  BY <1>17 DEF NR!AnswerRequest
<1>18. ASSUME NEW plan \in nrOffered, NR!AnswerPlan(plan)
      PROVE  StartsFollowStops
  BY <1>18 DEF NR!AnswerPlan
<1> HIDE DEF RunnersInv, NR!RunnersHold, NR!TypeOK, NR!Go, NR!core, NR!runners,
         NR!Live, NR!Runners, NR!Places, NR!Awaiting,
         StoppedIsQuiet, StartsFollowStops
<1> QED
  BY <1>1, <1>2, <1>3, <1>4, <1>5, <1>6, <1>7, <1>8, <1>9, <1>10, <1>11, <1>12, <1>13,
     <1>14, <1>15, <1>16, <1>17, <1>18
  DEF NR!Next, NR!Runner

\* Its runner is live, before and after, and the core waits for the network.
Published(plan) ==
  /\ plan.runner \in NR!Runners /\ nrState' = "AwaitingNetwork"
  /\ NR!Live(plan.runner) /\ NR!Live(plan.runner)'

\* A plan is published by a live runner of a core that then waits for the network, a
\* device is attached for a published plan, and taken by a live runner.
PlansComeFromRunners ==
  /\ \A plan \in nrOffered' :
        \/ plan \in nrOffered
        \/ Published(plan)
  /\ nrTun' # NR!NoPlan => nrTun' = nrTun \/ nrTun' \in nrOffered
  /\ \A s \in NR!Runners : nrDevice'[s] # NR!NoPlan =>
        nrDevice'[s] = nrDevice[s] \/ (nrDevice'[s] = nrTun /\ NR!Live(s))

\* Every step obeys this.
LEMMA PlansCome ==
  ASSUME RuntimeConstants, RunnersInv, NR!Next
  PROVE  PlansComeFromRunners
<1> USE DEF RunnersInv, NR!RunnersHold, NR!TypeOK, NR!Go, NR!core, NR!runners,
         NR!Live, NR!Runners, NR!Places, NR!Awaiting, PlansComeFromRunners,
         Published
<1>1. CASE NR!Start
  BY <1>1 DEF NR!Start, NR!ClearSession
<1>2. CASE NR!Stop
  BY <1>2 DEF NR!Stop, NR!ClearSession
<1>3. CASE NR!StopQueueFull
  BY <1>3 DEF NR!StopQueueFull
<1>4. ASSUME NEW r \in NR!Runners, NR!RunAsync(r)
      PROVE  PlansComeFromRunners
  BY <1>4 DEF NR!RunAsync, NR!MayRun
<1>5. ASSUME NEW r \in NR!Runners, NR!DropAttempt(r)
      PROVE  PlansComeFromRunners
  BY <1>5 DEF NR!DropAttempt, NR!Ended
<1>6. ASSUME NEW r \in NR!Runners, NR!WaiterDropped(r)
      PROVE  PlansComeFromRunners
  BY <1>6 DEF NR!WaiterDropped, NR!Ended
<1>7. ASSUME NEW r \in NR!Runners, NR!Connect(r)
      PROVE  PlansComeFromRunners
  BY <1>7 DEF NR!Connect, NR!Step, NR!Request, NR!Ended
<1>8. ASSUME NEW r \in NR!Runners, NR!Handshake(r)
      PROVE  PlansComeFromRunners
  BY <1>8 DEF NR!Handshake, NR!Step, NR!Request, NR!Ended
<1>9. ASSUME NEW r \in NR!Runners, NR!NextGeneration(r)
      PROVE  PlansComeFromRunners
  BY <1>9 DEF NR!NextGeneration
<1>10. ASSUME NEW r \in NR!Runners, NR!Publish(r)
      PROVE  PlansComeFromRunners
  <2>1. CASE NR!Ended(r)
    BY <1>10, <2>1 DEF NR!Publish, NR!Ended
  <2>2. CASE /\ nrState' = "AwaitingNetwork" /\ NR!Go(r, "awaiting")
             /\ nrOffered' = nrOffered \cup {[generation |-> nrGen[r], runner |-> r]}
             /\ UNCHANGED <<nrTun, nrDevice>>
    <3>1. NR!Live(r) /\ NR!Live(r)'
      BY <1>10, <2>2 DEF NR!Publish
    <3>2. ASSUME NEW plan \in nrOffered' PROVE plan \in nrOffered \/ plan.runner = r
      BY <2>2
    <3> HIDE DEF NR!Live
    <3>3. ASSUME NEW plan \in nrOffered', plan.runner = r PROVE Published(plan)
      BY <2>2, <3>1, <3>3
    <3> QED
      BY <2>2, <3>2, <3>3
  <2> QED
    BY <1>10, <2>1, <2>2 DEF NR!Publish
<1>11. ASSUME NEW r \in NR!Runners, NR!CheckCancel(r)
      PROVE  PlansComeFromRunners
  BY <1>11 DEF NR!CheckCancel, NR!Step, NR!Ended
<1>12. ASSUME NEW r \in NR!Runners, NR!PollCore(r)
      PROVE  PlansComeFromRunners
  BY <1>12 DEF NR!PollCore, NR!Step, NR!Ended, NR!Takeable
<1>13. ASSUME NEW r \in NR!Runners, NR!TunnelEnds(r)
      PROVE  PlansComeFromRunners
  BY <1>13 DEF NR!TunnelEnds, NR!Step
<1>14. ASSUME NEW r \in NR!Runners, NR!ReadFlag(r)
      PROVE  PlansComeFromRunners
  BY <1>14 DEF NR!ReadFlag
<1>15. ASSUME NEW r \in NR!Runners, NR!FinishGeneration(r)
      PROVE  PlansComeFromRunners
  BY <1>15 DEF NR!FinishGeneration, NR!ClearSession
<1>16. ASSUME NEW r \in NR!Runners, NR!CancelKicked(r)
      PROVE  PlansComeFromRunners
  BY <1>16 DEF NR!CancelKicked
<1>17. ASSUME NEW r \in NR!Runners, NEW ok \in BOOLEAN, NR!AnswerRequest(r, ok)
      PROVE  PlansComeFromRunners
  BY <1>17 DEF NR!AnswerRequest
<1>18. ASSUME NEW plan \in nrOffered, NR!AnswerPlan(plan)
      PROVE  PlansComeFromRunners
  BY <1>18 DEF NR!AnswerPlan
<1> HIDE DEF RunnersInv, NR!RunnersHold, NR!TypeOK, NR!Go, NR!core, NR!runners,
         NR!Live, NR!Runners, NR!Places, NR!Awaiting, PlansComeFromRunners,
         Published
<1> QED
  BY <1>1, <1>2, <1>3, <1>4, <1>5, <1>6, <1>7, <1>8, <1>9, <1>10, <1>11, <1>12, <1>13,
     <1>14, <1>15, <1>16, <1>17, <1>18
  DEF NR!Next, NR!Runner

\* Every step leaves every start but a running one cancelled.
LEMMA FinalStep ==
  ASSUME RuntimeConstants, RunnersInv, NR!Next
  PROVE  StopsAreFinal'
<1>1. nrStart \in 0..MaxStart /\ nrToken \in [NR!Runners -> 0..MaxStart]
  BY DEF RunnersInv, NR!RunnersHold, NR!TypeOK
<1>2. RunnersOnlyJoin /\ StartsFollowStops /\ StopsAreFinal
  BY RunnersJoin, StartsFollow DEF RunnersInv
<1>3. nrState' # "Stopped" => nrStart' > 0
  BY <1>1, <1>2 DEF StartsFollowStops, StopsAreFinal
<1>4. \A t \in 1..MaxStart :
        t < nrStart' \/ (t = nrStart' /\ nrState' = "Stopped") => t \in nrCancelled'
  BY <1>1, <1>2 DEF RunnersOnlyJoin, StartsFollowStops, StopsAreFinal
<1>5. \A r \in NR!Runners : nrPc'[r] # "idle" => nrToken'[r] > 0
  BY <1>1, <1>2 DEF RunnersOnlyJoin, StopsAreFinal
<1> QED
  BY <1>3, <1>4, <1>5 DEF StopsAreFinal

\* What is known of a plan stays true of it.
LEMMA AnnouncedStep ==
  ASSUME RuntimeConstants, RunnersInv, NR!Next, NEW plan, Announced(plan)
  PROVE  Announced(plan)'
<1>1. /\ nrStart \in 0..MaxStart /\ nrToken \in [NR!Runners -> 0..MaxStart]
      /\ \A r \in NR!Runners : nrToken[r] <= nrStart
  BY DEF RunnersInv, NR!RunnersHold, NR!TypeOK, TokensAreIssued
<1>2. RunnersOnlyJoin /\ StartsFollowStops
  BY RunnersJoin, StartsFollow
<1>3. /\ plan.runner \in NR!Runners /\ nrPc'[plan.runner] # "idle"
      /\ nrToken'[plan.runner] = nrToken[plan.runner]
  BY <1>2 DEF Announced, RunnersOnlyJoin
<1>4. nrToken'[plan.runner] = nrStart' => nrState' # "Connecting"
  <2>1. CASE nrStart' = nrStart + 1
    <3>1. nrToken[plan.runner] \in Int /\ nrToken[plan.runner] <= nrStart /\ nrStart \in Int
      BY <1>1, <1>3
    <3>2. nrToken[plan.runner] # nrStart + 1
      BY <3>1
    <3> QED
      BY <1>3, <2>1, <3>2
  <2>2. CASE nrStart' = nrStart /\ (nrState' = "Connecting" => nrState = "Connecting")
    BY <1>3, <2>2 DEF Announced
  <2> QED
    BY <1>2, <2>1, <2>2 DEF StartsFollowStops
<1>5. \A s \in NR!Runners :
        NR!Live(s)' /\ nrToken'[s] = nrToken'[plan.runner] => s = plan.runner
  <2> SUFFICES ASSUME NEW s \in NR!Runners, NR!Live(s)', nrToken'[s] = nrToken'[plan.runner]
               PROVE  s = plan.runner
    OBVIOUS
  <2>1. CASE NR!Live(s)
    BY <1>2, <1>3, <2>1 DEF Announced, RunnersOnlyJoin, NR!Live
  <2>2. CASE ~NR!Live(s)
    BY <1>2, <1>3, <2>2 DEF Announced, RunnersOnlyJoin
  <2> QED
    BY <2>1, <2>2
<1> QED
  BY <1>3, <1>4, <1>5 DEF Announced

\* Every step leaves the plans with their runners.
LEMMA PlanRunnersStep ==
  ASSUME RuntimeConstants, RunnersInv, NR!Next
  PROVE  PlansHaveRunners'
<1>1. PlansComeFromRunners /\ RunnersOnlyJoin /\ StartsFollowStops /\ PlansHaveRunners
  BY PlansCome, RunnersJoin, StartsFollow DEF RunnersInv
<1>2. ASSUME NEW plan \in nrOffered' PROVE Announced(plan)'
  <2>1. CASE plan \in nrOffered
    BY <1>1, <2>1, AnnouncedStep DEF PlansHaveRunners
  <2>2. CASE Published(plan)
    <3>1. nrPc'[plan.runner] # "idle" /\ nrToken'[plan.runner] = nrToken[plan.runner]
      BY <1>1, <2>2 DEF RunnersOnlyJoin, NR!Live, Published
    <3>2. NR!OneRunnerPerStart'
      BY OneRunnerStep
    <3>3. \A s \in NR!Runners :
            NR!Live(s)' /\ nrToken'[s] = nrToken'[plan.runner] => s = plan.runner
      BY <2>2, <3>2 DEF NR!OneRunnerPerStart, Published
    <3> QED
      BY <2>2, <3>1, <3>3 DEF Announced, Published
  <2> QED
    BY <1>1, <2>1, <2>2 DEF PlansComeFromRunners
<1>3. nrTun' # NR!NoPlan => Announced(nrTun)'
  <2> SUFFICES ASSUME nrTun' # NR!NoPlan PROVE Announced(nrTun)'
    OBVIOUS
  <2>1. PICK plan : plan = nrTun'
    OBVIOUS
  <2>2. Announced(plan)
    BY <1>1, <2>1 DEF PlansHaveRunners, PlansComeFromRunners
  <2>3. Announced(plan)'
    BY <2>2, AnnouncedStep
  <2> QED
    BY <2>1, <2>3 DEF Announced
<1>4. \A r \in NR!Runners : nrDevice'[r] # NR!NoPlan =>
        nrDevice'[r].runner \in NR!Runners /\ nrPc'[nrDevice'[r].runner] # "idle"
  BY <1>1 DEF PlansHaveRunners, PlansComeFromRunners, RunnersOnlyJoin, Announced, NR!NoPlan
<1> QED
  BY <1>2, <1>3, <1>4 DEF PlansHaveRunners, NR!NoPlan

\* Every step leaves a device in its start, or the earlier of two starts cancelled.
LEMMA StrayStep ==
  ASSUME RuntimeConstants, RunnersInv, NR!Next
  PROVE  NR!DeviceStaysInItsStart'
<1>1. /\ nrStart \in 0..MaxStart /\ nrToken \in [NR!Runners -> 0..MaxStart]
      /\ \A r \in NR!Runners : nrToken[r] <= nrStart
      /\ MaxStart \in Nat
  BY DEF RunnersInv, NR!RunnersHold, NR!TypeOK, TokensAreIssued, RuntimeConstants
<1>2. /\ PlansComeFromRunners /\ RunnersOnlyJoin /\ PlansHaveRunners /\ StopsAreFinal
      /\ NR!DeviceStaysInItsStart
      /\ \A s \in NR!Runners : nrDevice[s] # NR!NoPlan => nrPc[s] # "idle"
  BY PlansCome, RunnersJoin DEF RunnersInv, NR!RunnersHold, PlansAreNew
<1> SUFFICES ASSUME NEW r \in NR!Runners, nrDevice'[r] # NR!NoPlan, nrDevice'[r].runner # r
             PROVE  /\ nrToken'[r] # nrToken'[nrDevice'[r].runner]
                    /\ IF nrToken'[r] < nrToken'[nrDevice'[r].runner]
                       THEN nrToken'[r] \in nrCancelled'
                       ELSE nrToken'[nrDevice'[r].runner] \in nrCancelled'
  BY DEF NR!DeviceStaysInItsStart, NR!Cancelled, NR!NoPlan
<1>3. PICK q : q = nrDevice'[r].runner
  OBVIOUS
<1>4. CASE nrDevice'[r] = nrDevice[r]
  <2>1. nrPc[r] # "idle" /\ q \in NR!Runners /\ nrPc[q] # "idle"
    BY <1>2, <1>3, <1>4 DEF PlansHaveRunners
  <2>2. nrToken'[r] = nrToken[r] /\ nrToken'[q] = nrToken[q]
    BY <1>2, <2>1 DEF RunnersOnlyJoin
  <2>3. /\ nrToken[r] # nrToken[q]
        /\ IF nrToken[r] < nrToken[q] THEN nrToken[r] \in nrCancelled
                                      ELSE nrToken[q] \in nrCancelled
    BY <1>2, <1>3, <1>4 DEF NR!DeviceStaysInItsStart, NR!Cancelled
  <2> QED
    BY <1>2, <1>3, <2>2, <2>3 DEF RunnersOnlyJoin
<1>5. CASE nrDevice'[r] = nrTun /\ NR!Live(r)
  <2>1. Announced(nrTun) /\ nrTun.runner = q
    BY <1>2, <1>3, <1>5 DEF PlansHaveRunners
  <2>2. /\ nrPc[r] # "idle" /\ q \in NR!Runners /\ nrPc[q] # "idle"
        /\ nrToken[r] # nrToken[q]
    BY <1>3, <1>5, <2>1 DEF Announced, NR!Live
  <2>3. nrToken'[r] = nrToken[r] /\ nrToken'[q] = nrToken[q]
    BY <1>2, <2>2 DEF RunnersOnlyJoin
  <2>4. nrToken[r] > 0 /\ nrToken[q] > 0
    BY <1>2, <2>2 DEF StopsAreFinal
  <2>5. IF nrToken[r] < nrToken[q] THEN nrToken[r] \in nrCancelled
                                  ELSE nrToken[q] \in nrCancelled
    BY <1>1, <1>2, <2>2, <2>4 DEF StopsAreFinal
  <2> QED
    BY <1>2, <1>3, <2>2, <2>3, <2>5 DEF RunnersOnlyJoin
<1> QED
  BY <1>2, <1>4, <1>5 DEF PlansComeFromRunners

\* A runner that finishes after the next start does not have the counters attached,
\* so that finish_generation does nothing.
LEMMA SilentStep ==
  ASSUME RuntimeConstants, RunnersInv, NR!Next
  PROVE  SilentFinish
<1> USE DEF RunnersInv, RuntimeConstants, NR!RunnersHold, NR!TypeOK, NR!NoPlan, NR!Go,
         NR!core, NR!runners, NR!Live, NR!Cancelled, NR!Runners, NR!Places, NR!Awaiting,
         SilentFinish, CurrentIsAttached
<1>1. CASE NR!Start
  BY <1>1 DEF NR!Start, NR!ClearSession
<1>2. CASE NR!Stop
  BY <1>2 DEF NR!Stop, NR!ClearSession
<1>3. CASE NR!StopQueueFull
  BY <1>3 DEF NR!StopQueueFull
<1>4. ASSUME NEW r \in NR!Runners, NR!RunAsync(r)
      PROVE  SilentFinish
  BY <1>4 DEF NR!RunAsync, NR!MayRun
<1>5. ASSUME NEW r \in NR!Runners, NR!DropAttempt(r)
      PROVE  SilentFinish
  BY <1>5 DEF NR!DropAttempt, NR!Ended
<1>6. ASSUME NEW r \in NR!Runners, NR!WaiterDropped(r)
      PROVE  SilentFinish
  BY <1>6 DEF NR!WaiterDropped, NR!Ended
<1>7. ASSUME NEW r \in NR!Runners, NR!Connect(r)
      PROVE  SilentFinish
  BY <1>7 DEF NR!Connect, NR!Step, NR!Request, NR!Ended
<1>8. ASSUME NEW r \in NR!Runners, NR!Handshake(r)
      PROVE  SilentFinish
  BY <1>8 DEF NR!Handshake, NR!Step, NR!Request, NR!Ended
<1>9. ASSUME NEW r \in NR!Runners, NR!NextGeneration(r)
      PROVE  SilentFinish
  BY <1>9 DEF NR!NextGeneration
<1>10. ASSUME NEW r \in NR!Runners, NR!Publish(r)
      PROVE  SilentFinish
  BY <1>10 DEF NR!Publish, NR!Publishable, NR!Ended
<1>11. ASSUME NEW r \in NR!Runners, NR!CheckCancel(r)
      PROVE  SilentFinish
  BY <1>11 DEF NR!CheckCancel, NR!Step, NR!Ended
<1>12. ASSUME NEW r \in NR!Runners, NR!PollCore(r)
      PROVE  SilentFinish
  BY <1>12 DEF NR!PollCore, NR!Step, NR!Ended, NR!Takeable
<1>13. ASSUME NEW r \in NR!Runners, NR!TunnelEnds(r)
      PROVE  SilentFinish
  BY <1>13 DEF NR!TunnelEnds, NR!Step
<1>14. ASSUME NEW r \in NR!Runners, NR!ReadFlag(r)
      PROVE  SilentFinish
  BY <1>14 DEF NR!ReadFlag
<1>15. ASSUME NEW r \in NR!Runners, NR!FinishGeneration(r)
      PROVE  SilentFinish
  BY <1>15 DEF NR!FinishGeneration, NR!ClearSession
<1>16. ASSUME NEW r \in NR!Runners, NR!CancelKicked(r)
      PROVE  SilentFinish
  BY <1>16 DEF NR!CancelKicked
<1>17. ASSUME NEW r \in NR!Runners, NEW ok \in BOOLEAN, NR!AnswerRequest(r, ok)
      PROVE  SilentFinish
  BY <1>17 DEF NR!AnswerRequest
<1>18. ASSUME NEW plan \in nrOffered, NR!AnswerPlan(plan)
      PROVE  SilentFinish
  BY <1>18 DEF NR!AnswerPlan
<1> HIDE DEF RunnersInv, RuntimeConstants, NR!RunnersHold, NR!TypeOK, NR!NoPlan, NR!Go,
         NR!core, NR!runners, NR!Live, NR!Cancelled, NR!Runners, NR!Places, NR!Awaiting,
         SilentFinish, CurrentIsAttached
<1> QED
  BY <1>1, <1>2, <1>3, <1>4, <1>5, <1>6, <1>7, <1>8, <1>9, <1>10, <1>11, <1>12, <1>13,
     <1>14, <1>15, <1>16, <1>17, <1>18
  DEF NR!Next, NR!Runner

\* A new core has no runner.
LEMMA RunnersInit == ASSUME RuntimeConstants, NR!Init PROVE RunnersInv
<1> USE DEF NR!Init, RuntimeConstants, NR!Live, NR!NoPlan
<1>1. NR!TypeOK
  <2> HIDE DEF NR!NoPlan
  <2>1. /\ nrPc \in [NR!Runners -> NR!Places]
        /\ nrToken \in [NR!Runners -> 0..MaxStart] /\ nrGen \in [NR!Runners -> Nat]
        /\ nrFlag \in [NR!Runners -> BOOLEAN]
        /\ nrDevice \in [NR!Runners -> [generation : Nat, runner : {0} \cup NR!Runners]]
    BY NoPlanType DEF NR!Places, NR!Awaiting
  <2>2. /\ nrState = "Stopped" /\ nrStart \in 0..MaxStart /\ nrCancelled = {}
        /\ nrActive = FALSE /\ nrCounters = 0 /\ nrWaiters = {} /\ nrPendingPlan \in Nat
        /\ nrLastGeneration \in Nat /\ nrOffered = {}
    OBVIOUS
  <2> QED
    BY <2>1, <2>2, NoPlanType DEF NR!TypeOK
<1>2. /\ NR!OneRunnerPerStart /\ NR!StaleRunnersAreCancelled
      /\ NR!DeviceHasOneOwner /\ NR!DeviceStaysInItsStart
  BY DEF NR!OneRunnerPerStart, NR!StaleRunnersAreCancelled, NR!DeviceHasOneOwner,
         NR!DeviceStaysInItsStart
<1>3. /\ TokensAreIssued /\ CurrentIsAttached /\ StoppedIsQuiet /\ PlansAreNew
      /\ StopsAreFinal /\ PlansHaveRunners
  BY DEF TokensAreIssued, CurrentIsAttached, StoppedIsQuiet, PlansAreNew, StopsAreFinal,
         PlansHaveRunners
<1> QED
  BY <1>1, <1>2, <1>3 DEF RunnersInv, NR!RunnersHold

\* Nothing changes while nobody steps.
LEMMA RunnersStutter == ASSUME RunnersInv, UNCHANGED NR!vars PROVE RunnersInv'
BY DEF NR!vars, NR!core, NR!runners, RunnersInv, NR!RunnersHold, NR!TypeOK, NR!Live,
   NR!Cancelled, NR!OneRunnerPerStart, NR!StaleRunnersAreCancelled, NR!DeviceHasOneOwner,
   NR!DeviceStaysInItsStart, TokensAreIssued, CurrentIsAttached, StoppedIsQuiet,
   PlansAreNew, StopsAreFinal, PlansHaveRunners, Announced

\* However stops, starts and unwinding runners overlap, a session has one runner, a
\* superseded one has been cancelled, a TUN device is taken once and under the
\* generation it was acknowledged for, within a start by the runner whose plan it
\* answers and across a stop only with the earlier start cancelled, and a runner that
\* ends after the next start leaves the new session alone (runtime.rs), for any number
\* of starts and of runs.
THEOREM FencedRunners == ASSUME RuntimeConstants PROVE AnySpec => RunnersAreFenced
<1>1. StartAll => RunnersInv
  BY RunnersInit DEF StartAll
<1>2. [StepOne]_allVars => [NR!Next]_NR!vars
  BY DEF StepOne, allVars, nrVars, NR!vars, NR!core, NR!runners
<1>3. RunnersInv /\ [StepOne]_allVars => RunnersInv'
  <2>1. ASSUME RunnersInv, NR!Next PROVE RunnersInv'
    BY <2>1, RuntimeTypesStep, OneRunnerStep, StaleStep, DeviceStep, TokensStep,
       AttachedStep, QuietStep, PlansStep, FinalStep, PlanRunnersStep, StrayStep
       DEF RunnersInv, NR!RunnersHold
  <2> QED
    BY <1>2, <2>1, RunnersStutter
<1>4. RunnersInv => (part = "runtime" => NR!RunnersHold)
  BY DEF RunnersInv
<1>5. RunnersInv /\ [StepOne]_allVars => [SilentFinish]_NR!vars
  BY <1>2, SilentStep
<1> QED
  BY <1>1, <1>3, <1>4, <1>5, PTL
  DEF AnySpec, RunnersAreFenced, NR!StaleFinishIsSilent, SilentFinish

-----------------------------------------------------------------------------
(* The core of this client: the theorems of ClientCoreProofs, for the      *)
(* values ClientResources gives to the constants of ClientCore.            *)

Core == INSTANCE ClientCoreProofs WITH
  Capabilities <- {"TUN_FD", "TUN_PACKET_BATCH", "SOCKET_PROTECT", "SERVER_IDENTITY"},
  EventCapacity <- 3, MaxSequence <- 9, MaxGeneration <- 2, MaxUpdate <- 0,
  MaxCandidate <- 1,
  state <- clState, events <- clEvents, nextSequence <- clNextSequence,
  pendingPlan <- clPendingPlan, pendingSocketProtect <- clPendingSocketProtect,
  pendingServerIdentity <- clPendingServerIdentity,
  pendingPathCommand <- clPendingPathCommand,
  lastPlanGeneration <- clLastPlanGeneration, pathCandidate <- clPathCandidate,
  queuedPathCandidate <- clQueuedPathCandidate,
  nextPathCandidateId <- clNextPathCandidateId, lastPathUpdate <- clLastPathUpdate,
  roam <- clRoam, attachedTun <- clAttachedTun, packetTun <- clPacketTun,
  deviceId <- clDeviceId, runtimeCancel <- clRuntimeCancel,
  runtimeActive <- clRuntimeActive, runner <- clRunner, kicked <- clKicked

\* These values are what ClientCore::new accepts.
LEMMA CoreConstants ==
  /\ 3 \in Nat /\ 3 >= 2 /\ {9, 2, 0, 1} \subseteq Nat
  /\ {"TUN_FD", "TUN_PACKET_BATCH", "SOCKET_PROTECT", "SERVER_IDENTITY"} \subseteq Core!CapabilityBits
BY DEF Core!CapabilityBits

\* The two instances have the same initial states, steps and invariants: expanded,
\* they are the same formulas.
LEMMA SameCoreInit == ASSUME CL!Init PROVE Core!Init
BY Zenon DEF CL!Init, Core!Init, CL!NoCandidate, Core!NoCandidate, CL!NoPacketTun,
       Core!NoPacketTun, CL!NoQueued, Core!NoQueued
LEMMA SameCoreStep == ASSUME CL!Next PROVE Core!Next
BY Zenon DEF CL!Next, Core!Next, CL!AckPathCommand, Core!AckPathCommand, CL!Delivered,
       Core!Delivered, CL!LifecycleCall, Core!LifecycleCall, CL!Outcomes, Core!Outcomes,
       CL!PlanCall, Core!PlanCall, CL!PollEvent, Core!PollEvent, CL!PollPathEvent,
       Core!PollPathEvent, CL!RequestCall, Core!RequestCall, CL!SubmitPathUpdate,
       Core!SubmitPathUpdate, CL!TransportCall, Core!TransportCall, CL!AckAdvances,
       Core!AckAdvances, CL!AckCompletes, Core!AckCompletes, CL!AckGivesUp,
       Core!AckGivesUp, CL!AckRollsBack, Core!AckRollsBack, CL!CancelKicked,
       Core!CancelKicked, CL!EndAttempt, Core!EndAttempt, CL!FinishCancelled,
       Core!FinishCancelled, CL!FinishFailed, Core!FinishFailed, CL!PublishKick,
       Core!PublishKick, CL!PublishNotice, Core!PublishNotice, CL!RunAsync,
       Core!RunAsync, CL!SetDeviceId, Core!SetDeviceId, CL!Start, Core!Start, CL!Stop,
       Core!Stop, CL!StopQueueFull, Core!StopQueueFull, CL!AckNetworkPlanApplied,
       Core!AckNetworkPlanApplied, CL!AckNetworkPlanRejected,
       Core!AckNetworkPlanRejected, CL!AttachTun, Core!AttachTun, CL!PublishNetworkPlan,
       Core!PublishNetworkPlan, CL!TakeAttachedTun, Core!TakeAttachedTun,
       CL!TakePacketTunPump, Core!TakePacketTunPump, CL!lifecycleVars,
       Core!lifecycleVars, CL!pathVars, Core!pathVars, CL!requestVars, Core!requestVars,
       CL!runtimeVars, Core!runtimeVars, CL!tunVars, Core!tunVars,
       CL!AckServerIdentityRejected, Core!AckServerIdentityRejected,
       CL!AckServerIdentityTrusted, Core!AckServerIdentityTrusted, CL!AckSocketProtect,
       Core!AckSocketProtect, CL!RequestServerIdentity, Core!RequestServerIdentity,
       CL!RequestSocketProtect, Core!RequestSocketProtect, CL!SubmitBehind,
       Core!SubmitBehind, CL!SubmitFirst, Core!SubmitFirst, CL!SubmitQueueFull,
       Core!SubmitQueueFull, CL!SubmitReplacesUnseen, Core!SubmitReplacesUnseen,
       CL!SubmitSupersedes, Core!SubmitSupersedes, CL!AbortCandidatePath,
       Core!AbortCandidatePath, CL!CandidatePathValidated, Core!CandidatePathValidated,
       CL!RequestCandidateSocketBinding, Core!RequestCandidateSocketBinding,
       CL!RequestPathRefresh, Core!RequestPathRefresh, CL!AckFrame, Core!AckFrame,
       CL!AckMatches, Core!AckMatches, CL!queueVars, Core!queueVars, CL!HasRoom,
       Core!HasRoom, CL!NoCandidate, Core!NoCandidate, CL!NoQueued, Core!NoQueued,
       CL!StartPathCandidate, Core!StartPathCandidate, CL!FailureRecorded,
       Core!FailureRecorded, CL!WithoutPathEvents, Core!WithoutPathEvents,
       CL!BeginPathAbort, Core!BeginPathAbort, CL!Active, Core!Active, CL!ClearSession,
       Core!ClearSession, CL!IsNewest, Core!IsNewest, CL!NewEvent, Core!NewEvent,
       CL!Push, Core!Push, CL!StopReports, Core!StopReports, CL!PlanIsPending,
       Core!PlanIsPending, CL!TunIsAttached, Core!TunIsAttached, CL!NewerPlan,
       Core!NewerPlan, CL!PlanEvent, Core!PlanEvent, CL!AcceptUpdate, Core!AcceptUpdate,
       CL!IsFinishing, Core!IsFinishing, CL!SubmittedCandidate, Core!SubmittedCandidate,
       CL!NewPathUpdate, Core!NewPathUpdate, CL!SubmitSlots, Core!SubmitSlots,
       CL!PrepareUnseen, Core!PrepareUnseen, CL!WaitersWithoutPending,
       Core!WaitersWithoutPending, CL!WithoutCommand, Core!WithoutCommand,
       CL!MustRollBack, Core!MustRollBack, CL!PathsEnabled, Core!PathsEnabled,
       CL!RequestCommand, Core!RequestCommand, CL!RefreshEvent, Core!RefreshEvent,
       CL!CommandEvent, Core!CommandEvent, CL!PathKinds, Core!PathKinds, CL!ClearPaths,
       Core!ClearPaths, CL!ReleaseTun, Core!ReleaseTun, CL!CommandQueued,
       Core!CommandQueued, CL!PhaseAction, Core!PhaseAction, CL!NoPacketTun,
       Core!NoPacketTun, CL!Cardinality, Core!Cardinality
LEMMA SameCoreInvariant ==
  ASSUME Core!TypeOK, Core!GenerationsAreKeptApart
  PROVE  CL!TypeOK /\ CL!GenerationsAreKeptApart
BY Zenon DEF CL!TypeOK, Core!TypeOK, CL!GenerationsAreKeptApart, Core!GenerationsAreKeptApart,
       CL!Event, Core!Event, CL!PathCandidate, Core!PathCandidate,
       CL!QueuedPathCandidate, Core!QueuedPathCandidate, CL!RoamCounters,
       Core!RoamCounters, CL!Runners, Core!Runners, CL!States, Core!States,
       CL!PlanHandshake, Core!PlanHandshake, CL!RunningOwnsCurrentTun,
       Core!RunningOwnsCurrentTun, CL!StoppedOwnsNothing, Core!StoppedOwnsNothing,
       CL!Actions, Core!Actions, CL!LifecycleKinds, Core!LifecycleKinds, CL!PathKinds,
       Core!PathKinds, CL!Phases, Core!Phases, CL!Active, Core!Active, CL!NoCandidate,
       Core!NoCandidate, CL!NoPacketTun, Core!NoPacketTun, CL!NoQueued, Core!NoQueued,
       CL!PendingPhases, Core!PendingPhases

\* Through every order of starts, stops, failures, plans and late answers, a client
\* that also runs tasks, pumps and pools keeps its generations apart: a running core
\* has the tunnel device of the plan acknowledged last, a pending plan is newer than
\* all acknowledged ones, and a stopped core owns nothing (mod.rs).
THEOREM ClientGenerations == AnySpec => []GenerationsAreKeptApart
<1> DEFINE CoreInv == Core!PathInv /\ Core!GenerationInv
<1>1. StartAll => CoreInv
  BY SameCoreInit, CoreConstants, Core!InitPath, Core!GenerationInit DEF StartAll
<1>2. [StepOne]_allVars => [Core!Next]_Core!coreVars
  BY SameCoreStep DEF StepOne, allVars, clVars, Core!coreVars, Core!lifecycleVars,
     Core!queueVars, Core!requestVars, Core!pathVars, Core!tunVars, Core!runtimeVars
<1>3. CoreInv /\ [StepOne]_allVars => CoreInv'
  BY <1>2, CoreConstants, Core!BoundedCalls, Core!PathStep, Core!GenerationStep
<1>4. CoreInv => GenerationsAreKeptApart
  BY SameCoreInvariant DEF GenerationsAreKeptApart, Core!PathInv, Core!GenerationInv
<1> QED
  BY <1>1, <1>3, <1>4, PTL DEF AnySpec
=============================================================================
