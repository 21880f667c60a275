----------------------------- MODULE HostProofs -----------------------------
(***************************************************************************)
(* Proofs about the processes of a host, for any number of requests,       *)
(* profiles, processes and commands: the manager of outbound tunnels       *)
(* (TunnelManager) owns every tunnel process, the supervisor of the server *)
(* worker (WorkerSupervisor) bounds its waits and reports its end, and a   *)
(* client behind its kill switch (KillSwitch) dials only when what it must *)
(* not leak is closed, and opens nothing by accident; the sysctls it       *)
(* changes are on record (SysctlJournal).                                  *)
(***************************************************************************)
EXTENDS HostProcesses, Sequences, TLAPS

-----------------------------------------------------------------------------
(* The tunnel manager.                                                     *)

\* Processes are numbered from 1, and 0 stands for nobody.
TunnelConstants == Child \subseteq Nat \ {0} /\ 0 \notin Task

ProcStates == {"new", "alive", "termed", "killed", "exited", "reaped"}

\* The fields the argument speaks of are well typed.
TunnelTypes ==
  /\ tmRunning \in [Name -> Child \cup {0}]
  /\ tmProc \in [Child -> ProcStates]
  /\ tmProfile \in [Child -> Name \cup {0}]
  /\ tmOp \in [Task -> {"idle", "connect", "disconnect", "shutdown", "stopping"}]
  /\ tmStage \in [Task -> [Child -> {"no", "lock", "wait", "kill", "unlist", "done"}]]
  /\ tmFailures \subseteq Child

\* Whoever spawns holds the registry's lock over an entry that is free.
SpawnIsFenced == tmRunLock # 0 => tmSpawning \in Name /\ tmRunning[tmSpawning] = 0

\* A live process is the one its profile's entry names.
LiveIsListed ==
  \A c \in Child : tmProc[c] \in TM!Processes => tmProfile[c] \in Name /\ tmRunning[tmProfile[c]] = c

\* Only a process that has been reaped is taken out of the registry.
UnlistedIsReaped ==
  \A t \in Task, c \in Child : tmStage[t][c] = "unlist" => tmProc[c] = "reaped"

\* A shutdown that has taken its snapshot meets no spawn any more, and what it
\* does not stop, or has stopped, is gone or on its list of failures.
ShutdownIsFenced ==
  /\ \A t \in Task : tmOp[t] \in {"shutdown", "stopping"} => tmClosed
  /\ \A t \in Task : tmOp[t] = "stopping" => tmRunLock = 0
  /\ tmResult # "none" => tmClosed /\ tmRunLock = 0
  /\ \A t \in Task, c \in Child :
        tmOp[t] = "stopping" /\ tmStage[t][c] \in {"no", "done"} =>
            tmProc[c] \notin TM!Processes \/ c \in tmFailures

TunnelInv ==
  /\ TunnelTypes /\ SpawnIsFenced /\ LiveIsListed /\ UnlistedIsReaped /\ ShutdownIsFenced
  /\ TM!ShutdownLeavesNothing

\* A manager that starts has no tunnel.
LEMMA TunnelInit == ASSUME TunnelConstants, TM!Init PROVE TunnelInv
BY DEF TunnelConstants, TM!Init, TM!None, TM!Untouched, TM!Processes, TM!ShutdownLeavesNothing,
       TunnelInv, TunnelTypes, ProcStates, SpawnIsFenced, LiveIsListed, UnlistedIsReaped,
       ShutdownIsFenced

\* A step that spawns nothing, fails nobody and unlists nobody alive.
LEMMA TunnelQuiet ==
  ASSUME TunnelConstants, TunnelInv, TunnelTypes', UNCHANGED <<tmProfile, tmRunLock, tmSpawning>>,
         tmResult' = tmResult, tmFailures \subseteq tmFailures', tmClosed => tmClosed',
         \A c \in Child : tmProc'[c] \in TM!Processes => tmProc[c] \in TM!Processes,
         \A n \in Name : tmRunning'[n] # tmRunning[n] =>
            tmRunning'[n] = 0 /\ (tmRunning[n] # 0 => tmProc'[tmRunning[n]] \notin TM!Processes),
         \A t \in Task, c \in Child : tmStage'[t][c] = "unlist" => tmProc'[c] = "reaped",
         \A t \in Task : tmOp'[t] \in {"shutdown", "stopping"} => tmClosed',
         \A t \in Task : tmOp'[t] = "stopping" => tmRunLock = 0,
         \A t \in Task, c \in Child :
            tmOp'[t] = "stopping" /\ tmStage'[t][c] \in {"no", "done"} =>
               \/ tmOp[t] = "stopping" /\ tmStage[t][c] \in {"no", "done"}
               \/ tmProc'[c] \notin TM!Processes \/ c \in tmFailures'
  PROVE  TunnelInv'
<1> USE DEF TunnelInv, TunnelTypes, TunnelConstants
<1>1. SpawnIsFenced'
  BY DEF SpawnIsFenced
<1>2. LiveIsListed'
  BY DEF LiveIsListed
<1>3. UnlistedIsReaped'
  BY DEF UnlistedIsReaped
<1>4. ShutdownIsFenced'
  BY DEF ShutdownIsFenced
<1>5. TM!ShutdownLeavesNothing'
  BY DEF TM!ShutdownLeavesNothing
<1> QED
  BY <1>1, <1>2, <1>3, <1>4, <1>5

\* Every step keeps the types.
LEMMA TunnelTypeStep ==
  ASSUME TunnelConstants, TunnelTypes, [TM!Next]_TM!vars
  PROVE  TunnelTypes'
<1> USE DEF TunnelTypes, ProcStates, TM!None
<1>1. CASE TM!RequestShutdown \/ UNCHANGED TM!vars
  BY <1>1 DEF TM!RequestShutdown, TM!vars, TM!registry, TM!process, TM!requests, TM!report
<1>2. ASSUME NEW n \in Name, TM!IsRunning(n) PROVE TunnelTypes'
  BY <1>2 DEF TM!IsRunning, TM!requests, TM!report
<1>3. ASSUME NEW c \in Child, NEW ok \in BOOLEAN, TM!Exit(c, ok) PROVE TunnelTypes'
  BY <1>3 DEF TM!Exit, TM!registry, TM!requests, TM!report
<1>4. ASSUME NEW t \in Task PROVE TM!Untouched \in [Child -> {"no", "lock", "wait", "kill", "unlist", "done"}]
  BY DEF TM!Untouched
<1>5. ASSUME NEW t \in Task, TM!Progress(t) \/ TM!Shutdown(t) \/ TM!Cancel(t) PROVE TunnelTypes'
  <2>1. ASSUME NEW n \in Name, TM!Spawn(t, n) PROVE TunnelTypes'
    BY <2>1 DEF TM!Spawn, TM!report
  <2>2. CASE TM!SpawnFails(t)
    BY <2>2 DEF TM!SpawnFails, TM!process, TM!report
  <2>3. CASE TM!Snapshot(t)
    <3>1. [c \in Child |-> IF c \in TM!Registered THEN "lock" ELSE "no"]
             \in [Child -> {"no", "lock", "wait", "kill", "unlist", "done"}]
      OBVIOUS
    <3> QED
      BY <2>3, <3>1 DEF TM!Snapshot, TM!registry, TM!process, TM!report
  <2>4. CASE TM!DisconnectDone(t) \/ TM!ShutdownDone(t) \/ TM!Cancel(t)
    BY <1>4, <2>4 DEF TM!DisconnectDone, TM!ShutdownDone, TM!Cancel, TM!registry, TM!process, TM!report
  <2>5. CASE TM!Shutdown(t)
    BY <2>5 DEF TM!Shutdown, TM!registry, TM!process, TM!report
  <2> QED
    BY <1>5, <2>1, <2>2, <2>3, <2>4, <2>5 DEF TM!Progress
<1>6. ASSUME NEW t \in Task, NEW n \in Name, TM!Connect(t, n) \/ TM!Disconnect(t, n)
      PROVE  TunnelTypes'
  <2>1. CASE TM!Connect(t, n)
    BY <2>1 DEF TM!Connect, TM!report
  <2>2. CASE TM!Disconnect(t, n)
    <3>1. tmRunning[n] \in Child
      BY <2>2 DEF TM!Disconnect
    <3> QED
      BY <2>2, <3>1 DEF TM!Disconnect, TM!At, TM!registry, TM!process, TM!report
  <2> QED
    BY <1>6, <2>1, <2>2
<1>7. ASSUME NEW t \in Task, NEW c \in Child,
             TM!LockChild(t, c) \/ TM!SignalFails(t, c) \/ TM!StopStep(t, c)
      PROVE  TunnelTypes'
  <2> USE DEF TM!registry, TM!process, TM!report, TM!At, TM!Fails
  <2>1. CASE TM!LockChild(t, c)
    BY <2>1 DEF TM!LockChild
  <2>2. CASE TM!SignalFails(t, c)
    BY <2>2 DEF TM!SignalFails
  <2>3. CASE TM!Reap(t, c)
    BY <2>3 DEF TM!Reap
  <2>4. CASE TM!Deadline(t, c)
    BY <2>4 DEF TM!Deadline
  <2>5. CASE TM!Unlist(t, c)
    BY <2>5 DEF TM!Unlist
  <2> QED
    BY <1>7, <2>1, <2>2, <2>3, <2>4, <2>5 DEF TM!StopStep
<1> QED
  BY <1>1, <1>2, <1>3, <1>5, <1>6, <1>7 DEF TM!Next

\* Every step keeps the tunnels owned: one step per operation.
LEMMA TunnelStep ==
  ASSUME TunnelConstants, TunnelInv, [TM!Next]_TM!vars
  PROVE  TunnelInv'
<1>1. TunnelTypes /\ TunnelTypes'
  BY TunnelTypeStep DEF TunnelInv
<1> USE DEF TM!None, TM!registry, TM!process, TM!requests, TM!report, TM!Processes
<1>2. CASE TM!RequestShutdown \/ UNCHANGED TM!vars
  BY <1>1, <1>2, TunnelQuiet DEF TM!RequestShutdown, TM!vars, TunnelInv, UnlistedIsReaped,
     ShutdownIsFenced
<1>3. ASSUME NEW n \in Name, TM!IsRunning(n) PROVE TunnelInv'
  BY <1>1, <1>3, TunnelQuiet DEF TM!IsRunning, TM!InUse, TunnelInv, UnlistedIsReaped,
     ShutdownIsFenced, TunnelTypes
<1>4. ASSUME NEW c \in Child, NEW ok \in BOOLEAN, TM!Exit(c, ok) PROVE TunnelInv'
  BY <1>1, <1>4, TunnelQuiet DEF TM!Exit, TunnelInv, UnlistedIsReaped, ShutdownIsFenced, TunnelTypes
<1>5. ASSUME NEW t \in Task, NEW n \in Name, TM!Connect(t, n) PROVE TunnelInv'
  <2> USE DEF TM!Connect, TunnelInv, TunnelTypes, TunnelConstants
  <2>1. SpawnIsFenced'
    BY <1>1, <1>5 DEF SpawnIsFenced
  <2>2. LiveIsListed'
    BY <1>1, <1>5 DEF LiveIsListed, TM!InUse
  <2>3. UnlistedIsReaped'
    BY <1>1, <1>5 DEF UnlistedIsReaped
  <2>4. ShutdownIsFenced' /\ TM!ShutdownLeavesNothing'
    BY <1>1, <1>5 DEF ShutdownIsFenced, TM!ShutdownLeavesNothing
  <2> QED
    BY <1>1, <2>1, <2>2, <2>3, <2>4
<1>6. ASSUME NEW t \in Task, NEW n \in Name, TM!Spawn(t, n) PROVE TunnelInv'
  <2> USE DEF TunnelInv, TunnelTypes, TunnelConstants
  <2>1. PICK c \in Child :
          /\ tmProc[c] = "new"
          /\ tmRunning' = [tmRunning EXCEPT ![n] = c]
          /\ tmProc' = [tmProc EXCEPT ![c] = "alive"] /\ tmProfile' = [tmProfile EXCEPT ![c] = n]
    BY <1>6 DEF TM!Spawn
  <2>2. /\ tmRunLock = t /\ tmSpawning = n /\ tmRunLock' = 0 /\ tmOp' = [tmOp EXCEPT ![t] = "idle"]
        /\ UNCHANGED <<tmClosed, tmStage, tmFailures, tmResult>> /\ t # 0
    BY <1>6 DEF TM!Spawn
  <2>3. tmRunning[n] = 0
    BY <2>2 DEF SpawnIsFenced
  <2>4. SpawnIsFenced'
    BY <2>2 DEF SpawnIsFenced
  <2>5. LiveIsListed'
    BY <1>1, <2>1, <2>3 DEF LiveIsListed
  <2>6. UnlistedIsReaped'
    BY <1>1, <2>1, <2>2 DEF UnlistedIsReaped
  <2>7. ShutdownIsFenced' /\ TM!ShutdownLeavesNothing'
    BY <1>1, <2>1, <2>2 DEF ShutdownIsFenced, TM!ShutdownLeavesNothing
  <2> QED
    BY <1>1, <2>4, <2>5, <2>6, <2>7
<1>7. ASSUME NEW t \in Task, TM!SpawnFails(t) PROVE TunnelInv'
  BY <1>1, <1>7 DEF TM!SpawnFails, TunnelInv, SpawnIsFenced, LiveIsListed, UnlistedIsReaped,
     ShutdownIsFenced, TM!ShutdownLeavesNothing, TunnelTypes, TunnelConstants
<1>8. ASSUME NEW t \in Task, TM!Snapshot(t) PROVE TunnelInv'
  <2>1. \A c \in Child : tmProc[c] \in TM!Processes => c \in TM!Registered
    BY DEF TunnelInv, LiveIsListed, TM!Registered, TunnelConstants
  <2> QED
    BY <1>1, <1>8, <2>1, TunnelQuiet DEF TM!Snapshot, TunnelInv, UnlistedIsReaped,
       ShutdownIsFenced, TunnelTypes
<1>9. ASSUME NEW t \in Task, TM!DisconnectDone(t) \/ TM!Cancel(t) \/ TM!Shutdown(t)
      PROVE  TunnelInv'
  BY <1>1, <1>9, TunnelQuiet DEF TM!DisconnectDone, TM!Cancel, TM!Shutdown, TM!Untouched,
     TunnelInv, UnlistedIsReaped, ShutdownIsFenced, TunnelTypes
<1>10. ASSUME NEW t \in Task, TM!ShutdownDone(t) PROVE TunnelInv'
  <2> USE DEF TunnelInv, TunnelTypes
  <2>1. tmFailures = {} => \A c \in Child : tmProc[c] \notin TM!Processes
    BY <1>10 DEF TM!ShutdownDone, TM!Finished, ShutdownIsFenced
  <2>2. TM!ShutdownLeavesNothing'
    BY <1>10, <2>1 DEF TM!ShutdownDone, TM!ShutdownLeavesNothing
  <2>3. ShutdownIsFenced'
    BY <1>1, <1>10 DEF TM!ShutdownDone, ShutdownIsFenced
  <2>4. SpawnIsFenced' /\ LiveIsListed' /\ UnlistedIsReaped'
    BY <1>1, <1>10 DEF TM!ShutdownDone, TM!Untouched, SpawnIsFenced, LiveIsListed, UnlistedIsReaped
  <2> QED
    BY <1>1, <2>2, <2>3, <2>4
<1>11. ASSUME NEW t \in Task, NEW n \in Name, TM!Disconnect(t, n) PROVE TunnelInv'
  BY <1>1, <1>11, TunnelQuiet DEF TM!Disconnect, TM!At, TunnelInv, UnlistedIsReaped,
     ShutdownIsFenced, TunnelTypes, TunnelConstants
<1>12. ASSUME NEW t \in Task, NEW c \in Child, TM!LockChild(t, c) PROVE TunnelInv'
  BY <1>1, <1>12, TunnelQuiet DEF TM!LockChild, TM!At, TunnelInv, UnlistedIsReaped,
     ShutdownIsFenced, TunnelTypes
<1>13. ASSUME NEW t \in Task, NEW c \in Child, TM!SignalFails(t, c) PROVE TunnelInv'
  BY <1>1, <1>13, TunnelQuiet DEF TM!SignalFails, TM!At, TM!Fails, TunnelInv, UnlistedIsReaped,
     ShutdownIsFenced, TunnelTypes
<1>14. ASSUME NEW t \in Task, NEW c \in Child, TM!Reap(t, c) PROVE TunnelInv'
  BY <1>1, <1>14, TunnelQuiet DEF TM!Reap, TM!At, TM!Fails, TunnelInv, UnlistedIsReaped,
     ShutdownIsFenced, TunnelTypes
<1>15. ASSUME NEW t \in Task, NEW c \in Child, TM!Deadline(t, c) PROVE TunnelInv'
  BY <1>1, <1>15, TunnelQuiet DEF TM!Deadline, TM!At, TunnelInv, UnlistedIsReaped,
     ShutdownIsFenced, TunnelTypes
<1>16. ASSUME NEW t \in Task, NEW c \in Child, TM!Unlist(t, c) PROVE TunnelInv'
  BY <1>1, <1>16, TunnelQuiet DEF TM!Unlist, TM!At, TunnelInv, UnlistedIsReaped,
     ShutdownIsFenced, TunnelTypes
<1> QED
  BY <1>2, <1>3, <1>4, <1>5, <1>6, <1>7, <1>8, <1>9, <1>10, <1>11, <1>12, <1>13, <1>14, <1>15, <1>16
     DEF TM!Next, TM!Progress, TM!StopStep

\* Whatever requests connect, poll, disconnect, shut down or are dropped, in any
\* number and order, every tunnel process that may still use its TUN, routes and
\* DNS is the one its profile's entry names, and a shutdown that reported success
\* left none, also not one whose connect was admitted before it.
THEOREM OwnedTunnels ==
  ASSUME TunnelConstants
  PROVE  AnySpec => []TunnelsAreOwned
<1>1. StartAll => TunnelInv
  BY TunnelInit DEF StartAll
<1>2. TunnelInv /\ [StepOne]_allVars => TunnelInv'
  <2>1. [StepOne]_allVars => [TM!Next]_TM!vars
    BY DEF StepOne, allVars, tmVars, TM!vars, TM!registry, TM!process, TM!requests, TM!report
  <2> QED
    BY <2>1, TunnelStep
<1>3. TunnelInv => TunnelsAreOwned
  BY DEF TunnelInv, LiveIsListed, TunnelsAreOwned, TM!TunnelsAreOwned,
     TM!LiveTunnelsAreRegistered
<1> QED
  BY <1>1, <1>2, <1>3, PTL DEF AnySpec

-----------------------------------------------------------------------------
(* The supervisor of the server worker.                                    *)

\* What SupervisorPolicy asks of its own numbers: nothing but an order.
WorkerConstants ==
  /\ Capacity \in Nat /\ StableAfter \in Nat /\ ShutdownGrace \in Nat
  /\ InitialBackoff \in Nat /\ MaximumBackoff \in Nat /\ InitialBackoff <= MaximumBackoff
  /\ MaxCommands \in Nat /\ MaxVersion \in Nat /\ MaxFaults \in Nat

\* What a child process and the flags of a generation look like.
Children == [st : {"none", "starting", "handlers", "configured",
                   "running", "teardown", "exit_ok", "exit_bad"},
             users : 0..MaxVersion, config : 0..MaxVersion, hup : BOOLEAN, term : BOOLEAN]
Flags == [stopping : BOOLEAN, restarting : BOOLEAN, deadline : -1..ShutdownGrace]

\* TypeOK over these names.
SupervisorTypes ==
  /\ wsLoop \in {"retry", "select", "ended"} /\ wsResult \in {"none", "ok", "failed"}
  /\ wsQueue \in Seq({"restart", "reload"}) /\ Len(wsQueue) <= Capacity
  /\ wsClosed \in BOOLEAN /\ wsStopReady \in BOOLEAN /\ wsPid \in BOOLEAN
  /\ wsFlags \in Flags /\ wsWorker \in Children
  /\ wsDelay \in 0..MaximumBackoff /\ wsBackoff \in InitialBackoff..MaximumBackoff
  /\ wsAge \in 0..StableAfter
  /\ wsDisk \in [WS!Files -> 0..MaxVersion] /\ wsPromised \in [WS!Files -> 0..MaxVersion]
  /\ wsOffered \in 0..MaxCommands /\ wsFaults \in 0..MaxFaults

\* The loop is in its select exactly while it owns a worker.
LoopOwnsWorker ==
  /\ wsLoop = "select" <=> wsWorker.st # "none"
  /\ WS!PidIsOwned
  /\ wsLoop = "retry" => wsFlags = WS!NoFlags

\* What has been waited and what is left never exceed the longest delay.
WaitIsBudgeted == wsWaited \in Nat /\ wsWaited + wsDelay <= MaximumBackoff

\* The deadline is armed once: the age of the request and the time left make up
\* the grace period.
DeadlineIsArmedOnce ==
  /\ wsTermAge \in -1..ShutdownGrace
  /\ wsLoop # "ended" =>
        /\ wsFlags.deadline = -1 <=> wsTermAge = -1
        /\ wsFlags.deadline # -1 => wsTermAge + wsFlags.deadline = ShutdownGrace

\* A loop that goes on has not seen a final exit.
ExitIsReported ==
  /\ wsLastExit \in [bad : BOOLEAN, final : BOOLEAN]
  /\ wsLoop # "ended" => ~wsLastExit.final
  /\ WS!BadStopIsReported

WorkerInv ==
  /\ SupervisorTypes
  /\ LoopOwnsWorker /\ WaitIsBudgeted /\ DeadlineIsArmedOnce /\ ExitIsReported

\* The values a generation starts from are well typed.
LEMMA FreshGeneration ==
  ASSUME WorkerConstants
  PROVE  /\ WS!NoWorker \in Children /\ WS!NoWorker.st = "none"
         /\ [WS!NoWorker EXCEPT !.st = "starting"] \in Children
         /\ [WS!NoWorker EXCEPT !.st = "starting"].st = "starting"
         /\ WS!NoFlags \in Flags /\ WS!NoFlags.deadline = -1
<1> USE DEF WorkerConstants, WS!NoWorker, WS!NoFlags, WS!None
<1>1. WS!NoWorker \in Children /\ WS!NoWorker.st = "none"
  BY DEF Children
<1>2. [WS!NoWorker EXCEPT !.st = "starting"] \in Children
  <2> DEFINE w == WS!NoWorker
  <2> HIDE DEF w
  <2>1. w \in Children => [w EXCEPT !.st = "starting"] \in Children
    BY DEF Children
  <2> QED
    BY <1>1, <2>1 DEF w
<1>3. [WS!NoWorker EXCEPT !.st = "starting"].st = "starting"
  OBVIOUS
<1>4. WS!NoFlags \in Flags /\ WS!NoFlags.deadline = -1
  BY DEF Flags
<1> QED
  BY <1>1, <1>2, <1>3, <1>4

\* A supervisor starts with no worker and no wait behind it.
LEMMA WorkerInit == ASSUME WorkerConstants, WS!Init PROVE WorkerInv
<1>1. wsQueue \in Seq({"restart", "reload"}) /\ Len(wsQueue) <= Capacity
  BY DEF WS!Init, WorkerConstants
<1>2. wsDisk \in [WS!Files -> 0..MaxVersion] /\ wsPromised \in [WS!Files -> 0..MaxVersion]
  BY DEF WS!Init, WorkerConstants
<1>3. SupervisorTypes
  <2>1. /\ wsLoop = "retry" /\ wsResult = "none" /\ wsClosed = FALSE /\ wsStopReady = FALSE
        /\ wsFlags = WS!NoFlags /\ wsWorker = WS!NoWorker /\ wsPid = FALSE
        /\ wsDelay = 0 /\ wsBackoff = InitialBackoff /\ wsAge = 0 /\ wsOffered = 0 /\ wsFaults = 0
    BY DEF WS!Init
  <2>2. wsClosed \in BOOLEAN /\ wsStopReady \in BOOLEAN /\ wsPid \in BOOLEAN
    BY <2>1
  <2>3. wsFlags \in Flags /\ wsWorker \in Children
    BY <2>1, FreshGeneration
  <2>4. /\ wsDelay \in 0..MaximumBackoff /\ wsBackoff \in InitialBackoff..MaximumBackoff
        /\ wsAge \in 0..StableAfter /\ wsOffered \in 0..MaxCommands /\ wsFaults \in 0..MaxFaults
    BY <2>1 DEF WorkerConstants
  <2> QED
    BY <1>1, <1>2, <2>1, <2>2, <2>3, <2>4 DEF SupervisorTypes
<1> QED
  BY <1>3, FreshGeneration DEF WS!Init, WorkerInv, LoopOwnsWorker, WaitIsBudgeted, WS!None,
     DeadlineIsArmedOnce, ExitIsReported, WS!PidIsOwned, WS!BadStopIsReported, WorkerConstants

\* The delay after a failure never exceeds the longest.
LEMMA DoubledIsBounded ==
  ASSUME WorkerConstants, NEW b \in InitialBackoff..MaximumBackoff
  PROVE  WS!Doubled(b) \in InitialBackoff..MaximumBackoff
BY DEF WorkerConstants, WS!Doubled

\* The callers change neither the loop nor the worker.
LEMMA CallerStep ==
  ASSUME WorkerConstants, WorkerInv,
         \/ \E f \in WS!Files : WS!Save(f)
         \/ WS!PanelReload \/ WS!SighupReload \/ WS!PanelRestart
         \/ WS!StopRequested \/ WS!OwnerLost \/ WS!RetryReload \/ UNCHANGED WS!vars
  PROVE  WorkerInv'
<1> USE DEF WorkerConstants, WorkerInv, WS!loopVars, WS!ghostVars
<1>1. UNCHANGED <<WS!loopVars, WS!ghostVars, wsWorker, wsFaults>>
  BY DEF WS!Save, WS!PanelReload, WS!SighupReload, WS!PanelRestart, WS!StopRequested,
     WS!OwnerLost, WS!RetryReload, WS!vars
<1>2. UNCHANGED <<wsLoop, wsResult, wsFlags, wsDelay, wsBackoff, wsAge, wsPid, wsWorker, wsFaults, wsWaited,
                  wsTermAge, wsLastExit>>
  BY <1>1
<1>3. LoopOwnsWorker' /\ WaitIsBudgeted' /\ DeadlineIsArmedOnce' /\ ExitIsReported'
  BY <1>2 DEF LoopOwnsWorker, WaitIsBudgeted, DeadlineIsArmedOnce, ExitIsReported,
     WS!PidIsOwned, WS!BadStopIsReported, WS!NoFlags, WS!None
<1>4. /\ wsQueue' \in Seq({"restart", "reload"}) /\ Len(wsQueue') <= Capacity
      /\ wsClosed' \in BOOLEAN /\ wsStopReady' \in BOOLEAN
      /\ wsDisk' \in [WS!Files -> 0..MaxVersion] /\ wsPromised' \in [WS!Files -> 0..MaxVersion]
      /\ wsOffered' \in 0..MaxCommands
  <2> USE DEF SupervisorTypes, WS!Files
  <2>1. CASE \E f \in WS!Files : WS!Save(f)
    BY <2>1 DEF WS!Save
  <2>2. CASE WS!PanelReload
    BY <2>2 DEF WS!PanelReload
  <2>3. CASE WS!SighupReload
    BY <2>3 DEF WS!SighupReload
  <2>4. CASE WS!PanelRestart
    <3>1. CASE Len(wsQueue) < Capacity
      BY <2>4, <3>1 DEF WS!PanelRestart
    <3>2. CASE ~(Len(wsQueue) < Capacity)
      BY <2>4, <3>2 DEF WS!PanelRestart
    <3> QED
      BY <3>1, <3>2
  <2>5. CASE WS!StopRequested \/ WS!OwnerLost
    BY <2>5 DEF WS!StopRequested, WS!OwnerLost
  <2>6. CASE WS!RetryReload
    BY <2>6 DEF WS!RetryReload
  <2>7. CASE UNCHANGED WS!vars
    BY <2>7 DEF WS!vars, WS!cmdVars
  <2> QED
    BY <2>1, <2>2, <2>3, <2>4, <2>5, <2>6, <2>7
<1>5. SupervisorTypes'
  BY <1>2, <1>4 DEF SupervisorTypes, WS!None
<1> QED
  BY <1>3, <1>5

\* A step of the worker process leaves a process that the loop still owns.
LEMMA ChildStep ==
  ASSUME WorkerConstants, WorkerInv,
         WS!Boot \/ WS!WorkerReload \/ WS!WorkerStops \/ WS!WorkerExits \/ WS!WorkerCrashes
  PROVE  WorkerInv'
<1> USE DEF WorkerConstants, WorkerInv
<1>1. /\ UNCHANGED <<WS!cmdVars, WS!loopVars, WS!ghostVars>>
      /\ wsWorker.st # "none" /\ wsWorker'.st # "none" /\ wsFaults' \in 0..MaxFaults
      /\ wsWorker' \in Children
  <2> USE DEF SupervisorTypes, WS!Files, WS!WorkerStep, Children
  <2>1. CASE WS!Boot
    BY <2>1 DEF WS!Boot, WS!InstallHandlers, WS!LoadConfig, WS!LoadUsers
  <2>2. CASE WS!WorkerReload
    BY <2>2 DEF WS!WorkerReload
  <2>3. CASE WS!WorkerStops
    BY <2>3 DEF WS!WorkerStops
  <2>4. CASE WS!WorkerExits
    BY <2>4 DEF WS!WorkerExits
  <2>5. CASE WS!WorkerCrashes
    <3>1. wsFaults < MaxFaults /\ wsFaults' = wsFaults + 1
      BY <2>5 DEF WS!WorkerCrashes
    <3>2. wsFaults' \in 0..MaxFaults
      BY <3>1
    <3>3. wsWorker.st # "none" /\ wsWorker' = [wsWorker EXCEPT !.st = "exit_bad"]
      BY <2>5 DEF WS!WorkerCrashes, WS!Alive
    <3> QED
      BY <2>5, <3>2, <3>3 DEF WS!WorkerCrashes
  <2> QED
    BY <2>1, <2>2, <2>3, <2>4, <2>5
<1>2. UNCHANGED <<wsQueue, wsClosed, wsStopReady, wsDisk, wsOffered, wsPromised, wsLoop, wsResult, wsFlags,
                  wsDelay, wsBackoff, wsAge, wsPid, wsWaited, wsTermAge, wsLastExit>>
  BY <1>1 DEF WS!cmdVars, WS!loopVars, WS!ghostVars
<1>3. SupervisorTypes'
  BY <1>1, <1>2 DEF SupervisorTypes, WS!None, WS!Files
<1> QED
  BY <1>1, <1>2, <1>3 DEF LoopOwnsWorker, WaitIsBudgeted, DeadlineIsArmedOnce, ExitIsReported,
     WS!PidIsOwned, WS!BadStopIsReported, WS!NoFlags, WS!None

\* A spawn begins a generation, a failed one begins the next wait.
LEMMA SpawnStep ==
  ASSUME WorkerConstants, WorkerInv, WS!RetryTimer \/ WS!RetryRestart
  PROVE  WorkerInv'
<1>1. wsLoop = "retry" /\ (WS!SpawnWorker \/ WS!SpawnFails)
  BY DEF WS!RetryTimer, WS!RetryRestart
<1>2. CASE WS!SpawnWorker
  <2>1. /\ wsLoop' = "select" /\ wsFlags' \in Flags /\ wsFlags'.deadline = -1 /\ wsAge' = 0
        /\ wsQueue' = <<>> /\ wsWorker' \in Children /\ wsWorker'.st = "starting" /\ wsPid' = TRUE
        /\ wsDelay' = 0 /\ wsWaited' = 0 /\ wsTermAge' = WS!None
        /\ UNCHANGED <<wsResult, wsClosed, wsStopReady, wsDisk, wsOffered, wsPromised, wsBackoff,
                       wsFaults, wsLastExit>>
    BY <1>2, FreshGeneration DEF WS!SpawnWorker
  <2>2. SupervisorTypes'
    <3>1. <<>> \in Seq({"restart", "reload"}) /\ Len(<<>>) = 0
      OBVIOUS
    <3> QED
      BY <2>1, <3>1 DEF WorkerConstants, WorkerInv, SupervisorTypes, WS!Files
  <2>3. LoopOwnsWorker' /\ WaitIsBudgeted'
    BY <2>1 DEF WorkerConstants, WorkerInv, LoopOwnsWorker, WaitIsBudgeted, WS!PidIsOwned, SupervisorTypes
  <2>4. DeadlineIsArmedOnce' /\ ExitIsReported'
    BY <1>1, <2>1 DEF WorkerConstants, WorkerInv, DeadlineIsArmedOnce, ExitIsReported, WS!None,
       WS!BadStopIsReported
  <2> QED
    BY <2>2, <2>3, <2>4 DEF WorkerInv
<1>3. CASE WS!SpawnFails
  <2>1. /\ wsDelay' = wsBackoff /\ wsBackoff' = WS!Doubled(wsBackoff) /\ wsWaited' = 0 /\ wsQueue' = <<>>
        /\ wsFaults < MaxFaults /\ wsFaults' = wsFaults + 1
        /\ UNCHANGED <<wsLoop, wsResult, wsFlags, wsAge, wsClosed, wsStopReady, wsDisk, wsOffered,
                       wsPromised, wsWorker, wsPid, wsTermAge, wsLastExit>>
    BY <1>3 DEF WS!SpawnFails
  <2>2. wsBackoff \in InitialBackoff..MaximumBackoff /\ wsFaults \in 0..MaxFaults
    BY DEF WorkerInv, SupervisorTypes
  <2>3. wsBackoff' \in InitialBackoff..MaximumBackoff
    BY <2>1, <2>2, DoubledIsBounded
  <2>4. wsDelay' \in 0..MaximumBackoff /\ wsFaults' \in 0..MaxFaults
    BY <2>1, <2>2 DEF WorkerConstants
  <2>5. wsQueue' \in Seq({"restart", "reload"}) /\ Len(wsQueue') <= Capacity
    BY <2>1 DEF WorkerConstants
  <2>6. SupervisorTypes'
    BY <2>1, <2>3, <2>4, <2>5 DEF WorkerInv, SupervisorTypes
  <2>7. WaitIsBudgeted'
    BY <2>1, <2>4 DEF WaitIsBudgeted, WorkerConstants
  <2>8. LoopOwnsWorker' /\ DeadlineIsArmedOnce' /\ ExitIsReported'
    BY <2>1 DEF WorkerInv, LoopOwnsWorker, DeadlineIsArmedOnce, ExitIsReported, WS!PidIsOwned,
       WS!BadStopIsReported, WS!NoFlags
  <2> QED
    BY <2>6, <2>7, <2>8 DEF WorkerInv
<1> QED
  BY <1>1, <1>2, <1>3

\* A request to stop signals the worker, and only the first arms the deadline.
LEMMA TerminationStep ==
  ASSUME WorkerConstants, WorkerInv, wsLoop = "select",
         NEW fl \in Flags,
         fl.deadline = wsFlags.deadline, WS!RequestTermination(fl),
         UNCHANGED <<wsClosed, wsStopReady, wsDisk, wsOffered, wsPromised, wsLoop, wsResult, wsDelay,
                     wsBackoff, wsAge, wsPid, wsWaited, wsLastExit, wsFaults>>,
         wsQueue' \in Seq({"restart", "reload"}), Len(wsQueue') <= Capacity
  PROVE  WorkerInv'
<1> USE DEF WorkerConstants, WorkerInv, WS!None, WS!RequestTermination
<1>1. /\ wsWorker' \in Children
      /\ wsWorker'.st # "none"
  BY DEF WS!Signalled, SupervisorTypes, LoopOwnsWorker, Children
<1>2. /\ wsFlags' \in Flags
      /\ wsTermAge' \in -1..ShutdownGrace
      /\ wsFlags'.deadline # -1 /\ wsTermAge' # -1 /\ wsTermAge' + wsFlags'.deadline = ShutdownGrace
  BY DEF DeadlineIsArmedOnce, Flags
<1>3. SupervisorTypes'
  BY <1>1, <1>2 DEF SupervisorTypes, WS!Files
<1> QED
  BY <1>1, <1>2, <1>3 DEF LoopOwnsWorker, WaitIsBudgeted, DeadlineIsArmedOnce, ExitIsReported,
     WS!PidIsOwned, WS!BadStopIsReported, WS!NoFlags

\* The end of a generation is reported, or a bounded wait follows it.
LEMMA GenerationEnds ==
  ASSUME WorkerConstants, WorkerInv, wsLoop = "select", NEW bad \in BOOLEAN,
         ~WS!StopIsDue, WS!AfterWorker(bad)
  PROVE  WorkerInv'
<1> USE DEF WorkerConstants, WorkerInv, WS!None
<1>1. /\ wsWorker' = WS!NoWorker /\ wsPid' = FALSE /\ wsWaited' = 0 /\ wsTermAge' = -1
      /\ wsLastExit' = [bad |-> bad, final |-> wsStopReady \/ wsClosed]
      /\ wsFlags' = WS!NoFlags
      /\ UNCHANGED <<wsQueue, wsClosed, wsStopReady, wsDisk, wsOffered, wsPromised, wsAge, wsFaults>>
  BY DEF WS!AfterWorker, WS!Return, WS!cmdVars
<1>2. CASE WS!Final(wsFlags)
  <2>1. /\ wsLoop' = "ended" /\ wsResult' = IF bad THEN "failed" ELSE "ok"
        /\ UNCHANGED <<wsDelay, wsBackoff>>
    BY <1>2 DEF WS!AfterWorker, WS!Return
  <2>2. SupervisorTypes'
    BY <1>1, <2>1, FreshGeneration DEF SupervisorTypes, WS!Files
  <2> QED
    <3>1. LoopOwnsWorker' /\ DeadlineIsArmedOnce'
      BY <1>1, <2>1, FreshGeneration DEF LoopOwnsWorker, DeadlineIsArmedOnce, WS!PidIsOwned
    <3>3. WaitIsBudgeted'
      BY <1>1, <2>1 DEF WaitIsBudgeted, SupervisorTypes
    <3>2. ExitIsReported'
      BY <1>1, <2>1 DEF ExitIsReported, WS!BadStopIsReported, SupervisorTypes
    <3> QED
      BY <2>2, <3>1, <3>2, <3>3
<1>3. CASE ~WS!Final(wsFlags)
  <2>1. /\ wsLoop' = "retry" /\ wsResult' = wsResult
        /\ wsDelay' \in 0..MaximumBackoff /\ wsBackoff' \in InitialBackoff..MaximumBackoff
    <3>1. CASE wsFlags.restarting
      BY <1>3, <3>1 DEF WS!AfterWorker, SupervisorTypes
    <3>2. CASE ~wsFlags.restarting
      <4> DEFINE b == IF wsAge >= StableAfter THEN InitialBackoff ELSE wsBackoff
      <4>1. b \in InitialBackoff..MaximumBackoff
        BY DEF SupervisorTypes
      <4>2. WS!Doubled(b) \in InitialBackoff..MaximumBackoff
        BY <4>1, DoubledIsBounded
      <4>3. wsLoop' = "retry" /\ wsResult' = wsResult /\ wsDelay' = b /\ wsBackoff' = WS!Doubled(b)
        BY <1>3, <3>2 DEF WS!AfterWorker
      <4> HIDE DEF b
      <4> QED
        BY <4>1, <4>2, <4>3
    <3> QED
      BY <3>1, <3>2
  <2>2. ~wsStopReady /\ ~wsClosed
    BY <1>3 DEF WS!Final, WS!StopIsDue
  <2>3. SupervisorTypes'
    BY <1>1, <2>1, FreshGeneration DEF SupervisorTypes, WS!Files
  <2> QED
    <3>1. LoopOwnsWorker' /\ WaitIsBudgeted' /\ DeadlineIsArmedOnce'
      BY <1>1, <2>1, FreshGeneration DEF LoopOwnsWorker, WaitIsBudgeted, DeadlineIsArmedOnce,
         WS!PidIsOwned
    <3>2. ExitIsReported'
      BY <1>1, <2>1, <2>2 DEF ExitIsReported, WS!BadStopIsReported
    <3> QED
      BY <2>3, <3>1, <3>2
<1> QED
  BY <1>2, <1>3

\* A tick moves time from what is left to what has passed.
LEMMA TickStep == ASSUME WorkerConstants, WorkerInv, WS!Tick PROVE WorkerInv'
<1> USE DEF WorkerConstants, WorkerInv
<1>1. /\ UNCHANGED <<wsQueue, wsClosed, wsStopReady, wsDisk, wsOffered, wsPromised, wsLoop, wsResult,
                     wsBackoff, wsPid, wsWorker, wsFaults, wsLastExit>>
      /\ wsLoop \in {"retry", "select"}
  BY DEF WS!Tick, WS!cmdVars, SupervisorTypes
<1>2. wsDelay' \in 0..MaximumBackoff /\ wsWaited' \in Nat /\ wsWaited' + wsDelay' <= MaximumBackoff
  <2>1. CASE wsLoop = "retry"
    <3>1. wsDelay # 0 /\ wsDelay' = wsDelay - 1 /\ wsWaited' = wsWaited + 1
      BY <2>1 DEF WS!Tick, WS!TimerDue
    <3> QED
      BY <3>1 DEF SupervisorTypes, WaitIsBudgeted
  <2>2. CASE wsLoop # "retry"
    BY <2>2 DEF WS!Tick, SupervisorTypes, WaitIsBudgeted
  <2> QED
    BY <2>1, <2>2
<1>3. wsAge' \in 0..StableAfter
  BY DEF WS!Tick, SupervisorTypes
<1>4. /\ wsFlags.deadline \in -1..ShutdownGrace
      /\ wsLoop = "retry" => wsFlags.deadline = -1
      /\ wsLoop = "select" => wsFlags.deadline # 0
  BY <1>1, FreshGeneration DEF WS!Tick, WS!TimerDue, SupervisorTypes, LoopOwnsWorker, Flags
<1>5. /\ wsFlags' \in Flags
      /\ wsFlags.deadline = -1 => wsFlags' = wsFlags
      /\ wsFlags.deadline # -1 => wsFlags'.deadline = wsFlags.deadline - 1
  <2>1. wsFlags' = [wsFlags EXCEPT !.deadline =
                    IF wsFlags.deadline = -1 THEN -1 ELSE wsFlags.deadline - 1]
    BY DEF WS!Tick, WS!None
  <2>2. wsFlags \in Flags
    BY DEF SupervisorTypes
  <2>3. CASE wsFlags.deadline = -1
    BY <2>1, <2>2, <2>3 DEF Flags
  <2>4. CASE wsFlags.deadline # -1
    <3>1. wsFlags.deadline - 1 \in -1..ShutdownGrace
      BY <1>1, <1>4, <2>4
    <3> QED
      BY <2>1, <2>2, <2>4, <3>1 DEF Flags
  <2> QED
    BY <2>3, <2>4
<1>6. wsTermAge' = IF wsTermAge = -1 THEN -1 ELSE wsTermAge + 1
  BY DEF WS!Tick, WS!None
<1>7. DeadlineIsArmedOnce'
  BY <1>1, <1>4, <1>5, <1>6 DEF DeadlineIsArmedOnce
<1>8. SupervisorTypes'
  BY <1>1, <1>2, <1>3, <1>5 DEF SupervisorTypes
<1>9. LoopOwnsWorker' /\ ExitIsReported'
  BY <1>1, <1>4, <1>5 DEF LoopOwnsWorker, ExitIsReported, WS!PidIsOwned, WS!BadStopIsReported,
     WS!NoFlags, WS!None
<1> QED
  BY <1>2, <1>7, <1>8, <1>9 DEF WaitIsBudgeted

\* Every step keeps the worker supervised: one step per arm.
LEMMA WorkerStep ==
  ASSUME WorkerConstants, WorkerInv, [WS!Next]_WS!vars
  PROVE  WorkerInv'
<1> USE DEF WorkerConstants
<1>1. CASE WS!RetryEnds
  BY <1>1, FreshGeneration DEF WorkerInv, WS!RetryEnds, WS!Return, WS!ghostVars, SupervisorTypes,
     WS!Files, LoopOwnsWorker, WaitIsBudgeted, DeadlineIsArmedOnce, ExitIsReported,
     WS!PidIsOwned, WS!BadStopIsReported
<1>2. CASE WS!SelectStop
  BY <1>2, TerminationStep DEF WorkerInv, WS!SelectStop, WS!cmdVars, SupervisorTypes, Flags
<1>3. CASE WS!SelectExit \/ WS!SelectDeadline
  BY <1>3, GenerationEnds DEF WS!SelectExit, WS!SelectDeadline
<1>4. CASE WS!SelectReload
  <2>1. /\ wsWorker' \in Children
        /\ wsWorker.st # "none" /\ wsWorker'.st # "none"
    BY <1>4 DEF WorkerInv, WS!SelectReload, WS!CommandIsNext, WS!Signalled, SupervisorTypes,
       LoopOwnsWorker, Children
  <2>2. UNCHANGED <<wsClosed, wsStopReady, wsDisk, wsOffered, wsPromised, wsFaults, wsLoop, wsResult, wsFlags,
                    wsDelay, wsBackoff, wsAge, wsPid, wsWaited, wsTermAge, wsLastExit>>
    BY <1>4 DEF WS!SelectReload, WS!loopVars, WS!ghostVars
  <2>3. wsQueue' \in Seq({"restart", "reload"}) /\ Len(wsQueue') <= Capacity
    BY <1>4 DEF WorkerInv, WS!SelectReload, SupervisorTypes
  <2>4. SupervisorTypes'
    BY <2>1, <2>2, <2>3 DEF WorkerInv, SupervisorTypes, WS!None, WS!Files
  <2> QED
    BY <2>1, <2>2, <2>4 DEF WorkerInv, LoopOwnsWorker, WaitIsBudgeted, DeadlineIsArmedOnce,
       ExitIsReported, WS!PidIsOwned, WS!BadStopIsReported, WS!NoFlags, WS!None
<1>5. CASE WS!SelectRestart
  <2>1. wsQueue' \in Seq({"restart", "reload"}) /\ Len(wsQueue') <= Capacity
    BY <1>5 DEF WorkerInv, WS!SelectRestart, SupervisorTypes
  <2> QED
    BY <1>5, <2>1, TerminationStep DEF WorkerInv, WS!SelectRestart, WS!CommandIsNext,
       SupervisorTypes, Flags
<1>6. CASE WS!SelectClosed
  BY <1>6, TerminationStep DEF WorkerInv, WS!SelectClosed, WS!CommandIsNext, WS!cmdVars,
     SupervisorTypes, Flags
<1>7. CASE WS!Cancelled
  BY <1>7, FreshGeneration DEF WorkerInv, WS!Cancelled, WS!Return, WS!ghostVars, SupervisorTypes,
     WS!Files, LoopOwnsWorker, WaitIsBudgeted, DeadlineIsArmedOnce,
     ExitIsReported, WS!PidIsOwned, WS!BadStopIsReported
<1> QED
  BY <1>1, <1>2, <1>3, <1>4, <1>5, <1>6, <1>7, CallerStep, ChildStep, SpawnStep, TickStep
     DEF WS!Next, WS!Supervise

\* However panel, signals and crashes interleave, for every policy and channel
\* size: the published PID is that of the worker the loop owns, a worker asked to
\* stop is gone within the grace period however often it is asked again, no
\* stream of commands stretches a retry beyond the longest delay, and a bad last
\* generation is never reported as a clean stop.
THEOREM SupervisedWorker ==
  ASSUME WorkerConstants
  PROVE  AnySpec => []WorkerIsSupervised
<1>1. StartAll => WorkerInv
  BY WorkerInit DEF StartAll
<1>2. WorkerInv /\ [StepOne]_allVars => WorkerInv'
  <2>1. [StepOne]_allVars => [WS!Next]_WS!vars
    BY DEF StepOne, allVars, wsVars, WS!vars, WS!cmdVars, WS!loopVars, WS!ghostVars
  <2> QED
    BY <2>1, WorkerStep
<1>3. SupervisorTypes => WS!TypeOK
  BY DEF SupervisorTypes, WS!TypeOK, WS!None, Flags, Children
<1>4. WorkerInv => WorkerIsSupervised
  BY <1>3 DEF WorkerConstants, WorkerInv, LoopOwnsWorker, WaitIsBudgeted, DeadlineIsArmedOnce,
     ExitIsReported, WorkerIsSupervised, WS!WorkerIsSupervised, WS!GraceIsBounded,
     WS!RetryIsBounded, SupervisorTypes
<1> QED
  BY <1>1, <1>2, <1>4, PTL DEF AnySpec

-----------------------------------------------------------------------------
(* The kill switch.                                                        *)

\* What FirewallsAssumption says of one setting.
FirewallConstants(b) ==
  /\ \A f \in KS(b)!Family : b.server[f] \cap {"absent", "allow", "drop"} = {}
  /\ b.tools \subseteq SUBSET KS(b)!Family

Chain(b) == SUBSET ({"absent", "allow", "drop"} \cup KS(b)!Addr)
Rules(b) == [chain : Chain(b), hooks : SUBSET KS(b)!Hook, guards : SUBSET KS(b)!Hook]

\* The steps of one client, by what it is doing: closing the guards, building the chain,
\* taking one down, clearing guards, refreshing addresses, running.
ArmPc == {"arm", "guardO", "guardF"}
BuildPc == {"family", "create", "allow", "drop", "hookO", "hookF", "built", "missed"}
TeardownPc == {"unhookO", "unhookF", "unhooked", "flush", "delete", "tornDown"}
ClearPc == {"clearO", "clearF"}
RefreshPc == {"verify", "admit", "withdraw"}
RunPc == {"loop", "dial"} \cup RefreshPc

\* Why it takes a chain down or clears guards.
Building == ksPc \in BuildPc \/ (ksPc \in TeardownPc /\ ksCaller \in {"engage", "undo"})
Undoing == ksPc \in TeardownPc /\ ksCaller \in {"refuse", "final"}
Committing == ksPc \in ClearPc /\ ksCaller = "commit"
Stopping == ksPc \in TeardownPc \cup ClearPc /\ ksCaller = "stop"

FirewallTypes(b) ==
  /\ ksFw \in [b.tun -> [KS(b)!Family -> Rules(b)]]
  /\ ksPc # "off" => ksCfg.tun \in b.tun
  /\ ksCfg.tool \subseteq KS(b)!Family /\ ksCfg.gateway \in BOOLEAN
  /\ ksFam \in KS(b)!Family
  /\ ksFailed \in BOOLEAN /\ ksBroken \in BOOLEAN /\ ksTampered \in BOOLEAN
  /\ ksGuarded \subseteq KS(b)!Family /\ ksAttempted \subseteq KS(b)!Family
  /\ ksPaths \subseteq KS(b)!Family /\ ksProtected \subseteq KS(b)!Family
  /\ ksWant \in [KS(b)!Family -> SUBSET KS(b)!Addr] /\ ksTodo \subseteq KS(b)!Addr
  /\ ksMoves \in Nat

\* Every step has its caller and its family, and the families are worked on in order.
Phases(b) ==
  /\ ksPc \in {"off", "exit", "released"} \cup ArmPc \cup BuildPc \cup TeardownPc \cup ClearPc \cup RunPc
  /\ ksPc \in ArmPc => ksCaller = "engage" /\ ksAttempted = {} /\ ksProtected = {}
  /\ ksPc \in {"guardO", "guardF"} => ksFam \in ksCfg.tool
  /\ ksPc \in BuildPc => ksCaller \in {"engage", "undo"}
  /\ ksPc \in BuildPc \ {"family", "missed"} => ksFam \in ksAttempted
  /\ ksPc \in TeardownPc => /\ ksCaller \in {"engage", "undo", "refuse", "final", "stop"}
                            /\ ksFam \in IF ksCaller = "stop" THEN ksPaths ELSE ksAttempted
  /\ ksPc \in ClearPc => ksCaller \in {"commit", "stop"} /\ (ksCaller = "stop" => ksFam \in ksPaths)
  /\ ksPc \in RunPc => ksCaller \in {"commit", "refresh"}
  /\ ksAttempted \subseteq ksCfg.tool /\ ksGuarded \subseteq ksCfg.tool
  /\ ksProtected \subseteq ksAttempted
  /\ ksPc = "family" => ksFam \notin ksAttempted
  /\ Building /\ ksFam = 4 => 6 \notin ksAttempted
  /\ Building => ksProtected \subseteq {4} /\ (4 \in ksProtected => ksFam = 6)

\* No jump leads to a chain that is not there.
NoDanglingJump(b) == \A t \in b.tun, f \in KS(b)!Family : ksFw[t][f].chain = KS(b)!Absent => ksFw[t][f].hooks = {}

\* A chain is emptied and deleted only when no hook leads to it.
TeardownOrder(b) ==
  /\ ksPc = "unhookF" /\ ~ksFailed => "OUTPUT" \notin KS(b)!Here(ksFam).hooks
  /\ ksPc \in {"unhooked", "tornDown"} /\ ~ksFailed => KS(b)!Here(ksFam).hooks = {}
  /\ ksPc \in {"flush", "delete", "create", "allow", "drop", "hookO"} => KS(b)!Here(ksFam).hooks = {}
  /\ ksPc \in {"tornDown"} /\ ~ksFailed => KS(b)!Here(ksFam).chain = KS(b)!Absent
  /\ ksPc \in {"flush", "delete"} => ~ksFailed /\ KS(b)!Here(ksFam).chain # KS(b)!Absent

\* The guards of this family have been seen to.
Armed(f) == ksPc \in ArmPc => f = 4 /\ ksFam = 6

\* While the chain is built or taken down again, the guards close every hook that was
\* closed before setup began; where there is no guard there is nothing to close.
GuardsCover(b) ==
  ksPc \in ArmPc \/ Building \/ Undoing =>
    \A f \in ksCfg.tool :
      IF Armed(f)
      THEN /\ f \in ksGuarded => /\ "OUTPUT" \in KS(b)!Here(f).guards
                                 /\ KS(b)!Here(f).hooks \subseteq KS(b)!Here(f).guards
                                 /\ ksCfg.gateway => "FORWARD" \in KS(b)!Here(f).guards
                                 /\ \A h \in KS(b)!Hook : <<f, h>> \in ksFound => h \in KS(b)!Here(f).guards
           /\ f \notin ksGuarded => /\ KS(b)!Here(f).guards = {}
                                    /\ \A h \in KS(b)!Hook : <<f, h>> \notin ksFound
                                    /\ f \notin ksAttempted => KS(b)!Here(f).chain = KS(b)!Absent
      ELSE f \notin ksGuarded /\ \A h \in KS(b)!Hook : <<f, h>> \in ksFound => KS(b)!Closed(ksCfg.tun, f, h)

\* The chain has its rules before a hook leads to it.
BuildOrder(b) ==
  /\ ksPc = "guardF" => "OUTPUT" \in KS(b)!Here(ksFam).guards
  /\ ksPc \in TeardownPc /\ ksCaller = "engage" /\ ksFam \notin ksGuarded => KS(b)!Here(ksFam).chain = KS(b)!Absent
  /\ ksPc = "create" => KS(b)!Here(ksFam).chain = KS(b)!Absent
  /\ ksPc \in {"drop", "hookO", "hookF", "built"} => "allow" \in KS(b)!Here(ksFam).chain
  /\ ksPc \in {"hookO", "hookF", "built"} => "drop" \in KS(b)!Here(ksFam).chain
  /\ ksPc \in {"hookF", "built"} => "OUTPUT" \in KS(b)!Here(ksFam).hooks
  /\ ksPc = "built" /\ ksCfg.gateway => "FORWARD" \in KS(b)!Here(ksFam).hooks
  /\ ksPc = "hookF" => ksCfg.gateway

\* The family is closed, or the configuration lets it leak.
Decided(f) == f \in ksProtected \/ (f \notin ksGuarded /\ f \in ksCfg.leak)

\* What setup counts as protected has its chain and hooks.
ProtectedIsBuilt(b) ==
  /\ Building \/ Committing => \A f \in ksProtected : KS(b)!Intact(f) /\ "allow" \in KS(b)!Here(f).chain
  /\ Building /\ ksFam = 6 => Decided(4)
  /\ Committing \/ ksPc \in RunPc => \A f \in KS(b)!Family : Decided(f)
  /\ Committing \/ ksPc \in RunPc => \A f \in ksProtected : {"allow", "drop"} \subseteq KS(b)!Here(f).chain

\* The commit removes the guards, and a running client has none.
GuardsGo(b) ==
  /\ Committing => /\ \A f \in ksCfg.tool : f \notin ksGuarded \/ (f = 4 /\ ksFam = 6) => KS(b)!Here(f).guards = {}
                   /\ ksPc = "clearF" => ksFam \in ksGuarded /\ "OUTPUT" \notin KS(b)!Here(ksFam).guards
  /\ ksPc \in RunPc => \A f \in ksCfg.tool : KS(b)!Here(f).guards = {}

\* Setup has removed what clients of other TUNs left behind.
OthersAreAbsent(b) ==
  ksPc \notin {"off", "exit", "released"} =>
    \A u \in b.tun \ {ksCfg.tun} : \A f \in ksCfg.tool : ksFw[u][f].chain = KS(b)!Absent /\ ksFw[u][f].guards = {}

\* The refresh has seen to this family.
Refreshed(f) == ksPc = "dial" \/ (ksPc \in RefreshPc /\ f = 4 /\ ksFam = 6)

\* A refresh admits the new addresses before it withdraws the old ones.
RefreshOrder(b) ==
  /\ ksPc \in RefreshPc => ~ksTampered
  /\ ksPc \in RunPc /\ ~ksBroken => \A f \in ksProtected : Refreshed(f) =>
       /\ ~ksTampered => KS(b)!Intact(f)
       /\ ksWant[f] # {} => KS(b)!Here(f).chain \cap KS(b)!Addr = ksWant[f]
  /\ ksPc = "dial" => ~ksBroken
  /\ ksPc \in {"admit", "withdraw"} => ksFam \in ksProtected /\ KS(b)!Intact(ksFam)
  /\ ksPc = "admit" /\ ~ksFailed => ksWant[ksFam] \ ksTodo \subseteq KS(b)!Here(ksFam).chain
  /\ ksPc = "withdraw" => ksWant[ksFam] \subseteq KS(b)!Here(ksFam).chain /\ ksTodo \cap ksWant[ksFam] = {}
  /\ ksPc = "withdraw" /\ ~ksFailed => KS(b)!Here(ksFam).chain \cap KS(b)!Addr \subseteq ksWant[ksFam] \cup ksTodo
  /\ ksPc = "verify" => ~ksFailed

\* A clean stop removes the chain before the guards.
StopOrder(b) ==
  /\ Stopping /\ ksPc \in ClearPc => /\ KS(b)!Here(ksFam).hooks = {} /\ KS(b)!Here(ksFam).chain = KS(b)!Absent
                                     /\ ksPc = "clearF" => "OUTPUT" \notin KS(b)!Here(ksFam).guards
  /\ Stopping /\ ksFam = 6 /\ 4 \in ksPaths /\ ~ksBroken => KS(b)!Here(4) = KS(b)!Clean
  /\ ksPc = "released" => \A f \in ksPaths : KS(b)!Here(f) = KS(b)!Clean

FirewallInv(b) ==
  /\ FirewallTypes(b) /\ Phases(b) /\ NoDanglingJump(b) /\ TeardownOrder(b) /\ GuardsCover(b)
  /\ BuildOrder(b) /\ ProtectedIsBuilt(b) /\ GuardsGo(b) /\ OthersAreAbsent(b) /\ RefreshOrder(b)
  /\ StopOrder(b)

\* A command that reports success had its effect.
LEMMA OutcomeFacts ==
  ASSUME NEW b, NEW d, NEW o \in KS(b)!Outcomes(d)
  PROVE  o.done \in BOOLEAN /\ o.ok \in BOOLEAN /\ (o.ok => o.done)
<1>1. CASE o \in KS(b)!Failure
  BY <1>1 DEF KS!Failure
<1>2. CASE o \notin KS(b)!Failure
  <2>1. \/ o = [done |-> FALSE, ok |-> FALSE, late |-> FALSE, cost |-> 0]
        \/ o = [done |-> TRUE, ok |-> TRUE, late |-> FALSE, cost |-> 0]
    BY <1>2, Zenon DEF KS!Outcomes
  <2>2. CASE o = [done |-> FALSE, ok |-> FALSE, late |-> FALSE, cost |-> 0]
    BY <2>2
  <2>3. CASE o = [done |-> TRUE, ok |-> TRUE, late |-> FALSE, cost |-> 0]
    BY <2>3
  <2> QED
    BY <2>1, <2>2, <2>3
<1> QED
  BY <1>1, <1>2

\* At most the rules of the family being worked on change.
TouchesOnlyFam(b) ==
  /\ ksFw' \in [b.tun -> [KS(b)!Family -> Rules(b)]]
  /\ \A g \in KS(b)!Family \ {ksFam} : ksFw'[ksCfg.tun][g] = ksFw[ksCfg.tun][g]
  /\ \A u \in b.tun \ {ksCfg.tun} : ksFw'[u] = ksFw[u]

\* What a command writes is in force, field by field.
LEMMA WriteFacts ==
  ASSUME NEW b, FirewallTypes(b), ksPc # "off", NEW e \in Rules(b), KS(b)!Write(ksFam, e)
  PROVE  TouchesOnlyFam(b) /\ ksFw'[ksCfg.tun][ksFam] = e
BY DEF FirewallTypes, KS!Write, TouchesOnlyFam

LEMMA WriteGuards ==
  ASSUME NEW b, FirewallTypes(b), ksPc # "off", NEW x \in SUBSET KS(b)!Hook,
         KS(b)!Write(ksFam, [KS(b)!Here(ksFam) EXCEPT !.guards = x])
  PROVE  /\ TouchesOnlyFam(b) /\ ksFw'[ksCfg.tun][ksFam].guards = x
         /\ ksFw'[ksCfg.tun][ksFam].chain = KS(b)!Here(ksFam).chain /\ ksFw'[ksCfg.tun][ksFam].hooks = KS(b)!Here(ksFam).hooks
<1>1. KS(b)!Here(ksFam) \in Rules(b)
  BY DEF KS!Here, FirewallTypes
<1>2. [KS(b)!Here(ksFam) EXCEPT !.guards = x] \in Rules(b)
  BY <1>1 DEF Rules
<1> QED
  BY <1>1, <1>2, WriteFacts DEF Rules

LEMMA WriteHooks ==
  ASSUME NEW b, FirewallTypes(b), ksPc # "off", NEW x \in SUBSET KS(b)!Hook,
         KS(b)!Write(ksFam, [KS(b)!Here(ksFam) EXCEPT !.hooks = x])
  PROVE  /\ TouchesOnlyFam(b) /\ ksFw'[ksCfg.tun][ksFam].hooks = x
         /\ ksFw'[ksCfg.tun][ksFam].chain = KS(b)!Here(ksFam).chain /\ ksFw'[ksCfg.tun][ksFam].guards = KS(b)!Here(ksFam).guards
<1>1. KS(b)!Here(ksFam) \in Rules(b)
  BY DEF KS!Here, FirewallTypes
<1>2. [KS(b)!Here(ksFam) EXCEPT !.hooks = x] \in Rules(b)
  BY <1>1 DEF Rules
<1> QED
  BY <1>1, <1>2, WriteFacts DEF Rules

LEMMA WriteChain ==
  ASSUME NEW b, FirewallTypes(b), ksPc # "off", NEW x \in Chain(b),
         KS(b)!Write(ksFam, [KS(b)!Here(ksFam) EXCEPT !.chain = x])
  PROVE  /\ TouchesOnlyFam(b) /\ ksFw'[ksCfg.tun][ksFam].chain = x
         /\ ksFw'[ksCfg.tun][ksFam].hooks = KS(b)!Here(ksFam).hooks /\ ksFw'[ksCfg.tun][ksFam].guards = KS(b)!Here(ksFam).guards
<1>1. KS(b)!Here(ksFam) \in Rules(b)
  BY DEF KS!Here, FirewallTypes
<1>2. [KS(b)!Here(ksFam) EXCEPT !.chain = x] \in Rules(b)
  BY <1>1 DEF Rules
<1> QED
  BY <1>1, <1>2, WriteFacts DEF Rules

\* What a write leaves to be shown of the parts of the invariant that are about every
\* family and every TUN.
LEMMA WriteFrame ==
  ASSUME NEW b, FirewallInv(b), TouchesOnlyFam(b), ksCfg' = ksCfg, ksPc # "off",
         ksFw'[ksCfg.tun][ksFam].chain = KS(b)!Absent => ksFw'[ksCfg.tun][ksFam].hooks = {}
  PROVE  NoDanglingJump(b)' /\ (ksPc \notin {"exit", "released"} => OthersAreAbsent(b)')
<1>1. NoDanglingJump(b)'
  BY DEF FirewallInv, FirewallTypes, TouchesOnlyFam, NoDanglingJump
<1>2. ksPc \notin {"exit", "released"} => OthersAreAbsent(b)'
  BY DEF FirewallInv, FirewallTypes, TouchesOnlyFam, OthersAreAbsent
<1> QED
  BY <1>1, <1>2

\* The invariant holds at first, and then one lemma per action says that it is kept.
LEMMA FirewallStart ==
  ASSUME NEW b, FirewallConstants(b), KS(b)!Init
  PROVE  FirewallInv(b)
<1> USE DEF KS!Init, KS!NoClient, KS!Clean, KS!Absent
<1>1. FirewallTypes(b)
  <2>1. KS(b)!Clean \in Rules(b)
    BY DEF Rules, Chain
  <2> QED
    BY <2>1 DEF FirewallTypes, KS!Family
<1>2. Phases(b) /\ NoDanglingJump(b)
  BY DEF Phases, NoDanglingJump, ArmPc, BuildPc, TeardownPc, ClearPc, RunPc, RefreshPc, Building
<1> QED
  BY <1>1, <1>2 DEF FirewallInv, TeardownOrder, GuardsCover, BuildOrder, ProtectedIsBuilt, GuardsGo,
    OthersAreAbsent, RefreshOrder, StopOrder, ArmPc, BuildPc, TeardownPc, ClearPc, RunPc, RefreshPc,
    Building, Undoing, Committing, Stopping

LEMMA BeginFamilyStep ==
  ASSUME NEW b, FirewallConstants(b), FirewallInv(b), KS(b)!BeginFamily
  PROVE  FirewallInv(b)'
<1> USE DEF KS!BeginFamily, KS!Goto, KS!bounds, KS!history, FirewallInv, ArmPc, BuildPc, TeardownPc, ClearPc, RunPc, RefreshPc,
    Building, Undoing, Committing, Stopping, KS!Here
<1>1. FirewallTypes(b)'
  BY DEF FirewallTypes
<1>2. Phases(b)'
  BY DEF Phases, FirewallTypes
<1>3. NoDanglingJump(b)'
  BY DEF NoDanglingJump
<1>4. TeardownOrder(b)'
  BY DEF TeardownOrder
<1>5. GuardsCover(b)'
  BY DEF GuardsCover, Armed, KS!Closed
<1>6. BuildOrder(b)'
  BY DEF BuildOrder, GuardsCover, Armed, Phases, FirewallTypes
<1>7. ProtectedIsBuilt(b)'
  BY DEF ProtectedIsBuilt, Decided, KS!Intact
<1>8. GuardsGo(b)' /\ OthersAreAbsent(b)' /\ RefreshOrder(b)' /\ StopOrder(b)'
  BY DEF GuardsGo, OthersAreAbsent, RefreshOrder, StopOrder, Phases
<1> QED
  BY <1>1, <1>2, <1>3, <1>4, <1>5, <1>6, <1>7, <1>8
LEMMA StartStep ==
  ASSUME NEW b, FirewallConstants(b), FirewallInv(b), NEW t \in b.tun, NEW leak \in b.leaks, NEW gateway \in BOOLEAN, NEW tool \in b.tools, NEW ips \in KS(b)!Lookup,
         KS(b)!Start(t, leak, gateway, tool, ips)
  PROVE  FirewallInv(b)'
<1> USE DEF FirewallInv, KS!Here, KS!Goto, KS!bounds, KS!history, KS!memory,
    ArmPc, BuildPc, TeardownPc, ClearPc, RunPc, RefreshPc, Building, Undoing, Committing, Stopping, KS!Start, FirewallConstants, KS!Lookup
<1>11. FirewallTypes(b)'
  BY DEF FirewallTypes, Phases, FirewallTypes, KS!Family
<1>12. Phases(b)'
  BY DEF Phases, Phases, FirewallTypes
<1>13. NoDanglingJump(b)'
  BY DEF NoDanglingJump, Phases, FirewallTypes
<1>14. TeardownOrder(b)'
  BY DEF TeardownOrder, Phases, FirewallTypes
<1>15. GuardsCover(b)'
  BY DEF GuardsCover, Armed, KS!Closed, Phases, FirewallTypes, KS!ClosedBy
<1>16. BuildOrder(b)'
  BY DEF BuildOrder, GuardsCover, Armed, Phases, FirewallTypes
<1>17. ProtectedIsBuilt(b)'
  BY DEF ProtectedIsBuilt, Decided, KS!Intact, Phases, FirewallTypes
<1>18. GuardsGo(b)'
  BY DEF GuardsGo, GuardsCover, Armed, Phases, FirewallTypes
<1>19. OthersAreAbsent(b)'
  BY DEF OthersAreAbsent, Phases, FirewallTypes, KS!Admitted
<1>20. RefreshOrder(b)'
  BY DEF RefreshOrder, Refreshed, KS!Intact, Phases, FirewallTypes
<1>21. StopOrder(b)'
  BY DEF StopOrder, Phases, FirewallTypes
<1> QED
  BY <1>11, <1>12, <1>13, <1>14, <1>15, <1>16, <1>17, <1>18, <1>19, <1>20, <1>21

LEMMA ArmStep ==
  ASSUME NEW b, FirewallConstants(b), FirewallInv(b), KS(b)!Arm
  PROVE  FirewallInv(b)'
<1> USE DEF FirewallInv, KS!Here, KS!Goto, KS!bounds, KS!history, KS!memory,
    ArmPc, BuildPc, TeardownPc, ClearPc, RunPc, RefreshPc, Building, Undoing, Committing, Stopping, KS!Arm, KS!AfterArm
<1>1. /\ ksPc = "arm" /\ ksPc' \in {"exit", "guardO", "arm", "family"}
      /\ UNCHANGED <<ksFw, ksCfg, ksCaller, ksFailed, ksAttempted, ksBroken, ksProtected, ksWant, ksTodo, ksMoves, ksFound, ksTampered, ksGuarded>>
      /\ ksPaths' \in {ksPaths, ksPaths \cup {ksFam}}
      /\ ksPc' = "guardO" => ksFam' = ksFam /\ ksFam \in ksCfg.tool
      /\ ksPc' \in {"arm", "family"} => ksFam' = (IF ksFam = 4 THEN 6 ELSE 4) /\ (ksFam = 4 <=> ksPc' = "arm")
      /\ ksPc' \in {"arm", "family"} => ksFam \notin ksCfg.tool \/ ~KS(b)!NeedsGuard(ksFam)
      /\ ksPc' = "exit" => ksFam' = ksFam
  BY DEF FirewallTypes, KS!Family
<1> HIDE DEF KS!Arm, KS!AfterArm
<1>11. FirewallTypes(b)'
  BY <1>1 DEF FirewallTypes, Phases, FirewallTypes, KS!Family
<1>12. Phases(b)'
  BY <1>1 DEF Phases, Phases, FirewallTypes
<1>13. NoDanglingJump(b)'
  BY <1>1 DEF NoDanglingJump, Phases, FirewallTypes
<1>14. TeardownOrder(b)'
  BY <1>1 DEF TeardownOrder, Phases, FirewallTypes
<1>15. GuardsCover(b)'
  <2>1. CASE ksPc' = "exit"
    BY <1>1, <2>1 DEF GuardsCover
  <2>2. CASE ksPc' = "guardO"
    BY <1>1, <2>2 DEF GuardsCover, Armed, KS!Closed
  <2>3. CASE ksPc' \in {"arm", "family"}
    <3>1. ASSUME NEW f \in ksCfg.tool, f = ksFam
          PROVE  /\ f \notin ksGuarded /\ KS(b)!Here(f).guards = {} /\ KS(b)!Here(f).chain = KS(b)!Absent
                 /\ \A h \in KS(b)!Hook : <<f, h>> \notin ksFound
      BY <1>1, <2>3, <3>1 DEF GuardsCover, Armed, KS!Closed, KS!NeedsGuard, KS!Absent, Phases, FirewallTypes
    <3> QED
      BY <1>1, <2>3, <3>1 DEF GuardsCover, Armed, KS!Closed, Phases, FirewallTypes, KS!Family
  <2> QED
    BY <1>1, <2>1, <2>2, <2>3
<1>16. BuildOrder(b)'
  BY <1>1 DEF BuildOrder, GuardsCover, Armed, Phases, FirewallTypes
<1>17. ProtectedIsBuilt(b)'
  BY <1>1 DEF ProtectedIsBuilt, Decided, KS!Intact, Phases, FirewallTypes
<1>18. GuardsGo(b)'
  BY <1>1 DEF GuardsGo, GuardsCover, Armed, Phases, FirewallTypes
<1>19. OthersAreAbsent(b)'
  BY <1>1 DEF OthersAreAbsent, Phases, FirewallTypes
<1>20. RefreshOrder(b)'
  BY <1>1 DEF RefreshOrder, Refreshed, KS!Intact, Phases, FirewallTypes
<1>21. StopOrder(b)'
  BY <1>1 DEF StopOrder, Phases, FirewallTypes
<1> QED
  BY <1>11, <1>12, <1>13, <1>14, <1>15, <1>16, <1>17, <1>18, <1>19, <1>20, <1>21

LEMMA FamilyEndStep ==
  ASSUME NEW b, FirewallConstants(b), FirewallInv(b), KS(b)!FamilyEnd
  PROVE  FirewallInv(b)'
<1> USE DEF FirewallInv, KS!Here, KS!Goto, KS!bounds, KS!history, KS!memory,
    ArmPc, BuildPc, TeardownPc, ClearPc, RunPc, RefreshPc, Building, Undoing, Committing, Stopping, KS!FamilyEnd, KS!AbortSetup, KS!Advance
<1>1. /\ ksPc \in {"built", "missed"}
      /\ UNCHANGED <<ksFw, ksCfg, ksGuarded, ksAttempted, ksBroken, ksPaths, ksWant, ksTodo, ksMoves, ksFound, ksTampered>>
      /\ \/ ksProtected' \in {ksProtected, ksProtected \ {ksFam}}
         \/ ksPc = "built" /\ ksProtected' = ksProtected \cup {ksFam}
      /\ ksFam' \in KS(b)!Family /\ ksFailed' \in BOOLEAN
      /\ ksPc' \in {"exit", "unhookO", "family", "clearO"}
  BY DEF FirewallTypes, KS!Family
<1>2. ksPc' = "unhookO" => ksCaller' \in {"refuse", "final"} /\ ksFam' \in ksAttempted
  BY DEF Phases, FirewallTypes, KS!Family
<1>3. ksPc' \in {"family", "clearO"} =>
        /\ ksProtected' = IF ksPc = "built" THEN ksProtected \cup {ksFam} ELSE ksProtected \ {ksFam}
        /\ ksPc = "built" \/ (ksFam \notin ksGuarded /\ ksFam \in ksCfg.leak)
        /\ ksPc' = "family" => ksFam = 4 /\ ksFam' = 6 /\ ksCaller' = ksCaller
        /\ ksPc' = "clearO" => ksFam = 6 /\ ksFam' = 4 /\ ksCaller' = "commit"
  BY DEF FirewallTypes, KS!Family
<1>4. ksPc = "built" => ksFam \in ksAttempted
  BY <1>1 DEF Phases
<1> HIDE DEF KS!FamilyEnd, KS!AbortSetup, KS!Advance
<1>11. FirewallTypes(b)'
  BY <1>1, <1>2, <1>3, <1>4 DEF FirewallTypes, Phases, FirewallTypes, KS!Family, BuildOrder
<1>12. Phases(b)'
  <2>1. CASE ksPc' \in {"exit", "unhookO"}
    BY <1>1, <1>2, <1>4, <2>1 DEF Phases
  <2>2. CASE ksPc' = "family"
    BY <1>1, <1>3, <1>4, <2>2 DEF Phases
  <2>3. CASE ksPc' = "clearO"
    BY <1>1, <1>3, <1>4, <2>3 DEF Phases
  <2> QED
    BY <1>1, <2>1, <2>2, <2>3
<1>13. NoDanglingJump(b)'
  BY <1>1, <1>2, <1>3, <1>4 DEF NoDanglingJump, Phases, FirewallTypes
<1>14. TeardownOrder(b)'
  BY <1>1, <1>2, <1>3, <1>4 DEF TeardownOrder, Phases, FirewallTypes, KS!Family, BuildOrder
<1>15. GuardsCover(b)'
  BY <1>1, <1>2, <1>3, <1>4 DEF GuardsCover, Armed, KS!Closed, Phases, FirewallTypes, KS!Family, BuildOrder
<1>16. BuildOrder(b)'
  BY <1>1, <1>2, <1>3, <1>4 DEF BuildOrder, GuardsCover, Armed, Phases, FirewallTypes, KS!Family, BuildOrder
<1>17. ProtectedIsBuilt(b)'
  <2>1. CASE ksPc' \in {"exit", "unhookO"}
    BY <1>1, <1>2, <2>1 DEF ProtectedIsBuilt
  <2>2. CASE ksPc' = "family"
    BY <1>1, <1>3, <2>2 DEF ProtectedIsBuilt, Decided, KS!Intact, Phases, BuildOrder
  <2>3. CASE ksPc' = "clearO"
    BY <1>1, <1>3, <2>3 DEF ProtectedIsBuilt, Decided, KS!Intact, Phases, BuildOrder, KS!Family
  <2> QED
    BY <1>1, <2>1, <2>2, <2>3
<1>18. GuardsGo(b)'
  BY <1>1, <1>2, <1>3, <1>4 DEF GuardsGo, GuardsCover, Armed, Phases, FirewallTypes, KS!Family, BuildOrder
<1>19. OthersAreAbsent(b)'
  BY <1>1, <1>2, <1>3, <1>4 DEF OthersAreAbsent, Phases, FirewallTypes
<1>20. RefreshOrder(b)'
  BY <1>1, <1>2, <1>3, <1>4 DEF RefreshOrder, Refreshed, KS!Intact, Phases, FirewallTypes
<1>21. StopOrder(b)'
  BY <1>1, <1>2, <1>3, <1>4 DEF StopOrder, Phases, FirewallTypes
<1> QED
  BY <1>11, <1>12, <1>13, <1>14, <1>15, <1>16, <1>17, <1>18, <1>19, <1>20, <1>21

LEMMA UnhookedStep ==
  ASSUME NEW b, FirewallConstants(b), FirewallInv(b), KS(b)!Unhooked
  PROVE  FirewallInv(b)'
<1> USE DEF FirewallInv, KS!Here, KS!Goto, KS!bounds, KS!history, KS!memory,
    ArmPc, BuildPc, TeardownPc, ClearPc, RunPc, RefreshPc, Building, Undoing, Committing, Stopping, KS!Unhooked, KS!Deadline
<1>1. PICK o \in KS(b)!Outcomes(KS(b)!Deadline) :
        /\ ksFailed' = (ksFailed \/ ~o.ok)
        /\ KS(b)!Goto(IF ksFailed' \/ KS(b)!Here(ksFam).chain = KS(b)!Absent THEN "tornDown" ELSE "flush")
  OBVIOUS
<1>2. ksFailed' \in BOOLEAN /\ (~ksFailed' => ~ksFailed)
  BY <1>1, OutcomeFacts DEF FirewallTypes
<1>3. /\ ksPc = "unhooked" /\ UNCHANGED <<ksFw, ksCfg, ksGuarded, ksAttempted, ksPaths, ksProtected, ksWant, ksFam, ksCaller, ksBroken, ksTodo, ksMoves, ksFound, ksTampered>>
  OBVIOUS
<1> HIDE DEF KS!Unhooked
<1>11. FirewallTypes(b)'
  BY <1>1, <1>2, <1>3 DEF FirewallTypes, Phases, FirewallTypes
<1>12. Phases(b)'
  BY <1>1, <1>2, <1>3 DEF Phases, Phases, FirewallTypes
<1>13. NoDanglingJump(b)'
  BY <1>1, <1>2, <1>3 DEF NoDanglingJump, Phases, FirewallTypes
<1>14. TeardownOrder(b)'
  BY <1>1, <1>2, <1>3 DEF TeardownOrder, Phases, FirewallTypes
<1>15. GuardsCover(b)'
  BY <1>1, <1>2, <1>3 DEF GuardsCover, Armed, KS!Closed, Phases, FirewallTypes
<1>16. BuildOrder(b)'
  BY <1>1, <1>2, <1>3 DEF BuildOrder, GuardsCover, Armed, Phases, FirewallTypes
<1>17. ProtectedIsBuilt(b)'
  BY <1>1, <1>2, <1>3 DEF ProtectedIsBuilt, Decided, KS!Intact, Phases, FirewallTypes
<1>18. GuardsGo(b)'
  BY <1>1, <1>2, <1>3 DEF GuardsGo, GuardsCover, Armed, Phases, FirewallTypes
<1>19. OthersAreAbsent(b)'
  BY <1>1, <1>2, <1>3 DEF OthersAreAbsent, Phases, FirewallTypes
<1>20. RefreshOrder(b)'
  BY <1>1, <1>2, <1>3 DEF RefreshOrder, Refreshed, KS!Intact, Phases, FirewallTypes
<1>21. StopOrder(b)'
  BY <1>1, <1>2, <1>3 DEF StopOrder, Phases, FirewallTypes
<1> QED
  BY <1>11, <1>12, <1>13, <1>14, <1>15, <1>16, <1>17, <1>18, <1>19, <1>20, <1>21

LEMMA TornDownStep ==
  ASSUME NEW b, FirewallConstants(b), FirewallInv(b), KS(b)!TornDown
  PROVE  FirewallInv(b)'
<1> USE DEF FirewallInv, KS!Here, KS!Goto, KS!bounds, KS!history, KS!memory,
    ArmPc, BuildPc, TeardownPc, ClearPc, RunPc, RefreshPc, Building, Undoing, Committing, Stopping, KS!TornDown, KS!AbortSetup, KS!NextStop
<1>1. /\ ksPc = "tornDown"
      /\ UNCHANGED <<ksFw, ksCfg, ksGuarded, ksAttempted, ksPaths, ksWant, ksMoves, ksFound, ksTampered>>
      /\ ksProtected' \in {ksProtected, ksProtected \ {ksFam}} /\ ksTodo' = ksTodo
      /\ ksFam' \in KS(b)!Family /\ ksFailed' \in BOOLEAN /\ ksBroken' \in BOOLEAN
  BY DEF FirewallTypes, KS!Family
<1>11. FirewallTypes(b)'
  BY <1>1 DEF FirewallTypes, Phases, FirewallTypes, KS!Family, TeardownOrder
<1>12. Phases(b)'
  BY <1>1 DEF Phases, Phases, FirewallTypes, KS!Family, TeardownOrder
<1>13. NoDanglingJump(b)'
  BY <1>1 DEF NoDanglingJump, Phases, FirewallTypes
<1>14. TeardownOrder(b)'
  BY <1>1 DEF TeardownOrder, Phases, FirewallTypes, KS!Family, TeardownOrder
<1>15. GuardsCover(b)'
  BY <1>1 DEF GuardsCover, Armed, KS!Closed, Phases, FirewallTypes, KS!Family, TeardownOrder
<1>16. BuildOrder(b)'
  BY <1>1 DEF BuildOrder, GuardsCover, Armed, Phases, FirewallTypes, KS!Family, TeardownOrder
<1>17. ProtectedIsBuilt(b)'
  BY <1>1 DEF ProtectedIsBuilt, Decided, KS!Intact, Phases, FirewallTypes, KS!Family, TeardownOrder
<1>18. GuardsGo(b)'
  BY <1>1 DEF GuardsGo, GuardsCover, Armed, Phases, FirewallTypes
<1>19. OthersAreAbsent(b)'
  BY <1>1 DEF OthersAreAbsent, Phases, FirewallTypes
<1>20. RefreshOrder(b)'
  BY <1>1 DEF RefreshOrder, Refreshed, KS!Intact, Phases, FirewallTypes
<1>21. StopOrder(b)'
  BY <1>1 DEF StopOrder, Phases, FirewallTypes, KS!Family, TeardownOrder
<1> QED
  BY <1>11, <1>12, <1>13, <1>14, <1>15, <1>16, <1>17, <1>18, <1>19, <1>20, <1>21

LEMMA BeginRefreshStep ==
  ASSUME NEW b, FirewallConstants(b), FirewallInv(b), NEW ips \in KS(b)!Lookup, KS(b)!BeginRefresh(ips)
  PROVE  FirewallInv(b)'
<1> USE DEF FirewallInv, KS!Here, KS!Goto, KS!bounds, KS!history, KS!memory,
    ArmPc, BuildPc, TeardownPc, ClearPc, RunPc, RefreshPc, Building, Undoing, Committing, Stopping, KS!BeginRefresh, KS!Lookup
<1>11. FirewallTypes(b)'
  BY DEF FirewallTypes, Phases, FirewallTypes, KS!Family
<1>12. Phases(b)'
  BY DEF Phases, Phases, FirewallTypes
<1>13. NoDanglingJump(b)'
  BY DEF NoDanglingJump, Phases, FirewallTypes
<1>14. TeardownOrder(b)'
  BY DEF TeardownOrder, Phases, FirewallTypes
<1>15. GuardsCover(b)'
  BY DEF GuardsCover, Armed, KS!Closed, Phases, FirewallTypes
<1>16. BuildOrder(b)'
  BY DEF BuildOrder, GuardsCover, Armed, Phases, FirewallTypes
<1>17. ProtectedIsBuilt(b)'
  BY DEF ProtectedIsBuilt, Decided, KS!Intact, Phases, FirewallTypes
<1>18. GuardsGo(b)'
  BY DEF GuardsGo, GuardsCover, Armed, Phases, FirewallTypes
<1>19. OthersAreAbsent(b)'
  BY DEF OthersAreAbsent, Phases, FirewallTypes
<1>20. RefreshOrder(b)'
  BY DEF RefreshOrder, Refreshed, KS!Intact, Phases, FirewallTypes
<1>21. StopOrder(b)'
  BY DEF StopOrder, Phases, FirewallTypes
<1> QED
  BY <1>11, <1>12, <1>13, <1>14, <1>15, <1>16, <1>17, <1>18, <1>19, <1>20, <1>21

LEMMA ReconnectStep ==
  ASSUME NEW b, FirewallConstants(b), FirewallInv(b), KS(b)!Reconnect
  PROVE  FirewallInv(b)'
<1> USE DEF FirewallInv, KS!Here, KS!Goto, KS!bounds, KS!history, KS!memory,
    ArmPc, BuildPc, TeardownPc, ClearPc, RunPc, RefreshPc, Building, Undoing, Committing, Stopping, KS!Reconnect
<1>11. FirewallTypes(b)'
  BY DEF FirewallTypes, Phases, FirewallTypes
<1>12. Phases(b)'
  BY DEF Phases, Phases, FirewallTypes
<1>13. NoDanglingJump(b)'
  BY DEF NoDanglingJump, Phases, FirewallTypes
<1>14. TeardownOrder(b)'
  BY DEF TeardownOrder, Phases, FirewallTypes
<1>15. GuardsCover(b)'
  BY DEF GuardsCover, Armed, KS!Closed, Phases, FirewallTypes
<1>16. BuildOrder(b)'
  BY DEF BuildOrder, GuardsCover, Armed, Phases, FirewallTypes
<1>17. ProtectedIsBuilt(b)'
  BY DEF ProtectedIsBuilt, Decided, KS!Intact, Phases, FirewallTypes
<1>18. GuardsGo(b)'
  BY DEF GuardsGo, GuardsCover, Armed, Phases, FirewallTypes
<1>19. OthersAreAbsent(b)'
  BY DEF OthersAreAbsent, Phases, FirewallTypes
<1>20. RefreshOrder(b)'
  BY DEF RefreshOrder, Refreshed, KS!Intact, Phases, FirewallTypes
<1>21. StopOrder(b)'
  BY DEF StopOrder, Phases, FirewallTypes
<1> QED
  BY <1>11, <1>12, <1>13, <1>14, <1>15, <1>16, <1>17, <1>18, <1>19, <1>20, <1>21

LEMMA StopStep ==
  ASSUME NEW b, FirewallConstants(b), FirewallInv(b), NEW cleaned \in BOOLEAN, KS(b)!Stop(cleaned)
  PROVE  FirewallInv(b)'
<1> USE DEF FirewallInv, KS!Here, KS!Goto, KS!bounds, KS!history, KS!memory,
    ArmPc, BuildPc, TeardownPc, ClearPc, RunPc, RefreshPc, Building, Undoing, Committing, Stopping, KS!Stop
<1>11. FirewallTypes(b)'
  BY DEF FirewallTypes, Phases, FirewallTypes, KS!Family
<1>12. Phases(b)'
  BY DEF Phases, Phases, FirewallTypes, KS!Family
<1>13. NoDanglingJump(b)'
  BY DEF NoDanglingJump, Phases, FirewallTypes
<1>14. TeardownOrder(b)'
  BY DEF TeardownOrder, Phases, FirewallTypes
<1>15. GuardsCover(b)'
  BY DEF GuardsCover, Armed, KS!Closed, Phases, FirewallTypes
<1>16. BuildOrder(b)'
  BY DEF BuildOrder, GuardsCover, Armed, Phases, FirewallTypes
<1>17. ProtectedIsBuilt(b)'
  BY DEF ProtectedIsBuilt, Decided, KS!Intact, Phases, FirewallTypes
<1>18. GuardsGo(b)'
  BY DEF GuardsGo, GuardsCover, Armed, Phases, FirewallTypes
<1>19. OthersAreAbsent(b)'
  BY DEF OthersAreAbsent, Phases, FirewallTypes
<1>20. RefreshOrder(b)'
  BY DEF RefreshOrder, Refreshed, KS!Intact, Phases, FirewallTypes
<1>21. StopOrder(b)'
  BY DEF StopOrder, Phases, FirewallTypes
<1> QED
  BY <1>11, <1>12, <1>13, <1>14, <1>15, <1>16, <1>17, <1>18, <1>19, <1>20, <1>21

LEMMA GoneStep ==
  ASSUME NEW b, FirewallConstants(b), FirewallInv(b), KS(b)!Gone
  PROVE  FirewallInv(b)'
<1> USE DEF FirewallInv, KS!Here, KS!Goto, KS!bounds, KS!history, KS!memory,
    ArmPc, BuildPc, TeardownPc, ClearPc, RunPc, RefreshPc, Building, Undoing, Committing, Stopping, KS!Gone, KS!NoClient
<1>11. FirewallTypes(b)'
  BY DEF FirewallTypes, Phases, FirewallTypes, KS!Family
<1>12. Phases(b)'
  BY DEF Phases, Phases, FirewallTypes
<1>13. NoDanglingJump(b)'
  BY DEF NoDanglingJump, Phases, FirewallTypes
<1>14. TeardownOrder(b)'
  BY DEF TeardownOrder, Phases, FirewallTypes
<1>15. GuardsCover(b)'
  BY DEF GuardsCover, Armed, KS!Closed, Phases, FirewallTypes
<1>16. BuildOrder(b)'
  BY DEF BuildOrder, GuardsCover, Armed, Phases, FirewallTypes
<1>17. ProtectedIsBuilt(b)'
  BY DEF ProtectedIsBuilt, Decided, KS!Intact, Phases, FirewallTypes
<1>18. GuardsGo(b)'
  BY DEF GuardsGo, GuardsCover, Armed, Phases, FirewallTypes
<1>19. OthersAreAbsent(b)'
  BY DEF OthersAreAbsent, Phases, FirewallTypes
<1>20. RefreshOrder(b)'
  BY DEF RefreshOrder, Refreshed, KS!Intact, Phases, FirewallTypes
<1>21. StopOrder(b)'
  BY DEF StopOrder, Phases, FirewallTypes
<1> QED
  BY <1>11, <1>12, <1>13, <1>14, <1>15, <1>16, <1>17, <1>18, <1>19, <1>20, <1>21

\* A command on the rules of one family: what is left when it did or did not work.
LEMMA GuardInstallStep ==
  ASSUME NEW b, FirewallConstants(b), FirewallInv(b), KS(b)!GuardStep
  PROVE  FirewallInv(b)'
<1> USE DEF FirewallInv, KS!Here, KS!Goto, KS!bounds, KS!history, KS!memory, ArmPc, BuildPc, TeardownPc, ClearPc,
    RunPc, RefreshPc, Building, Undoing, Committing, Stopping
<1>1. PICK h \in KS(b)!Hook, o \in KS(b)!Outcomes("work") :
        /\ ksPc = IF h = "OUTPUT" THEN "guardO" ELSE "guardF"
        /\ KS(b)!Write(ksFam, [KS(b)!Here(ksFam) EXCEPT !.guards = IF o.done THEN @ \cup {h} ELSE @])
        /\ IF ~o.ok THEN ksPc' = "exit" /\ UNCHANGED <<ksFam, ksGuarded>>
           ELSE IF h = "OUTPUT" /\ KS(b)!NeedsForwardGuard(ksFam)
           THEN ksPc' = "guardF" /\ UNCHANGED <<ksFam, ksGuarded>>
           ELSE KS(b)!AfterArm(ksFam) /\ ksGuarded' = ksGuarded \cup {ksFam}
  BY DEF KS!GuardStep, KS!InstallGuard, KS!Hook
<1>2. /\ o.done \in BOOLEAN /\ o.ok \in BOOLEAN /\ (o.ok => o.done)
      /\ UNCHANGED <<ksCfg, ksCaller, ksFailed, ksAttempted, ksBroken, ksPaths, ksProtected, ksWant, ksTodo, ksMoves,
                     ksFound, ksTampered>>
  BY OutcomeFacts DEF KS!GuardStep
<1> DEFINE guards == IF o.done THEN KS(b)!Here(ksFam).guards \cup {h} ELSE KS(b)!Here(ksFam).guards
<1>3. KS(b)!Write(ksFam, [KS(b)!Here(ksFam) EXCEPT !.guards = guards]) /\ ksPc # "off" /\ guards \in SUBSET KS(b)!Hook
  BY <1>1, <1>2 DEF FirewallTypes, Rules
<1>4. /\ TouchesOnlyFam(b) /\ ksFw'[ksCfg.tun][ksFam].guards = guards
      /\ ksFw'[ksCfg.tun][ksFam].chain = KS(b)!Here(ksFam).chain /\ ksFw'[ksCfg.tun][ksFam].hooks = KS(b)!Here(ksFam).hooks
  <2> HIDE DEF guards
  <2> QED
    BY <1>3, WriteGuards
<1> USE DEF TouchesOnlyFam
<1>5. /\ ksFam' \in KS(b)!Family /\ ksGuarded' \in {ksGuarded, ksGuarded \cup {ksFam}}
      /\ ksPc' \in {"exit", "guardF", "arm", "family"}
      /\ ksPc' = "exit" => ksFam' = ksFam /\ ksGuarded' = ksGuarded
      /\ ksPc' = "guardF" => ksFam' = ksFam /\ ksGuarded' = ksGuarded /\ h = "OUTPUT" /\ o.done
      /\ ksPc' \in {"arm", "family"} =>
           /\ ksFam' = (IF ksFam = 4 THEN 6 ELSE 4) /\ (ksFam = 4 <=> ksPc' = "arm")
           /\ ksGuarded' = ksGuarded \cup {ksFam} /\ o.done
           /\ h = "OUTPUT" => ~KS(b)!NeedsForwardGuard(ksFam)
  BY <1>1, <1>2 DEF KS!AfterArm, KS!Family, FirewallTypes
<1>6. FirewallTypes(b)'
  BY <1>2, <1>4, <1>5, <1>1 DEF FirewallTypes
<1>7. Phases(b)' /\ TeardownOrder(b)' /\ ProtectedIsBuilt(b)' /\ GuardsGo(b)' /\ RefreshOrder(b)' /\ StopOrder(b)'
  BY <1>1, <1>2, <1>5 DEF Phases, FirewallTypes, TeardownOrder, ProtectedIsBuilt, GuardsGo, RefreshOrder, StopOrder
<1>8. NoDanglingJump(b)' /\ OthersAreAbsent(b)'
  BY <1>1, <1>2, <1>4, WriteFrame DEF NoDanglingJump, FirewallTypes
<1>9. BuildOrder(b)'
  BY <1>1, <1>2, <1>4, <1>5 DEF BuildOrder, FirewallTypes
<1>10. GuardsCover(b)'
  <2>1. CASE ksPc' = "exit"
    BY <2>1 DEF GuardsCover
  <2>2. CASE ksPc' = "guardF"
    BY <1>1, <1>2, <1>4, <1>5, <2>2 DEF GuardsCover, Armed, KS!Closed, FirewallTypes
  <2>3. CASE ksPc' \in {"arm", "family"}
    <3>1. /\ "OUTPUT" \in ksFw'[ksCfg.tun][ksFam].guards
          /\ "FORWARD" \in ksFw'[ksCfg.tun][ksFam].guards \/ (h = "OUTPUT" /\ ~KS(b)!NeedsForwardGuard(ksFam))
      BY <1>1, <1>2, <1>4, <1>5, <2>3 DEF BuildOrder, KS!Hook
    <3>2. /\ ksFw'[ksCfg.tun][ksFam].hooks \subseteq ksFw'[ksCfg.tun][ksFam].guards
          /\ ksCfg.gateway => "FORWARD" \in ksFw'[ksCfg.tun][ksFam].guards
          /\ \A k \in KS(b)!Hook : <<ksFam, k>> \in ksFound => k \in ksFw'[ksCfg.tun][ksFam].guards
      BY <1>1, <1>2, <1>4, <1>5, <2>3, <3>1 DEF KS!NeedsForwardGuard, GuardsCover, Armed, KS!Closed, Phases,
         FirewallTypes, Rules, KS!Hook
    <3> QED
      BY <1>1, <1>2, <1>4, <1>5, <2>3, <3>1, <3>2 DEF GuardsCover, Armed, KS!Closed, Phases, FirewallTypes, KS!Family
  <2> QED
    BY <1>5, <2>1, <2>2, <2>3
<1> QED
  BY <1>6, <1>7, <1>8, <1>9, <1>10

\* What a build step that failed leaves behind is undone with the rollback's deadline.
LEMMA UndoStep ==
  ASSUME NEW b, FirewallConstants(b), FirewallInv(b), TouchesOnlyFam(b), KS(b)!Undo,
         ksPc \in {"allow", "drop", "hookO", "hookF"},
         UNCHANGED <<ksCfg, ksFam, ksGuarded, ksAttempted, ksBroken, ksPaths, ksProtected, ksWant, ksTodo, ksMoves,
                     ksFound, ksTampered>>,
         ksFw'[ksCfg.tun][ksFam].guards = KS(b)!Here(ksFam).guards,
         ksFw'[ksCfg.tun][ksFam].hooks # KS(b)!Here(ksFam).hooks /\ ksFam \in ksGuarded =>
            ksFw'[ksCfg.tun][ksFam].hooks \subseteq KS(b)!Here(ksFam).guards,
         ksFw'[ksCfg.tun][ksFam].chain = KS(b)!Absent => ksFw'[ksCfg.tun][ksFam].hooks = {}
  PROVE  FirewallInv(b)'
<1> USE DEF FirewallInv, KS!Here, KS!Goto, KS!Undo, ArmPc, BuildPc, TeardownPc, ClearPc, RunPc, RefreshPc,
    Building, Undoing, Committing, Stopping, TouchesOnlyFam
<1>1. FirewallTypes(b)'
  BY DEF FirewallTypes
<1>2. Phases(b)' /\ TeardownOrder(b)' /\ BuildOrder(b)' /\ GuardsGo(b)' /\ RefreshOrder(b)' /\ StopOrder(b)'
  BY DEF Phases, TeardownOrder, BuildOrder, GuardsGo, RefreshOrder, StopOrder
<1>3. NoDanglingJump(b)' /\ OthersAreAbsent(b)'
  BY WriteFrame
<1>4. GuardsCover(b)'
  BY DEF GuardsCover, Armed, Phases, FirewallTypes
<1>5. ProtectedIsBuilt(b)'
  BY DEF ProtectedIsBuilt, Decided, KS!Intact, Phases, FirewallTypes
<1> QED
  BY <1>1, <1>2, <1>3, <1>4, <1>5

\* A build step that worked: the chain is filled before it is hooked in.
LEMMA BuiltStep ==
  ASSUME NEW b, FirewallConstants(b), FirewallInv(b), TouchesOnlyFam(b),
         ksPc \in {"create", "allow", "drop", "hookO", "hookF"},
         ksPc' \in {"allow", "drop", "hookO", "hookF", "built"},
         UNCHANGED <<ksCfg, ksFam, ksCaller, ksFailed, ksGuarded, ksAttempted, ksBroken, ksPaths, ksProtected, ksWant,
                     ksTodo, ksMoves, ksFound, ksTampered>>,
         ksFw'[ksCfg.tun][ksFam].guards = KS(b)!Here(ksFam).guards,
         ksFw'[ksCfg.tun][ksFam].hooks # KS(b)!Here(ksFam).hooks /\ ksFam \in ksGuarded =>
            ksFw'[ksCfg.tun][ksFam].hooks \subseteq KS(b)!Here(ksFam).guards,
         ksFw'[ksCfg.tun][ksFam].chain = KS(b)!Absent => ksFw'[ksCfg.tun][ksFam].hooks = {},
         ksPc' \in {"allow", "drop", "hookO"} => ksFw'[ksCfg.tun][ksFam].hooks = {},
         ksPc' \in {"drop", "hookO", "hookF", "built"} => "allow" \in ksFw'[ksCfg.tun][ksFam].chain,
         ksPc' \in {"hookO", "hookF", "built"} => "drop" \in ksFw'[ksCfg.tun][ksFam].chain,
         ksPc' \in {"hookF", "built"} => "OUTPUT" \in ksFw'[ksCfg.tun][ksFam].hooks,
         ksPc' = "built" /\ ksCfg.gateway => "FORWARD" \in ksFw'[ksCfg.tun][ksFam].hooks,
         ksPc' = "hookF" => ksCfg.gateway
  PROVE  FirewallInv(b)'
<1> USE DEF FirewallInv, KS!Here, KS!Goto, ArmPc, BuildPc, TeardownPc, ClearPc, RunPc, RefreshPc,
    Building, Undoing, Committing, Stopping, TouchesOnlyFam
<1>1. FirewallTypes(b)'
  BY DEF FirewallTypes
<1>2. Phases(b)' /\ TeardownOrder(b)' /\ BuildOrder(b)' /\ GuardsGo(b)' /\ RefreshOrder(b)' /\ StopOrder(b)'
  BY DEF Phases, TeardownOrder, BuildOrder, GuardsGo, RefreshOrder, StopOrder
<1>3. NoDanglingJump(b)' /\ OthersAreAbsent(b)'
  BY WriteFrame
<1>4. GuardsCover(b)'
  BY DEF GuardsCover, Armed, Phases, FirewallTypes
<1>5. ProtectedIsBuilt(b)'
  BY DEF ProtectedIsBuilt, Decided, KS!Intact, Phases, FirewallTypes
<1> QED
  BY <1>1, <1>2, <1>3, <1>4, <1>5

LEMMA CreateChainStep ==
  ASSUME NEW b, FirewallConstants(b), FirewallInv(b), KS(b)!CreateChain
  PROVE  FirewallInv(b)'
<1>1. PICK o \in KS(b)!Outcomes("work") :
        KS(b)!Write(ksFam, [KS(b)!Here(ksFam) EXCEPT !.chain = IF o.done /\ @ = KS(b)!Absent THEN {} ELSE @])
  BY DEF KS!CreateChain
<1> DEFINE chain == IF o.done /\ KS(b)!Here(ksFam).chain = KS(b)!Absent THEN {} ELSE KS(b)!Here(ksFam).chain
<1>2. KS(b)!Write(ksFam, [KS(b)!Here(ksFam) EXCEPT !.chain = chain]) /\ ksPc # "off" /\ chain \in Chain(b)
  BY <1>1 DEF KS!CreateChain, FirewallInv, FirewallTypes, Rules, Chain, KS!Here
<1>3. /\ TouchesOnlyFam(b) /\ ksFw'[ksCfg.tun][ksFam].chain = chain
      /\ ksFw'[ksCfg.tun][ksFam].hooks = KS(b)!Here(ksFam).hooks /\ ksFw'[ksCfg.tun][ksFam].guards = KS(b)!Here(ksFam).guards
  <2> HIDE DEF chain
  <2> QED
    BY <1>2, WriteChain DEF FirewallInv
<1>4. KS(b)!Here(ksFam).hooks = {}
  BY DEF KS!CreateChain, FirewallInv, TeardownOrder
<1> QED
  BY <1>3, <1>4, BuiltStep DEF KS!CreateChain, KS!Goto, KS!bounds, KS!history

LEMMA AddAllowsStep ==
  ASSUME NEW b, FirewallConstants(b), FirewallInv(b), KS(b)!AddAllows
  PROVE  FirewallInv(b)'
<1> USE DEF FirewallInv
<1>1. CASE KS(b)!Here(ksFam).chain = KS(b)!Absent
  <2>1. TouchesOnlyFam(b) /\ ksFw' = ksFw
    BY <1>1 DEF KS!AddAllows, TouchesOnlyFam, FirewallTypes
  <2> QED
    BY <1>1, <2>1, UndoStep DEF KS!AddAllows, KS!Here, KS!bounds, KS!history, NoDanglingJump, TeardownOrder, FirewallTypes
<1>2. CASE KS(b)!Here(ksFam).chain # KS(b)!Absent
  <2>1. PICK o \in KS(b)!Outcomes("work") :
          /\ KS(b)!Write(ksFam, IF o.done THEN [KS(b)!Here(ksFam) EXCEPT !.chain = {"allow"} \cup ksWant[ksFam]] ELSE KS(b)!Here(ksFam))
          /\ IF o.ok THEN KS(b)!Goto("drop") /\ UNCHANGED <<ksCaller, ksFailed>> ELSE KS(b)!Undo
    BY <1>2 DEF KS!AddAllows
  <2>2. o.done \in BOOLEAN /\ o.ok \in BOOLEAN /\ (o.ok => o.done) /\ ksPc # "off"
    BY OutcomeFacts DEF KS!AddAllows
  <2>3. KS(b)!Here(ksFam).hooks = {} /\ KS(b)!Here(ksFam) \in Rules(b) /\ {"allow"} \cup ksWant[ksFam] \in Chain(b)
    BY DEF KS!AddAllows, TeardownOrder, FirewallTypes, KS!Here, Chain
  <2>4. CASE ~o.done
    <3>1. TouchesOnlyFam(b) /\ ksFw'[ksCfg.tun][ksFam] = KS(b)!Here(ksFam)
      BY <2>1, <2>2, <2>3, <2>4, WriteFacts
    <3> QED
      BY <1>2, <2>1, <2>2, <2>3, <2>4, <3>1, UndoStep DEF KS!AddAllows, KS!bounds, KS!history
  <2>5. CASE o.done
    <3>1. /\ TouchesOnlyFam(b) /\ ksFw'[ksCfg.tun][ksFam].chain = {"allow"} \cup ksWant[ksFam]
          /\ ksFw'[ksCfg.tun][ksFam].hooks = KS(b)!Here(ksFam).hooks /\ ksFw'[ksCfg.tun][ksFam].guards = KS(b)!Here(ksFam).guards
      BY <2>1, <2>2, <2>3, <2>5, WriteChain
    <3>2. CASE o.ok
      BY <2>1, <2>3, <3>1, <3>2, BuiltStep DEF KS!AddAllows, KS!bounds, KS!history, KS!Goto
    <3>3. CASE ~o.ok
      BY <2>1, <2>3, <3>1, <3>3, UndoStep DEF KS!AddAllows, KS!bounds, KS!history
    <3> QED
      BY <2>2, <3>2, <3>3
  <2> QED
    BY <2>2, <2>4, <2>5
<1> QED
  BY <1>1, <1>2

LEMMA AddDropStep ==
  ASSUME NEW b, FirewallConstants(b), FirewallInv(b), KS(b)!AddDrop
  PROVE  FirewallInv(b)'
<1> USE DEF FirewallInv
<1>1. PICK o \in KS(b)!Outcomes("work") :
        /\ KS(b)!Write(ksFam, IF o.done THEN [KS(b)!Here(ksFam) EXCEPT !.chain = @ \cup {"drop"}] ELSE KS(b)!Here(ksFam))
        /\ IF o.ok THEN KS(b)!Goto("hookO") /\ UNCHANGED <<ksCaller, ksFailed>> ELSE KS(b)!Undo
  BY DEF KS!AddDrop, KS!BuildStep
<1>2. /\ o.done \in BOOLEAN /\ o.ok \in BOOLEAN /\ (o.ok => o.done) /\ ksPc = "drop"
      /\ UNCHANGED <<ksCfg, ksFam, ksGuarded, ksAttempted, ksBroken, ksPaths, ksProtected, ksWant, ksTodo, ksMoves,
                     ksFound, ksTampered>>
  BY OutcomeFacts DEF KS!AddDrop, KS!BuildStep, KS!bounds, KS!history
<1> DEFINE chain == KS(b)!Here(ksFam).chain \cup {"drop"}
<1>3. /\ KS(b)!Here(ksFam).hooks = {} /\ KS(b)!Here(ksFam) \in Rules(b) /\ chain \in Chain(b) /\ "allow" \in KS(b)!Here(ksFam).chain
      /\ chain # KS(b)!Absent
  BY <1>2 DEF TeardownOrder, BuildOrder, FirewallTypes, KS!Here, Chain, Rules, KS!Absent
<1>4. CASE ~o.done
  <2>1. TouchesOnlyFam(b) /\ ksFw'[ksCfg.tun][ksFam] = KS(b)!Here(ksFam)
    BY <1>1, <1>2, <1>3, <1>4, WriteFacts
  <2> QED
    BY <1>1, <1>2, <1>3, <1>4, <2>1, UndoStep
<1>5. CASE o.done
  <2>1. KS(b)!Write(ksFam, [KS(b)!Here(ksFam) EXCEPT !.chain = chain])
    BY <1>1, <1>5
  <2>2. /\ TouchesOnlyFam(b) /\ ksFw'[ksCfg.tun][ksFam].chain = chain
        /\ ksFw'[ksCfg.tun][ksFam].hooks = KS(b)!Here(ksFam).hooks /\ ksFw'[ksCfg.tun][ksFam].guards = KS(b)!Here(ksFam).guards
    <3> HIDE DEF chain
    <3> QED
      BY <1>2, <1>3, <2>1, WriteChain
  <2>3. CASE o.ok
    BY <1>1, <1>2, <1>3, <2>2, <2>3, BuiltStep DEF KS!Goto
  <2>4. CASE ~o.ok
    BY <1>1, <1>2, <1>3, <2>2, <2>4, UndoStep
  <2> QED
    BY <1>2, <2>3, <2>4
<1> QED
  BY <1>2, <1>4, <1>5

LEMMA HookStep ==
  ASSUME NEW b, FirewallConstants(b), FirewallInv(b), KS(b)!HookOutput \/ KS(b)!HookForward
  PROVE  FirewallInv(b)'
<1> USE DEF FirewallInv
<1>1. PICK h \in KS(b)!Hook, o \in KS(b)!Outcomes("work") :
        /\ ksPc = IF h = "OUTPUT" THEN "hookO" ELSE "hookF"
        /\ KS(b)!Write(ksFam, IF o.done THEN [KS(b)!Here(ksFam) EXCEPT !.hooks = @ \cup {h}] ELSE KS(b)!Here(ksFam))
        /\ IF o.ok THEN KS(b)!Goto(IF h = "OUTPUT" /\ ksCfg.gateway THEN "hookF" ELSE "built")
                        /\ UNCHANGED <<ksCaller, ksFailed>> ELSE KS(b)!Undo
  BY DEF KS!HookOutput, KS!HookForward, KS!BuildStep, KS!Hook
<1>2. /\ o.done \in BOOLEAN /\ o.ok \in BOOLEAN /\ (o.ok => o.done) /\ ksPc # "off"
      /\ UNCHANGED <<ksCfg, ksFam, ksGuarded, ksAttempted, ksBroken, ksPaths, ksProtected, ksWant, ksTodo, ksMoves,
                     ksFound, ksTampered>>
  BY <1>1, OutcomeFacts DEF KS!HookOutput, KS!HookForward, KS!BuildStep, KS!bounds, KS!history
<1> DEFINE hooks == KS(b)!Here(ksFam).hooks \cup {h}
<1>3. /\ KS(b)!Here(ksFam) \in Rules(b) /\ hooks \in SUBSET KS(b)!Hook /\ {"allow", "drop"} \subseteq KS(b)!Here(ksFam).chain
      /\ KS(b)!Here(ksFam).chain # KS(b)!Absent /\ (h = "FORWARD" => "OUTPUT" \in KS(b)!Here(ksFam).hooks)
  BY <1>1, <1>2 DEF TeardownOrder, BuildOrder, FirewallTypes, KS!Here, Rules, KS!Absent, KS!Hook
<1>4. ksFam \in ksGuarded => hooks \subseteq KS(b)!Here(ksFam).guards
  <2>1. ksFam \in ksCfg.tool /\ Building /\ ksPc \notin ArmPc
    BY <1>1 DEF Phases, Building, BuildPc, ArmPc
  <2>2. h = "FORWARD" => ksCfg.gateway
    BY <1>1 DEF BuildOrder
  <2> QED
    BY <1>1, <1>2, <2>1, <2>2 DEF GuardsCover, Armed, KS!Hook
<1>5. CASE ~o.done
  <2>1. TouchesOnlyFam(b) /\ ksFw'[ksCfg.tun][ksFam] = KS(b)!Here(ksFam)
    BY <1>1, <1>2, <1>3, <1>5, WriteFacts
  <2> QED
    BY <1>1, <1>2, <1>3, <1>5, <2>1, UndoStep
<1>6. CASE o.done
  <2>1. KS(b)!Write(ksFam, [KS(b)!Here(ksFam) EXCEPT !.hooks = hooks])
    BY <1>1, <1>6
  <2>2. /\ TouchesOnlyFam(b) /\ ksFw'[ksCfg.tun][ksFam].hooks = hooks
        /\ ksFw'[ksCfg.tun][ksFam].chain = KS(b)!Here(ksFam).chain /\ ksFw'[ksCfg.tun][ksFam].guards = KS(b)!Here(ksFam).guards
    <3> HIDE DEF hooks
    <3> QED
      BY <1>2, <1>3, <2>1, WriteHooks
  <2>3. CASE o.ok
    BY <1>1, <1>2, <1>3, <1>4, <2>2, <2>3, BuiltStep DEF KS!Goto, KS!Hook
  <2>4. CASE ~o.ok
    BY <1>1, <1>2, <1>3, <1>4, <2>2, <2>4, UndoStep DEF KS!Hook
  <2> QED
    BY <1>2, <2>3, <2>4
<1> QED
  BY <1>2, <1>5, <1>6

\* A step of a teardown changes only the rules of its family, and closes nothing.
LEMMA TeardownFrame ==
  ASSUME NEW b, FirewallConstants(b), FirewallInv(b), TouchesOnlyFam(b),
         ksPc \in TeardownPc, ksPc' \in TeardownPc, ksFailed' \in BOOLEAN,
         UNCHANGED <<ksCfg, ksGuarded, ksAttempted, ksPaths, ksProtected, ksWant, ksFam, ksCaller, ksBroken, ksTodo,
                     ksMoves, ksFound, ksTampered>>,
         ksFw'[ksCfg.tun][ksFam].guards = KS(b)!Here(ksFam).guards,
         ksFw'[ksCfg.tun][ksFam].hooks \subseteq KS(b)!Here(ksFam).hooks,
         ksFw'[ksCfg.tun][ksFam].chain = KS(b)!Absent => ksFw'[ksCfg.tun][ksFam].hooks = {},
         KS(b)!Here(ksFam).chain = KS(b)!Absent => ksFw'[ksCfg.tun][ksFam].chain = KS(b)!Absent,
         TeardownOrder(b)'
  PROVE  FirewallInv(b)'
<1> USE DEF FirewallInv, KS!Here, ArmPc, BuildPc, TeardownPc, ClearPc, RunPc, RefreshPc,
    Building, Undoing, Committing, Stopping, TouchesOnlyFam
<1>1. FirewallTypes(b)'
  BY DEF FirewallTypes
<1>2. Phases(b)' /\ BuildOrder(b)' /\ GuardsGo(b)' /\ RefreshOrder(b)'
  BY DEF Phases, BuildOrder, GuardsGo, RefreshOrder
<1>3. NoDanglingJump(b)' /\ OthersAreAbsent(b)'
  BY WriteFrame
<1>4. GuardsCover(b)'
  BY DEF GuardsCover, Armed, Phases, FirewallTypes
<1>5. ProtectedIsBuilt(b)'
  BY DEF ProtectedIsBuilt, Decided, KS!Intact, Phases, FirewallTypes
<1>6. StopOrder(b)'
  BY DEF StopOrder, FirewallTypes, KS!Family
<1> QED
  BY <1>1, <1>2, <1>3, <1>4, <1>5, <1>6

LEMMA UnhookingStep ==
  ASSUME NEW b, FirewallConstants(b), FirewallInv(b), KS(b)!UnhookStep
  PROVE  FirewallInv(b)'
<1> USE DEF FirewallInv
<1>1. PICK h \in KS(b)!Hook, o \in KS(b)!Outcomes(KS(b)!Deadline) :
        /\ IF h = "OUTPUT" THEN ksPc = "unhookO" /\ ksPc' = "unhookF" ELSE ksPc = "unhookF" /\ ksPc' = "unhooked"
        /\ KS(b)!Write(ksFam, [KS(b)!Here(ksFam) EXCEPT !.hooks = IF o.done THEN @ \ {h} ELSE @])
        /\ ksFailed' = (ksFailed \/ ~o.ok)
  BY DEF KS!UnhookStep, KS!Unhook, KS!Hook, KS!Goto
<1>2. /\ o.done \in BOOLEAN /\ o.ok \in BOOLEAN /\ (o.ok => o.done)
      /\ UNCHANGED <<ksCfg, ksGuarded, ksAttempted, ksPaths, ksProtected, ksWant, ksFam, ksCaller, ksBroken, ksTodo,
                     ksMoves, ksFound, ksTampered>>
  BY OutcomeFacts DEF KS!UnhookStep, KS!memory, KS!bounds, KS!history
<1> DEFINE hooks == IF o.done THEN KS(b)!Here(ksFam).hooks \ {h} ELSE KS(b)!Here(ksFam).hooks
<1>3. /\ KS(b)!Write(ksFam, [KS(b)!Here(ksFam) EXCEPT !.hooks = hooks]) /\ ksPc # "off" /\ hooks \in SUBSET KS(b)!Hook
      /\ ksFailed' \in BOOLEAN /\ (~ksFailed' => o.done /\ ~ksFailed)
  <2>1. ksFailed' \in BOOLEAN /\ (~ksFailed' => o.done /\ ~ksFailed)
    BY <1>1, <1>2 DEF FirewallTypes
  <2>2. ksPc # "off" /\ KS(b)!Here(ksFam) \in Rules(b)
    BY <1>1 DEF FirewallTypes, KS!Here
  <2>3. hooks \in SUBSET KS(b)!Hook
    BY <2>2 DEF Rules
  <2>4. KS(b)!Write(ksFam, [KS(b)!Here(ksFam) EXCEPT !.hooks = hooks])
    BY <1>1
  <2> QED
    BY <2>1, <2>2, <2>3, <2>4
<1>4. /\ TouchesOnlyFam(b) /\ ksFw'[ksCfg.tun][ksFam].hooks = hooks
      /\ ksFw'[ksCfg.tun][ksFam].chain = KS(b)!Here(ksFam).chain /\ ksFw'[ksCfg.tun][ksFam].guards = KS(b)!Here(ksFam).guards
  <2> HIDE DEF hooks
  <2> QED
    BY <1>3, WriteHooks
<1>5. TeardownOrder(b)'
  BY <1>1, <1>2, <1>3, <1>4 DEF TeardownOrder, KS!Here, FirewallTypes, Rules, KS!Hook
<1>6. hooks \subseteq KS(b)!Here(ksFam).hooks /\ (KS(b)!Here(ksFam).chain = KS(b)!Absent => hooks = {})
  BY <1>1, <1>2 DEF NoDanglingJump, KS!Here, FirewallTypes
<1> QED
  BY <1>1, <1>2, <1>3, <1>4, <1>5, <1>6, TeardownFrame DEF TeardownPc

LEMMA FlushStep ==
  ASSUME NEW b, FirewallConstants(b), FirewallInv(b), KS(b)!Flush \/ KS(b)!Delete
  PROVE  FirewallInv(b)'
<1> USE DEF FirewallInv
<1>1. PICK o \in KS(b)!Outcomes(KS(b)!Deadline) :
        \/ /\ ksPc = "flush" /\ ksPc' = "delete" /\ ksFailed' = ksFailed
           /\ KS(b)!Write(ksFam, [KS(b)!Here(ksFam) EXCEPT !.chain = IF o.done THEN {} ELSE @])
        \/ /\ ksPc = "delete" /\ ksPc' = "tornDown" /\ ksFailed' = ~(o.done /\ KS(b)!Here(ksFam).chain = {} /\ o.ok)
           /\ KS(b)!Write(ksFam, [KS(b)!Here(ksFam) EXCEPT !.chain = IF o.done /\ KS(b)!Here(ksFam).chain = {} THEN KS(b)!Absent ELSE @])
  BY DEF KS!Flush, KS!Delete, KS!Goto
<1>2. /\ o.done \in BOOLEAN /\ o.ok \in BOOLEAN /\ (o.ok => o.done)
      /\ UNCHANGED <<ksCfg, ksGuarded, ksAttempted, ksPaths, ksProtected, ksWant, ksFam, ksCaller, ksBroken, ksTodo,
                     ksMoves, ksFound, ksTampered>>
  BY OutcomeFacts DEF KS!Flush, KS!Delete, KS!memory, KS!bounds, KS!history
<1> DEFINE chain == IF ~o.done THEN KS(b)!Here(ksFam).chain ELSE IF ksPc = "flush" THEN {} ELSE
                    IF KS(b)!Here(ksFam).chain = {} THEN KS(b)!Absent ELSE KS(b)!Here(ksFam).chain
<1>3. /\ KS(b)!Write(ksFam, [KS(b)!Here(ksFam) EXCEPT !.chain = chain]) /\ ksPc # "off" /\ chain \in Chain(b)
      /\ ksFailed' \in BOOLEAN /\ (ksPc = "delete" /\ ~ksFailed' => chain = KS(b)!Absent)
  <2>1. ksPc # "off" /\ KS(b)!Here(ksFam) \in Rules(b) /\ ksFailed \in BOOLEAN
    BY <1>1 DEF FirewallTypes, KS!Here
  <2>2. chain \in Chain(b)
    BY <2>1 DEF Rules, Chain, KS!Absent
  <2>3. KS(b)!Write(ksFam, [KS(b)!Here(ksFam) EXCEPT !.chain = chain])
    BY <1>1, <1>2
  <2>4. ksFailed' \in BOOLEAN /\ (ksPc = "delete" /\ ~ksFailed' => chain = KS(b)!Absent)
    BY <1>1, <1>2, <2>1
  <2> QED
    BY <2>1, <2>2, <2>3, <2>4
<1>4. /\ TouchesOnlyFam(b) /\ ksFw'[ksCfg.tun][ksFam].chain = chain
      /\ ksFw'[ksCfg.tun][ksFam].hooks = KS(b)!Here(ksFam).hooks /\ ksFw'[ksCfg.tun][ksFam].guards = KS(b)!Here(ksFam).guards
  <2> HIDE DEF chain
  <2> QED
    BY <1>3, WriteChain
<1>5. KS(b)!Here(ksFam).hooks = {} /\ ~ksFailed
  BY <1>1 DEF TeardownOrder
<1>7. KS(b)!Here(ksFam).chain # KS(b)!Absent
  BY <1>1 DEF TeardownOrder
<1>6. TeardownOrder(b)'
  BY <1>1, <1>2, <1>3, <1>4, <1>5, <1>7 DEF TeardownOrder, KS!Here, KS!Absent
<1> QED
  BY <1>1, <1>2, <1>3, <1>4, <1>5, <1>6, <1>7, TeardownFrame DEF TeardownPc, KS!Absent

\* What one guard less, or the end of a family, means for the commit of a setup.
LEMMA CommitFrame ==
  ASSUME NEW b, FirewallConstants(b), FirewallInv(b), TouchesOnlyFam(b), Committing,
         UNCHANGED <<ksCfg, ksGuarded, ksAttempted, ksPaths, ksProtected, ksWant, ksFailed, ksTodo, ksMoves, ksFound, ksTampered>>,
         UNCHANGED <<ksCaller, ksBroken>>,
         ksFw'[ksCfg.tun][ksFam].chain = KS(b)!Here(ksFam).chain,
         ksFw'[ksCfg.tun][ksFam].hooks = KS(b)!Here(ksFam).hooks,
         ksFw'[ksCfg.tun][ksFam].guards \subseteq KS(b)!Here(ksFam).guards,
         \/ ksPc' = "exit" /\ ksFam' = ksFam
         \/ ksPc' = "clearF" /\ ksFam' = ksFam /\ ksFam \in ksGuarded /\ "OUTPUT" \notin ksFw'[ksCfg.tun][ksFam].guards
         \/ /\ ksFam \in ksCfg.tool => ksFw'[ksCfg.tun][ksFam].guards = {}
            /\ \/ ksFam = 4 /\ ksFam' = 6 /\ ksPc' = "clearO"
               \/ ksFam = 6 /\ ksFam' = ksFam /\ ksPc' = "loop"
  PROVE  FirewallInv(b)'
<1> USE DEF FirewallInv, KS!Here, ArmPc, BuildPc, TeardownPc, ClearPc, RunPc, RefreshPc,
    Building, Undoing, Committing, Stopping, TouchesOnlyFam
<1>1. FirewallTypes(b)'
  BY DEF FirewallTypes, KS!Family
<1>2. Phases(b)' /\ TeardownOrder(b)' /\ BuildOrder(b)' /\ GuardsCover(b)' /\ StopOrder(b)'
  BY DEF Phases, TeardownOrder, BuildOrder, GuardsCover, StopOrder
<1>3. NoDanglingJump(b)' /\ OthersAreAbsent(b)'
  BY WriteFrame DEF NoDanglingJump, FirewallTypes
<1>4. ProtectedIsBuilt(b)'
  <2>1. \A f \in KS(b)!Family : ksFw'[ksCfg.tun][f].chain = KS(b)!Here(f).chain /\ ksFw'[ksCfg.tun][f].hooks = KS(b)!Here(f).hooks
    OBVIOUS
  <2>2. \A f \in ksProtected : f \in KS(b)!Family
    BY DEF FirewallTypes
  <2>3. \A f \in ksProtected : KS(b)!Intact(f)' /\ {"allow", "drop"} \subseteq KS(b)!Here(f)'.chain
    BY <2>1, <2>2 DEF ProtectedIsBuilt, KS!Intact
  <2>4. \A f \in KS(b)!Family : Decided(f)'
    BY DEF ProtectedIsBuilt, Decided
  <2> QED
    BY <2>3, <2>4 DEF ProtectedIsBuilt
<1>5. GuardsGo(b)'
  BY DEF GuardsGo, Phases, FirewallTypes, KS!Family
<1>6. RefreshOrder(b)'
  BY DEF RefreshOrder, Refreshed
<1> QED
  BY <1>1, <1>2, <1>3, <1>4, <1>5, <1>6

\* The same for a clean stop.
LEMMA ReleaseFrame ==
  ASSUME NEW b, FirewallConstants(b), FirewallInv(b), TouchesOnlyFam(b), ksPc \in ClearPc, ksCaller = "stop",
         UNCHANGED <<ksCfg, ksGuarded, ksAttempted, ksPaths, ksProtected, ksWant, ksFailed, ksTodo, ksMoves, ksFound, ksTampered>>,
         ksCaller' = ksCaller, ksBroken' \in BOOLEAN, ksBroken => ksBroken',
         ksFw'[ksCfg.tun][ksFam].chain = KS(b)!Here(ksFam).chain,
         ksFw'[ksCfg.tun][ksFam].hooks = KS(b)!Here(ksFam).hooks,
         \/ ksPc' = "exit" /\ ksFam' = ksFam
         \/ ksPc' = "clearF" /\ ksFam' = ksFam /\ "OUTPUT" \notin ksFw'[ksCfg.tun][ksFam].guards
         \/ /\ ~ksBroken' => ksFw'[ksCfg.tun][ksFam].guards = {}
            /\ \/ ksFam = 4 /\ ksFam' = 6 /\ 6 \in ksPaths /\ ksPc' = "unhookO"
               \/ ksFam' = ksFam /\ ksPc' = "released" /\ ~ksBroken' /\ (ksFam = 4 => 6 \notin ksPaths)
  PROVE  FirewallInv(b)'
<1> USE DEF FirewallInv, KS!Here, ArmPc, BuildPc, TeardownPc, ClearPc, RunPc, RefreshPc,
    Building, Undoing, Committing, Stopping, TouchesOnlyFam
<1>1. FirewallTypes(b)'
  BY DEF FirewallTypes, KS!Family
<1>2. Phases(b)' /\ TeardownOrder(b)' /\ BuildOrder(b)' /\ GuardsCover(b)' /\ ProtectedIsBuilt(b)' /\ GuardsGo(b)' /\ RefreshOrder(b)'
  BY DEF Phases, TeardownOrder, BuildOrder, GuardsCover, ProtectedIsBuilt, GuardsGo, RefreshOrder
<1>3. NoDanglingJump(b)' /\ OthersAreAbsent(b)'
  BY WriteFrame DEF NoDanglingJump, FirewallTypes
<1>4. /\ ksFw'[ksCfg.tun][ksFam].hooks = {} /\ ksFw'[ksCfg.tun][ksFam].chain = KS(b)!Absent
      /\ ksFw'[ksCfg.tun][ksFam] \in Rules(b)
  BY DEF StopOrder, FirewallTypes
<1>5. ksFw'[ksCfg.tun][ksFam].guards = {} => ksFw'[ksCfg.tun][ksFam] = KS(b)!Clean
  BY <1>4 DEF Rules, KS!Clean
<1>6. ksFam = 6 /\ 4 \in ksPaths /\ ~ksBroken' => ksFw'[ksCfg.tun][4] = KS(b)!Clean
  BY DEF StopOrder, KS!Family, FirewallTypes
<1>7. StopOrder(b)'
  BY <1>4, <1>5, <1>6 DEF StopOrder, FirewallTypes, KS!Family, Phases
<1> QED
  BY <1>1, <1>2, <1>3, <1>7

LEMMA ClearingStep ==
  ASSUME NEW b, FirewallConstants(b), FirewallInv(b), KS(b)!ClearStep
  PROVE  FirewallInv(b)'
<1> USE DEF FirewallInv
<1>1. /\ ksPc \in ClearPc /\ ksCaller \in {"commit", "stop"} /\ ksFam \in KS(b)!Family
      /\ ksCaller = "stop" => ksFam \in ksPaths
      /\ UNCHANGED <<ksCfg, ksGuarded, ksAttempted, ksPaths, ksProtected, ksWant, ksFailed, ksTodo, ksMoves, ksFound, ksTampered>>
  BY DEF KS!ClearStep, ClearPc, Phases, FirewallTypes, KS!memory, KS!bounds, KS!history
<1>2. CASE ksPc = "clearO" /\ ksFam \notin KS(b)!ClearTargets
  <2>1. ksCaller = "commit" /\ KS(b)!ClearNext /\ UNCHANGED <<ksFw, ksBroken>> /\ ksFam \notin ksGuarded
    BY <1>1, <1>2 DEF KS!ClearStep, KS!ClearTargets
  <2>2. TouchesOnlyFam(b)
    BY <2>1 DEF TouchesOnlyFam, FirewallTypes
  <2>3. ksFam \in ksCfg.tool => KS(b)!Here(ksFam).guards = {}
    BY <1>1, <2>1 DEF GuardsGo, Committing
  <2> QED
    BY <1>1, <2>1, <2>2, <2>3, CommitFrame DEF KS!ClearNext, KS!Goto, KS!Here, Committing, KS!Family
<1>3. CASE ~(ksPc = "clearO" /\ ksFam \notin KS(b)!ClearTargets)
  <2>1. PICK h \in KS(b)!Hook : /\ ksPc = IF h = "OUTPUT" THEN "clearO" ELSE "clearF"
                                /\ KS(b)!ClearGuard(h)
    BY <1>3 DEF KS!ClearStep, KS!Hook
  <2>2. PICK o \in KS(b)!Outcomes("work") :
          /\ KS(b)!Write(ksFam, [KS(b)!Here(ksFam) EXCEPT !.guards = IF o.done THEN @ \ {h} ELSE @])
          /\ IF o.ok
             THEN /\ IF h = "OUTPUT" THEN KS(b)!Goto("clearF") /\ UNCHANGED <<ksFam, ksCaller>>
                     ELSE KS(b)!ClearNext
                  /\ UNCHANGED ksBroken
             ELSE IF ksCaller = "stop"
             THEN ksBroken' = TRUE /\ KS(b)!NextStop(TRUE)
             ELSE KS(b)!Goto("exit") /\ UNCHANGED <<ksFam, ksCaller, ksBroken>>
    BY <2>1 DEF KS!ClearGuard
  <2>3. o.done \in BOOLEAN /\ o.ok \in BOOLEAN /\ (o.ok => o.done)
    BY OutcomeFacts
  <2> DEFINE guards == IF o.done THEN KS(b)!Here(ksFam).guards \ {h} ELSE KS(b)!Here(ksFam).guards
  <2>4. /\ KS(b)!Write(ksFam, [KS(b)!Here(ksFam) EXCEPT !.guards = guards]) /\ ksPc # "off" /\ guards \in SUBSET KS(b)!Hook
        /\ guards \subseteq KS(b)!Here(ksFam).guards
    <3>1. ksPc # "off" /\ KS(b)!Here(ksFam) \in Rules(b)
      BY <1>1 DEF FirewallTypes, KS!Here, ClearPc
    <3>2. guards \in SUBSET KS(b)!Hook /\ guards \subseteq KS(b)!Here(ksFam).guards
      BY <3>1 DEF Rules
    <3>3. KS(b)!Write(ksFam, [KS(b)!Here(ksFam) EXCEPT !.guards = guards])
      BY <2>2
    <3> QED
      BY <3>1, <3>2, <3>3
  <2>5. /\ TouchesOnlyFam(b) /\ ksFw'[ksCfg.tun][ksFam].guards = guards
        /\ ksFw'[ksCfg.tun][ksFam].chain = KS(b)!Here(ksFam).chain /\ ksFw'[ksCfg.tun][ksFam].hooks = KS(b)!Here(ksFam).hooks
    <3> HIDE DEF guards
    <3> QED
      BY <2>4, WriteGuards
  <2>6. /\ o.ok => h \notin guards
        /\ o.ok /\ h = "FORWARD" => guards = {}
    BY <1>1, <2>1, <2>3, <2>4 DEF GuardsGo, StopOrder, Committing, Stopping, KS!Hook
  <2> HIDE DEF guards
  <2>7. CASE ksCaller = "commit"
    <3>1. ksPc = "clearO" => ksFam \in ksGuarded
      BY <1>3, <2>7 DEF KS!ClearTargets
    <3> QED
     BY <3>1, <1>1, <2>1, <2>2, <2>3, <2>4, <2>5, <2>6, <2>7, CommitFrame
       DEF KS!ClearNext, KS!Goto, Committing, KS!Family, KS!Hook
  <2>8. CASE ksCaller = "stop"
    <3>1. ksBroken \in BOOLEAN
      BY DEF FirewallTypes
    <3>2. CASE ~o.ok
      BY <1>1, <2>1, <2>2, <2>3, <2>4, <2>5, <2>8, <3>1, <3>2, ReleaseFrame
         DEF KS!NextStop, KS!Goto, KS!Family, KS!Hook
    <3>3. CASE o.ok
      BY <1>1, <2>1, <2>2, <2>4, <2>5, <2>6, <2>8, <3>1, <3>3, ReleaseFrame
         DEF KS!ClearNext, KS!NextStop, KS!Goto, KS!Family, KS!Hook
    <3> QED
      BY <2>3, <3>2, <3>3
  <2> QED
    BY <1>1, <2>7, <2>8
<1> QED
  BY <1>2, <1>3

\* Of a protected family a refresh changes nothing but the server's addresses.
LEMMA RefreshFrame ==
  ASSUME NEW b, FirewallConstants(b), FirewallInv(b), TouchesOnlyFam(b), ksPc \in RefreshPc,
         UNCHANGED <<ksCfg, ksGuarded, ksAttempted, ksPaths, ksProtected, ksWant, ksCaller, ksMoves, ksFound, ksTampered>>,
         ksFam' \in KS(b)!Family, ksFailed' \in BOOLEAN, ksBroken' \in BOOLEAN, ksTodo' \subseteq KS(b)!Addr,
         ksPc' \in RefreshPc \cup {"exit", "dial"},
         ksFw'[ksCfg.tun][ksFam].hooks = KS(b)!Here(ksFam).hooks,
         ksFw'[ksCfg.tun][ksFam].guards = KS(b)!Here(ksFam).guards,
         \A r \in {"allow", "drop"} : r \in KS(b)!Here(ksFam).chain => r \in ksFw'[ksCfg.tun][ksFam].chain,
         ksFw'[ksCfg.tun][ksFam].chain = KS(b)!Absent => ksFw'[ksCfg.tun][ksFam].hooks = {},
         RefreshOrder(b)'
  PROVE  FirewallInv(b)'
<1> USE DEF FirewallInv, KS!Here, ArmPc, BuildPc, TeardownPc, ClearPc, RunPc, RefreshPc,
    Building, Undoing, Committing, Stopping, TouchesOnlyFam
<1>1. FirewallTypes(b)'
  BY DEF FirewallTypes
<1>2. Phases(b)' /\ TeardownOrder(b)' /\ BuildOrder(b)' /\ GuardsCover(b)' /\ StopOrder(b)'
  BY DEF Phases, TeardownOrder, BuildOrder, GuardsCover, StopOrder
<1>3. NoDanglingJump(b)' /\ OthersAreAbsent(b)'
  BY WriteFrame
<1>4. ProtectedIsBuilt(b)'
  BY DEF ProtectedIsBuilt, Decided, Phases, FirewallTypes
<1>5. GuardsGo(b)'
  BY DEF GuardsGo, Phases, FirewallTypes
<1> QED
  BY <1>1, <1>2, <1>3, <1>4, <1>5

LEMMA RefreshNextStep ==
  ASSUME NEW b, FirewallConstants(b), FirewallInv(b), ksPc \in RefreshPc, NEW bad \in BOOLEAN, KS(b)!RefreshNext(bad),
         UNCHANGED <<ksFw, ksCfg, ksGuarded, ksAttempted, ksPaths, ksProtected, ksWant, ksCaller, ksMoves, ksFound, ksTampered>>,
         ~bad /\ ~ksBroken /\ ksFam \in ksProtected =>
           KS(b)!Intact(ksFam) /\ (ksWant[ksFam] # {} => KS(b)!Here(ksFam).chain \cap KS(b)!Addr = ksWant[ksFam])
  PROVE  FirewallInv(b)'
<1> USE DEF FirewallInv
<1>1. ksBroken' \in BOOLEAN /\ (~ksBroken' => ~bad /\ ~ksBroken) /\ ksFailed' = FALSE /\ ksTodo' = {}
  BY DEF KS!RefreshNext, FirewallTypes
<1>2. \/ ksFam = 4 /\ ksFam' = 6 /\ ksPc' = "verify"
      \/ ksFam = 6 /\ ksFam' = ksFam /\ ksPc' = "exit"
      \/ ksFam = 6 /\ ksFam' = ksFam /\ ksPc' = "dial" /\ ~ksBroken'
  BY <1>1 DEF KS!RefreshNext, FirewallTypes, KS!Family, KS!Goto
<1> HIDE DEF KS!RefreshNext
<1>3. RefreshOrder(b)'
  <2>1. /\ ksPc' \in RefreshPc => ~ksTampered'
        /\ ksPc' = "dial" => ~ksBroken'
        /\ ksPc' \notin {"admit", "withdraw"}
        /\ ksPc' = "verify" => ~ksFailed'
    BY <1>1, <1>2 DEF RefreshOrder, RefreshPc
  <2>2. ASSUME ksPc' \in RunPc, ~ksBroken', NEW f \in ksProtected, Refreshed(f)'
        PROVE  KS(b)!Intact(f)' /\ (ksWant'[f] # {} => KS(b)!Here(f)'.chain \cap KS(b)!Addr = ksWant'[f])
    <3>1. ~ksBroken /\ ~bad /\ ~ksTampered /\ ksPc \in RunPc
      BY <1>1, <2>2 DEF RefreshOrder, RunPc
    <3>2. f = ksFam \/ Refreshed(f)
      BY <1>2, <2>2 DEF Refreshed, RefreshPc, KS!Family, FirewallTypes
    <3>3. KS(b)!Intact(f) /\ (ksWant[f] # {} => KS(b)!Here(f).chain \cap KS(b)!Addr = ksWant[f])
      BY <3>1, <3>2 DEF RefreshOrder
    <3> QED
      BY <3>3 DEF KS!Intact, KS!Here
  <2> QED
    BY <1>2, <2>1, <2>2 DEF RefreshOrder
<1>4. TouchesOnlyFam(b)
  BY DEF TouchesOnlyFam, FirewallTypes
<1> QED
  BY <1>1, <1>2, <1>3, <1>4, RefreshFrame DEF KS!Family, RefreshPc, KS!Here, NoDanglingJump, FirewallTypes

LEMMA VerifyStep ==
  ASSUME NEW b, FirewallConstants(b), FirewallInv(b), KS(b)!Verify
  PROVE  FirewallInv(b)'
<1> USE DEF FirewallInv
<1>1. /\ ksPc = "verify"
      /\ UNCHANGED <<ksFw, ksCfg, ksGuarded, ksAttempted, ksPaths, ksProtected, ksWant, ksCaller, ksMoves, ksFound, ksTampered>>
      /\ \/ ksFam \notin ksProtected /\ KS(b)!RefreshNext(FALSE)
         \/ KS(b)!RefreshNext(TRUE)
         \/ KS(b)!Intact(ksFam) /\ (\A f \in KS(b)!Family : ksWant[f] = {}) /\ KS(b)!RefreshNext(FALSE)
         \/ /\ ksFam \in ksProtected /\ KS(b)!Intact(ksFam) /\ ksTodo' = ksWant[ksFam] /\ ksPc' = "admit"
            /\ UNCHANGED <<ksFam, ksFailed, ksBroken>>
  BY DEF KS!Verify, KS!memory, KS!bounds, KS!history, KS!Goto
<1>2. ksFam \in KS(b)!Family /\ ksFailed \in BOOLEAN /\ ksBroken \in BOOLEAN
  BY DEF FirewallTypes
<1>3. CASE KS(b)!RefreshNext(FALSE) /\ (ksFam \notin ksProtected \/ (KS(b)!Intact(ksFam) /\ (\A f \in KS(b)!Family : ksWant[f] = {})))
  BY <1>1, <1>2, <1>3, RefreshNextStep DEF RefreshPc
<1>4. CASE KS(b)!RefreshNext(TRUE)
  BY <1>1, <1>4, RefreshNextStep DEF RefreshPc
<1>5. CASE /\ ksFam \in ksProtected /\ KS(b)!Intact(ksFam) /\ ksTodo' = ksWant[ksFam] /\ ksPc' = "admit"
           /\ UNCHANGED <<ksFam, ksFailed, ksBroken>>
  <2>1. RefreshOrder(b)'
    BY <1>1, <1>5 DEF RefreshOrder, Refreshed, RefreshPc, RunPc, KS!Intact, KS!Here
  <2>2. TouchesOnlyFam(b)
    BY <1>1 DEF TouchesOnlyFam, FirewallTypes
  <2>3. ksTodo' \subseteq KS(b)!Addr /\ ksPc # "off" /\ (KS(b)!Here(ksFam).chain = KS(b)!Absent => KS(b)!Here(ksFam).hooks = {})
    BY <1>1, <1>2, <1>5 DEF FirewallTypes, NoDanglingJump, KS!Here
  <2> QED
    BY <1>1, <1>2, <1>5, <2>1, <2>2, <2>3, RefreshFrame DEF RefreshPc, KS!Here
<1> QED
  BY <1>1, <1>3, <1>4, <1>5

\* One address more or less.
LEMMA ChangeAllowStep ==
  ASSUME NEW b, FirewallConstants(b), FirewallInv(b), NEW adding \in BOOLEAN,
         ksPc = IF adding THEN "admit" ELSE "withdraw", KS(b)!ChangeAllow(adding),
         UNCHANGED <<ksCfg, ksGuarded, ksAttempted, ksPaths, ksProtected, ksWant, ksCaller, ksMoves, ksFound, ksTampered>>
  PROVE  FirewallInv(b)'
<1> USE DEF FirewallInv
<1>1. PICK a \in ksTodo, o \in KS(b)!Outcomes("work") :
        /\ KS(b)!Write(ksFam, [KS(b)!Here(ksFam) EXCEPT !.chain =
                         IF ~o.done THEN @ ELSE IF adding THEN @ \cup {a} ELSE @ \ {a}])
        /\ ksFailed' = (ksFailed \/ ~o.ok)
        /\ ksTodo' = ksTodo \ {a}
        /\ UNCHANGED <<ksPc, ksFam, ksBroken>>
  BY DEF KS!ChangeAllow
<1>2. o.done \in BOOLEAN /\ o.ok \in BOOLEAN /\ (o.ok => o.done)
  BY OutcomeFacts
<1> DEFINE chain == IF ~o.done THEN KS(b)!Here(ksFam).chain
                    ELSE IF adding THEN KS(b)!Here(ksFam).chain \cup {a} ELSE KS(b)!Here(ksFam).chain \ {a}
<1>3. ksFailed' \in BOOLEAN /\ (~ksFailed' => o.done /\ ~ksFailed)
  BY <1>1, <1>2 DEF FirewallTypes
<1>4. /\ ksPc # "off" /\ KS(b)!Here(ksFam) \in Rules(b) /\ a \in KS(b)!Addr /\ ksFam \in KS(b)!Family /\ ksBroken \in BOOLEAN
      /\ ksTodo \subseteq KS(b)!Addr /\ ksWant[ksFam] \subseteq KS(b)!Addr
  BY <1>1 DEF FirewallTypes, KS!Here
<1>5. a \notin {"absent", "allow", "drop"}
  BY <1>4 DEF FirewallConstants, KS!Addr
<1>6. chain \in Chain(b) /\ KS(b)!Write(ksFam, [KS(b)!Here(ksFam) EXCEPT !.chain = chain])
  <2>1. chain \in Chain(b)
    BY <1>4 DEF Rules, Chain
  <2>2. KS(b)!Write(ksFam, [KS(b)!Here(ksFam) EXCEPT !.chain = chain])
    BY <1>1
  <2> QED
    BY <2>1, <2>2
<1>7. /\ TouchesOnlyFam(b) /\ ksFw'[ksCfg.tun][ksFam].chain = chain
      /\ ksFw'[ksCfg.tun][ksFam].hooks = KS(b)!Here(ksFam).hooks /\ ksFw'[ksCfg.tun][ksFam].guards = KS(b)!Here(ksFam).guards
  <2> HIDE DEF chain
  <2> QED
    BY <1>4, <1>6, WriteChain
<1>8. /\ \A r \in {"allow", "drop"} : r \in KS(b)!Here(ksFam).chain => r \in chain
      /\ ksFam \in ksProtected /\ KS(b)!Intact(ksFam) /\ chain # KS(b)!Absent /\ ~ksTampered
  BY <1>5 DEF RefreshOrder, RefreshPc, KS!Intact, KS!Absent
<1>9. /\ ksPc = "admit" /\ ~ksFailed' => ksWant[ksFam] \ ksTodo' \subseteq chain
      /\ ksPc = "withdraw" => ksWant[ksFam] \subseteq chain /\ ksTodo' \cap ksWant[ksFam] = {}
      /\ ksPc = "withdraw" /\ ~ksFailed' => chain \cap KS(b)!Addr \subseteq ksWant[ksFam] \cup ksTodo'
  BY <1>1, <1>3, <1>4 DEF RefreshOrder
<1> HIDE DEF chain
<1>10. RefreshOrder(b)'
  <2>1. KS(b)!Intact(ksFam)'
    BY <1>1, <1>7, <1>8 DEF KS!Intact, KS!Here
  <2>2. ASSUME ~ksBroken, NEW f \in ksProtected, Refreshed(f)
        PROVE  KS(b)!Intact(f)' /\ (ksWant[f] # {} => KS(b)!Here(f)'.chain \cap KS(b)!Addr = ksWant[f])
    <3>1. f # ksFam /\ f \in KS(b)!Family \ {ksFam}
      BY <2>2, <1>4 DEF Refreshed, RefreshPc, KS!Family
    <3>2. ksFw'[ksCfg.tun][f] = ksFw[ksCfg.tun][f]
      BY <3>1, <1>7 DEF TouchesOnlyFam
    <3>3. KS(b)!Intact(f) /\ (ksWant[f] # {} => KS(b)!Here(f).chain \cap KS(b)!Addr = ksWant[f])
      BY <1>8, <2>2 DEF RefreshOrder, RefreshPc, RunPc
    <3> QED
      BY <3>2, <3>3 DEF KS!Intact, KS!Here
  <2>3. \A f : Refreshed(f)' <=> Refreshed(f)
    BY <1>1 DEF Refreshed
  <2> QED
    BY <1>1, <1>7, <1>8, <1>9, <2>1, <2>2, <2>3 DEF RefreshOrder, RefreshPc, RunPc, KS!Here
<1> QED
  BY <1>1, <1>3, <1>4, <1>7, <1>8, <1>10, RefreshFrame DEF RefreshPc, KS!Here

LEMMA AdmitStep ==
  ASSUME NEW b, FirewallConstants(b), FirewallInv(b), KS(b)!Admit
  PROVE  FirewallInv(b)'
<1> USE DEF FirewallInv
<1>1. /\ ksPc = "admit"
      /\ UNCHANGED <<ksCfg, ksGuarded, ksAttempted, ksPaths, ksProtected, ksWant, ksCaller, ksMoves, ksFound, ksTampered>>
      /\ \/ KS(b)!ChangeAllow(TRUE)
         \/ ksTodo = {} /\ ksFw' = ksFw /\ (ksFailed \/ ksWant[ksFam] = {}) /\ KS(b)!RefreshNext(ksFailed)
         \/ ksFw' = ksFw /\ KS(b)!RefreshNext(TRUE)
         \/ /\ ksTodo = {} /\ ~ksFailed /\ ksFw' = ksFw
            /\ ksTodo' = (KS(b)!Here(ksFam).chain \cap KS(b)!Addr) \ ksWant[ksFam]
            /\ ksPc' = "withdraw" /\ UNCHANGED <<ksFam, ksFailed, ksBroken>>
  BY DEF KS!Admit, KS!memory, KS!bounds, KS!history, KS!Goto
<1>2. ksFam \in KS(b)!Family /\ ksFailed \in BOOLEAN /\ ksBroken \in BOOLEAN /\ ksFam \in ksProtected /\ KS(b)!Intact(ksFam)
  BY <1>1 DEF FirewallTypes, RefreshOrder
<1>3. CASE KS(b)!ChangeAllow(TRUE)
  BY <1>1, <1>3, ChangeAllowStep
<1>4. CASE ksTodo = {} /\ ksFw' = ksFw /\ (ksFailed \/ ksWant[ksFam] = {}) /\ KS(b)!RefreshNext(ksFailed)
  BY <1>1, <1>2, <1>4, RefreshNextStep DEF RefreshPc
<1>5. CASE ksFw' = ksFw /\ KS(b)!RefreshNext(TRUE)
  BY <1>1, <1>5, RefreshNextStep DEF RefreshPc
<1>6. CASE /\ ksTodo = {} /\ ~ksFailed /\ ksFw' = ksFw
           /\ ksTodo' = (KS(b)!Here(ksFam).chain \cap KS(b)!Addr) \ ksWant[ksFam]
           /\ ksPc' = "withdraw" /\ UNCHANGED <<ksFam, ksFailed, ksBroken>>
  <2>1. ksWant[ksFam] \subseteq KS(b)!Here(ksFam).chain
    BY <1>1, <1>6 DEF RefreshOrder
  <2>2. RefreshOrder(b)'
    BY <1>1, <1>2, <1>6, <2>1 DEF RefreshOrder, Refreshed, RefreshPc, RunPc, KS!Intact, KS!Here
  <2>3. TouchesOnlyFam(b)
    BY <1>6 DEF TouchesOnlyFam, FirewallTypes
  <2>4. ksTodo' \subseteq KS(b)!Addr /\ ksPc # "off" /\ (KS(b)!Here(ksFam).chain = KS(b)!Absent => KS(b)!Here(ksFam).hooks = {})
    BY <1>1, <1>2, <1>6 DEF FirewallTypes, NoDanglingJump, KS!Here
  <2> QED
    BY <1>1, <1>2, <1>6, <2>2, <2>3, <2>4, RefreshFrame DEF RefreshPc, KS!Here
<1> QED
  BY <1>1, <1>3, <1>4, <1>5, <1>6

LEMMA WithdrawStep ==
  ASSUME NEW b, FirewallConstants(b), FirewallInv(b), KS(b)!Withdraw
  PROVE  FirewallInv(b)'
<1> USE DEF FirewallInv
<1>1. /\ ksPc = "withdraw"
      /\ UNCHANGED <<ksCfg, ksGuarded, ksAttempted, ksPaths, ksProtected, ksWant, ksCaller, ksMoves, ksFound, ksTampered>>
      /\ \/ KS(b)!ChangeAllow(FALSE)
         \/ ksTodo = {} /\ ksFw' = ksFw /\ KS(b)!RefreshNext(ksFailed)
  BY DEF KS!Withdraw, KS!memory, KS!bounds, KS!history
<1>2. ksFam \in KS(b)!Family /\ ksFailed \in BOOLEAN /\ ksWant[ksFam] \subseteq KS(b)!Addr
  BY DEF FirewallTypes
<1>3. CASE KS(b)!ChangeAllow(FALSE)
  BY <1>1, <1>3, ChangeAllowStep
<1>4. CASE ksTodo = {} /\ ksFw' = ksFw /\ KS(b)!RefreshNext(ksFailed)
  <2>1. KS(b)!Intact(ksFam) /\ (~ksFailed => KS(b)!Here(ksFam).chain \cap KS(b)!Addr = ksWant[ksFam])
    BY <1>1, <1>2, <1>4 DEF RefreshOrder
  <2> QED
    BY <1>1, <1>2, <1>4, <2>1, RefreshNextStep DEF RefreshPc
<1> QED
  BY <1>1, <1>3, <1>4

LEMMA TamperStep ==
  ASSUME NEW b, FirewallConstants(b), FirewallInv(b), NEW f \in KS(b)!Family, NEW h \in KS(b)!Hook, KS(b)!Tamper(f, h)
  PROVE  FirewallInv(b)'
<1> USE DEF FirewallInv, KS!Here, ArmPc, BuildPc, TeardownPc, ClearPc, RunPc, RefreshPc,
    Building, Undoing, Committing, Stopping
<1>1. /\ ksPc = "dial" /\ ksTampered' = TRUE
      /\ ksFw' = [ksFw EXCEPT ![ksCfg.tun][f] = [KS(b)!Here(f) EXCEPT !.hooks = @ \ {h}]]
      /\ UNCHANGED <<ksPc, ksCfg, ksGuarded, ksAttempted, ksPaths, ksProtected, ksWant, ksFam, ksCaller, ksFailed, ksBroken, ksTodo,
                     ksFound>>
      /\ ksMoves' \in Nat
  BY DEF KS!Tamper, KS!Write, KS!memory, FirewallTypes
<1>2. /\ ksFw' \in [b.tun -> [KS(b)!Family -> Rules(b)]]
      /\ \A t \in b.tun, g \in KS(b)!Family : /\ ksFw'[t][g].chain = ksFw[t][g].chain
                                              /\ ksFw'[t][g].guards = ksFw[t][g].guards
                                              /\ ksFw'[t][g].hooks \subseteq ksFw[t][g].hooks
  <2>1. ksFw[ksCfg.tun][f] \in Rules(b) /\ ksCfg.tun \in b.tun
    BY <1>1 DEF FirewallTypes
  <2> DEFINE e == [ksFw[ksCfg.tun][f] EXCEPT !.hooks = @ \ {h}]
  <2>2. e \in Rules(b) /\ e.chain = ksFw[ksCfg.tun][f].chain /\ e.guards = ksFw[ksCfg.tun][f].guards
        /\ e.hooks \subseteq ksFw[ksCfg.tun][f].hooks
    BY <2>1 DEF Rules
  <2>3. ksFw' = [ksFw EXCEPT ![ksCfg.tun][f] = e] /\ ksFw \in [b.tun -> [KS(b)!Family -> Rules(b)]]
    BY <1>1 DEF FirewallTypes
  <2> HIDE DEF e
  <2> QED
    BY <2>1, <2>2, <2>3
<1> HIDE DEF KS!Tamper
<1>3. FirewallTypes(b)'
  BY <1>1, <1>2 DEF FirewallTypes
<1>4. Phases(b)' /\ TeardownOrder(b)' /\ BuildOrder(b)' /\ GuardsCover(b)' /\ StopOrder(b)'
  BY <1>1 DEF Phases, TeardownOrder, BuildOrder, GuardsCover, StopOrder
<1>5. NoDanglingJump(b)' /\ OthersAreAbsent(b)'
  BY <1>1, <1>2 DEF NoDanglingJump, OthersAreAbsent, FirewallTypes
<1>6. ProtectedIsBuilt(b)'
  BY <1>1, <1>2 DEF ProtectedIsBuilt, Decided, Phases, FirewallTypes
<1>7. GuardsGo(b)'
  BY <1>1, <1>2 DEF GuardsGo, Phases, FirewallTypes
<1>8. RefreshOrder(b)'
  BY <1>1, <1>2 DEF RefreshOrder, Refreshed, Phases, FirewallTypes
<1> QED
  BY <1>3, <1>4, <1>5, <1>6, <1>7, <1>8

\* Every step of the kill switch keeps the invariant.
LEMMA FirewallStep ==
  ASSUME NEW b, FirewallConstants(b), FirewallInv(b), KS(b)!Next
  PROVE  FirewallInv(b)'
<1>1. CASE \E t \in b.tun, leak \in b.leaks, gateway \in BOOLEAN, tool \in b.tools, ips \in KS(b)!Lookup :
             KS(b)!Start(t, leak, gateway, tool, ips)
  BY <1>1, StartStep
<1>2. CASE KS(b)!Arm \/ KS(b)!GuardStep \/ KS(b)!BeginFamily
  BY <1>2, ArmStep, GuardInstallStep, BeginFamilyStep
<1>3. CASE KS(b)!CreateChain \/ KS(b)!AddAllows \/ KS(b)!AddDrop \/ KS(b)!HookOutput \/ KS(b)!HookForward \/ KS(b)!FamilyEnd
  BY <1>3, CreateChainStep, AddAllowsStep, AddDropStep, HookStep, FamilyEndStep
<1>4. CASE KS(b)!UnhookStep \/ KS(b)!Unhooked \/ KS(b)!Flush \/ KS(b)!Delete \/ KS(b)!TornDown \/ KS(b)!ClearStep
  BY <1>4, UnhookingStep, UnhookedStep, FlushStep, TornDownStep, ClearingStep
<1>5. CASE \E ips \in KS(b)!Lookup : KS(b)!BeginRefresh(ips)
  BY <1>5, BeginRefreshStep
<1>6. CASE KS(b)!Verify \/ KS(b)!Admit \/ KS(b)!Withdraw \/ KS(b)!Reconnect
  BY <1>6, VerifyStep, AdmitStep, WithdrawStep, ReconnectStep
<1>7. CASE \E cleaned \in BOOLEAN : KS(b)!Stop(cleaned)
  BY <1>7, StopStep
<1>8. CASE KS(b)!Exit \/ KS(b)!Crash
  BY <1>8, GoneStep DEF KS!Exit, KS!Crash
<1>9. CASE \E f \in KS(b)!Family, h \in KS(b)!Hook : KS(b)!Tamper(f, h)
  BY <1>9, TamperStep
<1> QED
  BY <1>1, <1>2, <1>3, <1>4, <1>5, <1>6, <1>7, <1>8, <1>9 DEF KS!Next

LEMMA FirewallStutter ==
  ASSUME NEW b, FirewallInv(b), UNCHANGED KS(b)!vars
  PROVE  FirewallInv(b)'
BY DEF FirewallInv, KS!vars, FirewallTypes, Phases, NoDanglingJump, TeardownOrder, GuardsCover, Armed,
   BuildOrder, ProtectedIsBuilt, Decided, KS!Intact, GuardsGo, OthersAreAbsent, RefreshOrder, Refreshed,
   StopOrder, KS!Here, KS!Closed, Building, Undoing, Committing, Stopping

\* A client that dials is protected where it must be, and is not locked out.
LEMMA FirewallSafety ==
  ASSUME NEW b, FirewallConstants(b), FirewallInv(b)
  PROVE  KS(b)!DialingIsProtected /\ KS(b)!DialingIsPossible /\ KS(b)!ReleaseIsComplete
<1> USE DEF FirewallInv
<1>1. KS(b)!DialingIsProtected
  <2> SUFFICES ASSUME ksPc = "dial", ~ksTampered, NEW f \in KS(b)!Family, f \notin ksCfg.leak
               PROVE  KS(b)!Closed(ksCfg.tun, f, "OUTPUT") /\ (ksCfg.gateway => KS(b)!Closed(ksCfg.tun, f, "FORWARD"))
    BY DEF KS!DialingIsProtected
  <2>1. f \in ksProtected
    BY DEF ProtectedIsBuilt, RunPc, Decided
  <2>2. KS(b)!Intact(f)
    BY <2>1 DEF RefreshOrder, RunPc, Refreshed
  <2> QED
    BY <2>2 DEF KS!Intact, KS!Closed, KS!Here
<1>2. KS(b)!DialingIsPossible
  <2> SUFFICES ASSUME ksPc = "dial", NEW f \in ksCfg.tool
               PROVE  /\ KS(b)!Here(f).guards = {}
                      /\ f \in ksProtected => /\ "allow" \in KS(b)!Here(f).chain
                                              /\ ksWant[f] # {} => KS(b)!Here(f).chain \cap KS(b)!Addr = ksWant[f]
                      /\ \A t \in b.tun \ {ksCfg.tun} : \A h \in KS(b)!Hook : ~KS(b)!Closed(t, f, h)
    BY DEF KS!DialingIsPossible
  <2>1. KS(b)!Here(f).guards = {}
    BY DEF GuardsGo, RunPc
  <2>2. f \in ksProtected => "allow" \in KS(b)!Here(f).chain
    BY DEF ProtectedIsBuilt, RunPc
  <2>3. f \in ksProtected /\ ksWant[f] # {} => KS(b)!Here(f).chain \cap KS(b)!Addr = ksWant[f]
    BY DEF RefreshOrder, RunPc, Refreshed
  <2>4. \A t \in b.tun \ {ksCfg.tun} : \A h \in KS(b)!Hook : ~KS(b)!Closed(t, f, h)
    BY DEF OthersAreAbsent, KS!Closed, KS!Absent
  <2> QED
    BY <2>1, <2>2, <2>3, <2>4
<1>3. KS(b)!ReleaseIsComplete
  BY DEF KS!ReleaseIsComplete, StopOrder
<1> QED
  BY <1>1, <1>2, <1>3

\* The ways a closed hook may open.
Excused(b, f, h) ==
  \/ ksCaller = "stop"
  \/ ksCaller \in {"undo", "refuse", "final"} /\ <<f, h>> \notin ksFound
  \/ ksCaller = "commit" /\ h = "FORWARD" /\ ~ksCfg.gateway
  \/ ksMoves' # ksMoves

\* A step that leaves the rules alone opens nothing; then the commands that write, one
\* by one.
LEMMA KeptClosed ==
  ASSUME NEW b, ksFw' = ksFw
  PROVE  KS(b)!OpensOnlyByDesign
BY DEF KS!OpensOnlyByDesign, KS!Closed

LEMMA WriteOpens ==
  ASSUME NEW b, FirewallTypes(b), ksPc # "off", TouchesOnlyFam(b),
         \A h \in KS(b)!Hook : \/ ~KS(b)!Closed(ksCfg.tun, ksFam, h)
                               \/ h \in ksFw'[ksCfg.tun][ksFam].guards
                               \/ h \in ksFw'[ksCfg.tun][ksFam].hooks /\ "drop" \in ksFw'[ksCfg.tun][ksFam].chain
                               \/ Excused(b, ksFam, h)
  PROVE  KS(b)!OpensOnlyByDesign
<1> SUFFICES ASSUME NEW t \in b.tun, NEW f \in KS(b)!Family, NEW h \in KS(b)!Hook, KS(b)!Closed(t, f, h), ~KS(b)!Closed(t, f, h)'
             PROVE  t = ksCfg.tun /\ Excused(b, f, h)
  BY DEF KS!OpensOnlyByDesign, Excused
<1>1. ksFw'[t][f] # ksFw[t][f]
  BY DEF KS!Closed
<1>2. t = ksCfg.tun /\ f = ksFam
  BY <1>1 DEF TouchesOnlyFam, FirewallTypes
<1> QED
  BY <1>2 DEF KS!Closed

LEMMA GuardOpens ==
  ASSUME NEW b, FirewallConstants(b), FirewallInv(b), KS(b)!GuardStep
  PROVE  KS(b)!OpensOnlyByDesign
<1> USE DEF FirewallInv
<1>1. PICK h \in KS(b)!Hook, o \in KS(b)!Outcomes("work") :
        KS(b)!Write(ksFam, [KS(b)!Here(ksFam) EXCEPT !.guards = IF o.done THEN @ \cup {h} ELSE @])
  BY DEF KS!GuardStep, KS!InstallGuard, KS!Hook
<1> DEFINE guards == IF o.done THEN KS(b)!Here(ksFam).guards \cup {h} ELSE KS(b)!Here(ksFam).guards
<1>2. ksPc # "off" /\ KS(b)!Here(ksFam) \in Rules(b)
  BY DEF KS!GuardStep, FirewallTypes, KS!Here
<1>3. guards \in SUBSET KS(b)!Hook /\ KS(b)!Here(ksFam).guards \subseteq guards
  BY <1>2 DEF Rules
<1>4. KS(b)!Write(ksFam, [KS(b)!Here(ksFam) EXCEPT !.guards = guards])
  BY <1>1
<1> HIDE DEF guards
<1> QED
  BY <1>2, <1>3, <1>4, WriteGuards, WriteOpens DEF KS!Closed, KS!Here

\* The chain of a family is replaced while nothing jumps to it.
LEMMA ChainOpens ==
  ASSUME NEW b, FirewallConstants(b), FirewallInv(b), KS(b)!CreateChain \/ KS(b)!AddAllows \/ KS(b)!AddDrop \/ KS(b)!Flush \/ KS(b)!Delete
  PROVE  KS(b)!OpensOnlyByDesign
<1> USE DEF FirewallInv
<1>1. ksPc # "off" /\ KS(b)!Here(ksFam).hooks = {} /\ KS(b)!Here(ksFam) \in Rules(b) /\ ksWant[ksFam] \subseteq KS(b)!Addr
  BY DEF KS!CreateChain, KS!AddAllows, KS!AddDrop, KS!BuildStep, KS!Flush, KS!Delete, TeardownOrder, FirewallTypes, KS!Here
<1>2. \/ ksFw' = ksFw
      \/ KS(b)!Write(ksFam, KS(b)!Here(ksFam))
      \/ \E x \in Chain(b) : KS(b)!Write(ksFam, [KS(b)!Here(ksFam) EXCEPT !.chain = x])
  <2>1. CASE KS(b)!CreateChain
    <3>1. PICK o \in KS(b)!Outcomes("work") :
            KS(b)!Write(ksFam, [KS(b)!Here(ksFam) EXCEPT !.chain = IF o.done /\ KS(b)!Here(ksFam).chain = KS(b)!Absent THEN {} ELSE KS(b)!Here(ksFam).chain])
      BY <2>1 DEF KS!CreateChain
    <3> DEFINE x == IF o.done /\ KS(b)!Here(ksFam).chain = KS(b)!Absent THEN {} ELSE KS(b)!Here(ksFam).chain
    <3>2. x \in Chain(b)
      BY <1>1 DEF Rules, Chain
    <3> HIDE DEF x
    <3> QED
      BY <3>1, <3>2 DEF x
  <2>2. CASE KS(b)!AddAllows
    <3>1. {"allow"} \cup ksWant[ksFam] \in Chain(b)
      BY <1>1 DEF Chain
    <3> QED
      BY <2>2, <3>1 DEF KS!AddAllows
  <2>3. CASE KS(b)!AddDrop
    <3>1. PICK o \in KS(b)!Outcomes("work") :
            KS(b)!Write(ksFam, IF o.done THEN [KS(b)!Here(ksFam) EXCEPT !.chain = KS(b)!Here(ksFam).chain \cup {"drop"}] ELSE KS(b)!Here(ksFam))
      BY <2>3 DEF KS!AddDrop, KS!BuildStep
    <3> DEFINE x == KS(b)!Here(ksFam).chain \cup {"drop"}
    <3>2. x \in Chain(b)
      BY <1>1 DEF Rules, Chain
    <3> HIDE DEF x
    <3> QED
      BY <3>1, <3>2 DEF x
  <2>4. CASE KS(b)!Flush
    <3>1. PICK o \in KS(b)!Outcomes(KS(b)!Deadline) :
            KS(b)!Write(ksFam, [KS(b)!Here(ksFam) EXCEPT !.chain = IF o.done THEN {} ELSE KS(b)!Here(ksFam).chain])
      BY <2>4 DEF KS!Flush
    <3> DEFINE x == IF o.done THEN {} ELSE KS(b)!Here(ksFam).chain
    <3>2. x \in Chain(b)
      BY <1>1 DEF Rules, Chain
    <3> HIDE DEF x
    <3> QED
      BY <3>1, <3>2 DEF x
  <2>5. CASE KS(b)!Delete
    <3>1. PICK o \in KS(b)!Outcomes(KS(b)!Deadline) :
            KS(b)!Write(ksFam, [KS(b)!Here(ksFam) EXCEPT !.chain = IF o.done /\ KS(b)!Here(ksFam).chain = {} THEN KS(b)!Absent ELSE KS(b)!Here(ksFam).chain])
      BY <2>5 DEF KS!Delete
    <3> DEFINE x == IF o.done /\ KS(b)!Here(ksFam).chain = {} THEN KS(b)!Absent ELSE KS(b)!Here(ksFam).chain
    <3>2. x \in Chain(b)
      BY <1>1 DEF Rules, Chain, KS!Absent
    <3> HIDE DEF x
    <3> QED
      BY <3>1, <3>2 DEF x
  <2> QED
    BY <2>1, <2>2, <2>3, <2>4, <2>5
<1>3. CASE ksFw' = ksFw
  BY <1>3, KeptClosed
<1>4. CASE KS(b)!Write(ksFam, KS(b)!Here(ksFam))
  BY <1>1, <1>4, WriteFacts, WriteOpens DEF KS!Closed, KS!Here
<1>5. ASSUME NEW x \in Chain(b), KS(b)!Write(ksFam, [KS(b)!Here(ksFam) EXCEPT !.chain = x])
      PROVE  KS(b)!OpensOnlyByDesign
  BY <1>1, <1>5, WriteChain, WriteOpens DEF KS!Closed, KS!Here
<1> QED
  BY <1>2, <1>3, <1>4, <1>5

LEMMA HookOpens ==
  ASSUME NEW b, FirewallConstants(b), FirewallInv(b), KS(b)!HookOutput \/ KS(b)!HookForward
  PROVE  KS(b)!OpensOnlyByDesign
<1> USE DEF FirewallInv
<1>1. PICK h \in KS(b)!Hook, o \in KS(b)!Outcomes("work") :
        KS(b)!Write(ksFam, IF o.done THEN [KS(b)!Here(ksFam) EXCEPT !.hooks = KS(b)!Here(ksFam).hooks \cup {h}] ELSE KS(b)!Here(ksFam))
  BY DEF KS!HookOutput, KS!HookForward, KS!BuildStep, KS!Hook
<1>2. ksPc # "off" /\ KS(b)!Here(ksFam) \in Rules(b) /\ KS(b)!Here(ksFam).hooks \cup {h} \in SUBSET KS(b)!Hook
  BY DEF KS!HookOutput, KS!HookForward, KS!BuildStep, FirewallTypes, KS!Here, Rules
<1>3. CASE o.done
  <2> DEFINE x == KS(b)!Here(ksFam).hooks \cup {h}
  <2>1. x \in SUBSET KS(b)!Hook /\ KS(b)!Here(ksFam).hooks \subseteq x
    BY <1>2
  <2>2. KS(b)!Write(ksFam, [KS(b)!Here(ksFam) EXCEPT !.hooks = x])
    BY <1>1, <1>3
  <2> HIDE DEF x
  <2> QED
    BY <1>2, <2>1, <2>2, WriteHooks, WriteOpens DEF KS!Closed, KS!Here
<1>4. CASE ~o.done
  BY <1>1, <1>2, <1>4, WriteFacts, WriteOpens DEF KS!Closed, KS!Here
<1> QED
  BY <1>3, <1>4

\* A jump is taken out only where a guard takes over, or where setup found the hook open.
LEMMA UnhookOpens ==
  ASSUME NEW b, FirewallConstants(b), FirewallInv(b), KS(b)!UnhookStep
  PROVE  KS(b)!OpensOnlyByDesign
<1> USE DEF FirewallInv
<1>1. PICK h \in KS(b)!Hook, o \in KS(b)!Outcomes(KS(b)!Deadline) :
        KS(b)!Write(ksFam, [KS(b)!Here(ksFam) EXCEPT !.hooks = IF o.done THEN KS(b)!Here(ksFam).hooks \ {h} ELSE KS(b)!Here(ksFam).hooks])
  BY DEF KS!UnhookStep, KS!Unhook, KS!Hook
<1> DEFINE hooks == IF o.done THEN KS(b)!Here(ksFam).hooks \ {h} ELSE KS(b)!Here(ksFam).hooks
<1>2. ksPc # "off" /\ KS(b)!Here(ksFam) \in Rules(b) /\ ksPc \in TeardownPc
  BY DEF KS!UnhookStep, FirewallTypes, KS!Here, TeardownPc
<1>3. hooks \in SUBSET KS(b)!Hook
  BY <1>2 DEF Rules
<1>4. KS(b)!Write(ksFam, [KS(b)!Here(ksFam) EXCEPT !.hooks = hooks])
  BY <1>1
<1> HIDE DEF hooks
<1>5. ASSUME ksCaller # "stop", NEW k \in KS(b)!Hook, KS(b)!Closed(ksCfg.tun, ksFam, k)
      PROVE  k \in KS(b)!Here(ksFam).guards \/ (ksCaller \in {"undo", "refuse", "final"} /\ <<ksFam, k>> \notin ksFound)
  <2>1. /\ ksFam \in ksCfg.tool /\ ksPc \notin ArmPc /\ (Building \/ Undoing)
        /\ ksCaller \in {"engage", "undo", "refuse", "final"}
    BY <1>2, <1>5 DEF Phases, Building, Undoing, TeardownPc, ArmPc
  <2>2. Armed(ksFam)
    BY <2>1 DEF Armed
  <2>3. CASE ksFam \in ksGuarded
    BY <1>5, <2>1, <2>2, <2>3 DEF GuardsCover, KS!Closed, KS!Here
  <2>4. CASE ksFam \notin ksGuarded
    <3>1. CASE ksCaller = "engage"
      BY <1>2, <1>5, <2>4, <3>1 DEF BuildOrder, KS!Closed, KS!Here, KS!Absent
    <3>2. CASE ksCaller # "engage"
      BY <2>1, <2>2, <2>4, <3>2 DEF GuardsCover
    <3> QED
      BY <3>1, <3>2
  <2> QED
    BY <2>3, <2>4
<1>6. /\ TouchesOnlyFam(b)
      /\ ksFw'[ksCfg.tun][ksFam].guards = KS(b)!Here(ksFam).guards
  BY <1>2, <1>3, <1>4, WriteHooks
<1> QED
  BY <1>2, <1>5, <1>6, WriteOpens DEF Excused

\* A guard goes when the rebuilt chain is hooked in.
LEMMA ClearOpens ==
  ASSUME NEW b, FirewallConstants(b), FirewallInv(b), KS(b)!ClearStep
  PROVE  KS(b)!OpensOnlyByDesign
<1> USE DEF FirewallInv
<1>1. ksPc \in ClearPc /\ ksPc # "off" /\ KS(b)!Here(ksFam) \in Rules(b) /\ ksCaller \in {"commit", "stop"} /\ ksFam \in KS(b)!Family
  BY DEF KS!ClearStep, ClearPc, Phases, FirewallTypes, KS!Here
<1>2. CASE ksFw' = ksFw
  BY <1>2, KeptClosed
<1>3. CASE ksFw' # ksFw
  <2>1. PICK h \in KS(b)!Hook, o \in KS(b)!Outcomes("work") :
          /\ ksPc = "clearO" => ksFam \in KS(b)!ClearTargets
          /\ KS(b)!Write(ksFam, [KS(b)!Here(ksFam) EXCEPT !.guards = IF o.done THEN KS(b)!Here(ksFam).guards \ {h} ELSE KS(b)!Here(ksFam).guards])
    BY <1>3 DEF KS!ClearStep, KS!ClearGuard, KS!Hook
  <2> DEFINE guards == IF o.done THEN KS(b)!Here(ksFam).guards \ {h} ELSE KS(b)!Here(ksFam).guards
  <2>2. guards \in SUBSET KS(b)!Hook /\ KS(b)!Write(ksFam, [KS(b)!Here(ksFam) EXCEPT !.guards = guards])
    <3>1. guards \in SUBSET KS(b)!Hook
      BY <1>1 DEF Rules
    <3>2. KS(b)!Write(ksFam, [KS(b)!Here(ksFam) EXCEPT !.guards = guards])
      BY <2>1
    <3> QED
      BY <3>1, <3>2
  <2> HIDE DEF guards
  <2>3. /\ TouchesOnlyFam(b)
        /\ ksFw'[ksCfg.tun][ksFam].chain = KS(b)!Here(ksFam).chain /\ ksFw'[ksCfg.tun][ksFam].hooks = KS(b)!Here(ksFam).hooks
    BY <1>1, <2>2, WriteGuards
  <2>4. ASSUME ksCaller = "commit"
        PROVE  KS(b)!Intact(ksFam)
    <3>1. ksFam \in ksGuarded
      BY <1>1, <2>1, <2>4 DEF KS!ClearTargets, GuardsGo, Committing, ClearPc
    <3>2. ksFam \in ksProtected
      BY <1>1, <2>4, <3>1 DEF ProtectedIsBuilt, Committing, Decided
    <3> QED
      BY <1>1, <2>4, <3>2 DEF ProtectedIsBuilt, Committing
  <2> QED
    BY <1>1, <2>3, <2>4, WriteOpens DEF Excused, KS!Intact, KS!Hook
<1> QED
  BY <1>2, <1>3

\* A refresh changes server addresses, never the DROP.
LEMMA AllowOpens ==
  ASSUME NEW b, FirewallConstants(b), FirewallInv(b), KS(b)!Admit \/ KS(b)!Withdraw
  PROVE  KS(b)!OpensOnlyByDesign
<1> USE DEF FirewallInv
<1>1. ksPc # "off" /\ KS(b)!Here(ksFam) \in Rules(b) /\ ksTodo \subseteq KS(b)!Addr
  BY DEF KS!Admit, KS!Withdraw, FirewallTypes, KS!Here
<1>2. CASE ksFw' = ksFw
  BY <1>2, KeptClosed
<1>3. CASE ksFw' # ksFw
  <2>1. PICK adding \in BOOLEAN, a \in ksTodo, o \in KS(b)!Outcomes("work") :
          KS(b)!Write(ksFam, [KS(b)!Here(ksFam) EXCEPT !.chain =
                        IF ~o.done THEN KS(b)!Here(ksFam).chain
                        ELSE IF adding THEN KS(b)!Here(ksFam).chain \cup {a} ELSE KS(b)!Here(ksFam).chain \ {a}])
    BY <1>3 DEF KS!Admit, KS!Withdraw, KS!ChangeAllow
  <2> DEFINE chain == IF ~o.done THEN KS(b)!Here(ksFam).chain
                      ELSE IF adding THEN KS(b)!Here(ksFam).chain \cup {a} ELSE KS(b)!Here(ksFam).chain \ {a}
  <2>2. a \in KS(b)!Addr /\ a # "drop"
    BY <1>1 DEF FirewallConstants, KS!Addr
  <2>3. chain \in Chain(b) /\ ("drop" \in KS(b)!Here(ksFam).chain => "drop" \in chain)
    BY <1>1, <2>2 DEF Rules, Chain
  <2>4. KS(b)!Write(ksFam, [KS(b)!Here(ksFam) EXCEPT !.chain = chain])
    BY <2>1
  <2> HIDE DEF chain
  <2> QED
    BY <1>1, <2>3, <2>4, WriteChain, WriteOpens DEF KS!Closed, KS!Here
<1> QED
  BY <1>2, <1>3

LEMMA TamperOpens ==
  ASSUME NEW b, FirewallConstants(b), FirewallInv(b), NEW f \in KS(b)!Family, NEW h \in KS(b)!Hook, KS(b)!Tamper(f, h)
  PROVE  KS(b)!OpensOnlyByDesign
<1>1. /\ ksMoves' # ksMoves
      /\ \A t \in b.tun \ {ksCfg.tun} : ksFw'[t] = ksFw[t]
  BY DEF KS!Tamper, KS!Write, FirewallInv, FirewallTypes
<1> QED
  BY <1>1 DEF KS!OpensOnlyByDesign, KS!Closed

\* Once closed, a hook opens only in the ways the life cycle provides for.
LEMMA FirewallOpens ==
  ASSUME NEW b, FirewallConstants(b), FirewallInv(b), [KS(b)!Next]_(KS(b)!vars)
  PROVE  KS(b)!OpensOnlyByDesign
<1>1. CASE ksFw' = ksFw
  BY <1>1, KeptClosed
<1>2. CASE KS(b)!GuardStep
  BY <1>2, GuardOpens
<1>3. CASE KS(b)!CreateChain \/ KS(b)!AddAllows \/ KS(b)!AddDrop \/ KS(b)!Flush \/ KS(b)!Delete
  BY <1>3, ChainOpens
<1>4. CASE KS(b)!HookOutput \/ KS(b)!HookForward
  BY <1>4, HookOpens
<1>5. CASE KS(b)!UnhookStep
  BY <1>5, UnhookOpens
<1>6. CASE KS(b)!ClearStep
  BY <1>6, ClearOpens
<1>7. CASE KS(b)!Admit \/ KS(b)!Withdraw
  BY <1>7, AllowOpens
<1>8. CASE \E f \in KS(b)!Family, h \in KS(b)!Hook : KS(b)!Tamper(f, h)
  BY <1>8, TamperOpens
<1>9. CASE \/ \E t \in b.tun, leak \in b.leaks, gateway \in BOOLEAN, tool \in b.tools, ips \in KS(b)!Lookup :
                KS(b)!Start(t, leak, gateway, tool, ips)
           \/ KS(b)!Arm \/ KS(b)!BeginFamily \/ KS(b)!FamilyEnd \/ KS(b)!Unhooked \/ KS(b)!TornDown \/ KS(b)!Verify \/ KS(b)!Reconnect
           \/ \E ips \in KS(b)!Lookup : KS(b)!BeginRefresh(ips)
           \/ \E cleaned \in BOOLEAN : KS(b)!Stop(cleaned)
           \/ KS(b)!Exit \/ KS(b)!Crash
           \/ UNCHANGED KS(b)!vars
  <2>1. ksFw' = ksFw
    BY <1>9 DEF KS!Start, KS!Arm, KS!BeginFamily, KS!FamilyEnd, KS!Unhooked, KS!TornDown, KS!Verify, KS!Reconnect, KS!BeginRefresh,
       KS!Stop, KS!Exit, KS!Crash, KS!Gone, KS!vars
  <2> QED
    BY <2>1, KeptClosed
<1> QED
  BY <1>2, <1>3, <1>4, <1>5, <1>6, <1>7, <1>8, <1>9 DEF KS!Next

-----------------------------------------------------------------------------
\* The firewall of the part that is followed.
FirewallsInv == \A b \in Firewalls : part = b.part => FirewallInv(b)

LEMMA FirewallsStart ==
  ASSUME StartAll
  PROVE  FirewallsInv
<1> SUFFICES ASSUME NEW d \in Firewalls, part = d.part
             PROVE  FirewallInv(d)
  BY DEF FirewallsInv
<1>1. PICK b \in Firewalls : part = b.part /\ KS(b)!Init
  BY DEF StartAll
<1>2. b = d /\ FirewallConstants(d)
  BY <1>1, FirewallsAssumption DEF FirewallConstants, KS!Family
<1> QED
  BY <1>1, <1>2, FirewallStart

\* A step of the host is a step of the firewall that is followed, or leaves it alone.
LEMMA FirewallsStep ==
  ASSUME [StepOne]_allVars, NEW d \in Firewalls, part' = d.part
  PROVE  part = d.part /\ FirewallConstants(d) /\ [KS(d)!Next]_(KS(d)!vars)
<1>1. part' = part
  BY DEF StepOne, allVars
<1>2. FirewallConstants(d)
  BY FirewallsAssumption DEF FirewallConstants, KS!Family
<1>3. CASE UNCHANGED ksVars
  BY <1>1, <1>2, <1>3 DEF ksVars, KS!vars
<1>4. CASE \E b \in Firewalls : part = b.part /\ KS(b)!Next
  BY <1>1, <1>2, <1>4, FirewallsAssumption
<1> QED
  BY <1>3, <1>4 DEF StepOne, allVars

LEMMA FirewallsKept ==
  ASSUME FirewallsInv, [StepOne]_allVars
  PROVE  FirewallsInv'
<1> SUFFICES ASSUME NEW d \in Firewalls, part' = d.part
             PROVE  FirewallInv(d)'
  BY DEF FirewallsInv
<1>1. FirewallInv(d) /\ FirewallConstants(d) /\ [KS(d)!Next]_(KS(d)!vars)
  BY FirewallsStep DEF FirewallsInv
<1> QED
  BY <1>1, FirewallStep, FirewallStutter

\* Through every interleaving of failing commands, deadlines, crashes, restarts and
\* moving servers, for any interfaces, addresses and settings: a client that dials has
\* closed what it must not leak and nothing of its own locks the tunnel out, and a
\* clean stop that reported success left no rule.
THEOREM SafeDialing == AnySpec => []DialingIsSafe
<1>1. StartAll => FirewallsInv
  BY FirewallsStart
<1>2. FirewallsInv /\ [StepOne]_allVars => FirewallsInv'
  BY FirewallsKept
<1>3. FirewallsInv => DialingIsSafe
  <2> SUFFICES ASSUME FirewallsInv, NEW b \in Firewalls, part = b.part
               PROVE  KS(b)!DialingIsProtected /\ KS(b)!DialingIsPossible /\ KS(b)!ReleaseIsComplete
    BY DEF DialingIsSafe
  <2>1. FirewallInv(b) /\ FirewallConstants(b)
    BY FirewallsAssumption DEF FirewallsInv, FirewallConstants, KS!Family
  <2> QED
    BY <2>1, FirewallSafety
<1> QED
  BY <1>1, <1>2, <1>3, PTL DEF AnySpec

\* What a dead client left closed, and what the running one has closed, opens in no
\* crash, failed command, expired deadline or failed rebuild: only a clean stop, the
\* rollback of what setup itself had closed, a client that is no gateway any more and
\* an administrator open a hook.
THEOREM EgressClosed == AnySpec => EgressStaysClosed
<1>1. StartAll => FirewallsInv
  BY FirewallsStart
<1>2. FirewallsInv /\ [StepOne]_allVars => FirewallsInv'
  BY FirewallsKept
<1>3. FirewallsInv /\ [StepOne]_allVars =>
        [\A b \in Firewalls : part = b.part => KS(b)!OpensOnlyByDesign]_ksVars
  <2> SUFFICES ASSUME FirewallsInv, [StepOne]_allVars, NEW b \in Firewalls, part = b.part
               PROVE  KS(b)!OpensOnlyByDesign
    OBVIOUS
  <2>1. part' = part
    BY DEF StepOne, allVars
  <2>2. FirewallInv(b) /\ FirewallConstants(b) /\ [KS(b)!Next]_(KS(b)!vars)
    BY <2>1, FirewallsStep DEF FirewallsInv
  <2> QED
    BY <2>2, FirewallOpens
<1> QED
  BY <1>1, <1>2, <1>3, PTL DEF AnySpec, EgressStaysClosed

-----------------------------------------------------------------------------
(* The sysctl journal.                                                     *)

\* What SysctlsAssumption says of one setting.
SysctlConstants(b) ==
  /\ b.global \cap b.link = {} /\ SY(b)!Knob # {} /\ 0 \notin b.identity /\ b.identity # {}

\* The values, the journal and the transaction.
SetValue(b) == b.wanted \cup {SY(b)!Default}
Owned(b) == b.process \X Nat
EntryType(b) == [original : SetValue(b), managed : SetValue(b), owners : SUBSET Owned(b),
              id : b.identity, gen : Nat]
Journals(b) == UNION {[D -> EntryType(b)] : D \in SUBSET SY(b)!Knob}

AcquirePc == {"acquire", "witness", "claim", "record", "apply", "undo"}
Work(b) == [step : {"prune", "pruning", "release", "releasing", "recover"} \cup AcquirePc,
         who : b.process, op : {"acquire", "release", "recover"}, knob : SY(b)!Knob, val : SetValue(b),
         entries : Journals(b), todo : SUBSET SY(b)!Knob, unsure : BOOLEAN, cur : SetValue(b), new : BOOLEAN,
         id : b.identity \cup {0}, file : Nat]

SysctlTypes(b) ==
  /\ syKernel \in [SY(b)!Knob -> [val : SetValue(b), id : b.identity, gen : Nat]]
  /\ syBoot \in Nat /\ syDisk \in [boot : Nat, entries : Journals(b)] /\ syDisk.boot <= syBoot
  /\ syStarted \in [b.process -> Nat] /\ syAlive \subseteq b.process
  /\ syPinned \in [SY(b)!Knob -> SUBSET (Owned(b) \X Nat)]
  /\ syTx = SY(b)!Idle \/ syTx \in Work(b)
  /\ syHeld \subseteq b.process \X SY(b)!Knob \X SetValue(b)
  /\ syBase \in [SY(b)!Knob -> SetValue(b)] /\ syTouched \subseteq SY(b)!Knob
  /\ syMoves \in Nat

\* A transaction is under way; the entry it claims is new and not yet on disk.
Busy(b) == syTx \in Work(b)
Fresh(b) == syTx.step = "record" /\ syTx.knob \notin DOMAIN SY(b)!Saved

\* The steps of a transaction.
TxOrder(b) == Busy(b) =>
  /\ syTx.who \in syAlive
  /\ syTx.step \in AcquirePc => syTx.op = "acquire"
  /\ syTx.step \in {"release", "releasing"} => syTx.op = "release"
  /\ syTx.todo \subseteq DOMAIN syTx.entries
  /\ \A k \in syTx.todo : syTx.entries[k].owners = {}
  /\ syTx.step \in {"record", "apply", "undo"} => syTx.knob \in DOMAIN syTx.entries
  /\ syTx.step \in {"record", "apply", "undo"} => syTx.entries[syTx.knob].managed = syTx.val
  /\ syTx.step = "witness" => syTx.knob \in b.link /\ syTx.knob \in DOMAIN syTx.entries
  /\ syTx.step \notin {"pruning", "releasing"} => syTx.todo = {}
  /\ syTx.step \notin {"witness", "claim", "record", "apply", "undo"} => syTx.id = 0

\* What a transaction works on is what the journal says, except for owners, for what it has
\* restored and for the entry it is about to add.
TxIsJournal(b) == Busy(b) =>
  /\ \A k \in DOMAIN syTx.entries :
       \/ /\ k \in DOMAIN SY(b)!Saved
          /\ syTx.entries[k].original = SY(b)!Saved[k].original /\ syTx.entries[k].managed = SY(b)!Saved[k].managed
          /\ syTx.entries[k].id = SY(b)!Saved[k].id /\ syTx.entries[k].gen = SY(b)!Saved[k].gen
       \/ Fresh(b) /\ k = syTx.knob
  /\ syTx.step \notin {"pruning", "releasing"} => DOMAIN SY(b)!Saved \subseteq DOMAIN syTx.entries

\* Owners are processes that have been started; one that lives has the file of an interface open.
OwnersWere(entries) == \A k \in DOMAIN entries : \A o \in entries[k].owners : o[2] <= syStarted[o[1]]
OwnersPin(b, entries, k) == \A o \in entries[k].owners : SY(b)!IsAlive(o) => \E pin \in syPinned[k] : pin[1] = o
OwnersHold(b) ==
  /\ OwnersWere(SY(b)!Saved)
  /\ \A k \in DOMAIN SY(b)!Saved \cap b.link : OwnersPin(b, SY(b)!Saved, k)
  /\ Busy(b) => /\ OwnersWere(syTx.entries)
                /\ \A k \in DOMAIN syTx.entries \cap b.link : k \in DOMAIN SY(b)!Saved => OwnersPin(b, syTx.entries, k)
                /\ Fresh(b) => syTx.entries[syTx.knob].owners = {SY(b)!Owner(syTx.who)}

\* A file that is held open is that of the entry, and its identity is not given to another.
PinsAreWitnesses(b) ==
  /\ \A k \in DOMAIN SY(b)!Saved \cap b.link : \A pin \in syPinned[k] : pin[2] = SY(b)!Saved[k].gen
  /\ \A k \in DOMAIN SY(b)!Saved \cap b.link :
       syPinned[k] # {} /\ syKernel[k].id = SY(b)!Saved[k].id => syKernel[k].gen = SY(b)!Saved[k].gen
  /\ \A k \in DOMAIN SY(b)!Saved \cap b.global : SY(b)!Saved[k].gen = syKernel[k].gen

\* The file an acquire has open.
OpenFile(b) == Busy(b) =>
  /\ syTx.knob \in b.link /\ syTx.id # 0 =>
       /\ syTx.file <= syKernel[syTx.knob].gen
       /\ syKernel[syTx.knob].id = syTx.id <=> syKernel[syTx.knob].gen = syTx.file
  /\ syTx.step = "witness" => syTx.id # 0
  /\ syTx.step = "witness" /\ syTx.knob \in DOMAIN SY(b)!Saved /\ syPinned[syTx.knob] # {} /\ syTx.id = SY(b)!Saved[syTx.knob].id =>
       syTx.file = SY(b)!Saved[syTx.knob].gen
  /\ syTx.step = "claim" /\ syTx.knob \in b.link /\ syTx.knob \notin DOMAIN SY(b)!Saved => syTx.id # 0
  /\ syTx.step \in {"claim", "record", "apply", "undo"} /\ syTx.knob \in b.link /\ syTx.knob \in DOMAIN syTx.entries =>
       /\ syTx.file = syTx.entries[syTx.knob].gen
       /\ syTx.knob \in DOMAIN SY(b)!Saved => \E pin \in syPinned[syTx.knob] : pin[1] = SY(b)!Owner(syTx.who)
  /\ Fresh(b) /\ syTx.knob \in b.link => syTx.id # 0 /\ syTx.entries[syTx.knob].id = syTx.id
  /\ Fresh(b) /\ syTx.knob \in b.global => syTx.entries[syTx.knob].gen = syKernel[syTx.knob].gen

\* Who claims a value is an owner of it, on record before the value is written.
ClaimIsOwned(b) == Busy(b) /\ syTx.step \in {"record", "apply"} => SY(b)!Owner(syTx.who) \in syTx.entries[syTx.knob].owners
ApplyIsSaved(b) == Busy(b) /\ syTx.step = "apply" => syTx.knob \in DOMAIN SY(b)!Saved /\ SY(b)!Owner(syTx.who) \in SY(b)!Saved[syTx.knob].owners

\* Whoever holds a value is on record, in the journal and in what a transaction makes of it.
HeldIsOwned(b) ==
  \A h \in syHeld :
    /\ h[1] \in syAlive
    /\ h[2] \in DOMAIN SY(b)!Saved /\ SY(b)!Saved[h[2]].managed = h[3] /\ SY(b)!Owner(h[1]) \in SY(b)!Saved[h[2]].owners
    /\ Busy(b) => h[2] \in DOMAIN syTx.entries /\ SY(b)!Owner(h[1]) \in syTx.entries[h[2]].owners

\* What an acquire may still give back, and what a release gives back, nobody holds.
NewIsNotHeld(b) == Busy(b) =>
  /\ syTx.op = "release" => \A h \in syHeld : h[1] # syTx.who
  /\ syTx.step \in {"record", "apply", "undo"} /\ syTx.new => \A h \in syHeld : <<h[1], h[2]>> # <<syTx.who, syTx.knob>>

\* An untouched knob is as its operator left it, or its journal entry says how.
RecordIsBase(b) ==
  \A k \in SY(b)!Knob \ syTouched :
    IF k \in DOMAIN SY(b)!Saved THEN SY(b)!Saved[k].original = syBase[k] /\ SY(b)!Saved[k].gen = syKernel[k].gen
    ELSE /\ syKernel[k].val = syBase[k]
         /\ Busy(b) /\ Fresh(b) /\ syTx.knob = k => /\ syTx.entries[k].original = syBase[k]
                                                    /\ syTx.entries[k].gen = syKernel[k].gen

\* An untouched knob on record has one of the two values of its entry, and an entry that a
\* transaction has dropped is restored.
ValueIsKnown(b) ==
  \A k \in DOMAIN SY(b)!Saved : k \notin syTouched =>
    /\ syKernel[k].val = SY(b)!Saved[k].original \/ syKernel[k].val = SY(b)!Saved[k].managed
    /\ Busy(b) /\ k \notin DOMAIN syTx.entries => syKernel[k].val = syBase[k]

\* What a claim has read is the value the knob still has.
CurrentIsRead(b) ==
  Busy(b) /\ syTx.step = "record" /\ syTx.knob \notin syTouched => syTx.cur = syKernel[syTx.knob].val

SysctlInv(b) ==
  /\ SysctlTypes(b) /\ TxOrder(b) /\ TxIsJournal(b) /\ OwnersHold(b) /\ PinsAreWitnesses(b)
  /\ OpenFile(b) /\ ClaimIsOwned(b) /\ ApplyIsSaved(b)
  /\ HeldIsOwned(b) /\ NewIsNotHeld(b) /\ RecordIsBase(b) /\ ValueIsKnown(b) /\ CurrentIsRead(b)
  /\ SY(b)!HeldValuesStay

LEMMA JournalFacts ==
  ASSUME NEW b, NEW e
  PROVE  e \in Journals(b) <=> DOMAIN e \subseteq SY(b)!Knob /\ e \in [DOMAIN e -> EntryType(b)]
BY DEF Journals

LEMMA SavedFacts ==
  ASSUME NEW b, SysctlTypes(b)
  PROVE  /\ SY(b)!Saved \in Journals(b) /\ DOMAIN SY(b)!Saved \subseteq SY(b)!Knob
         /\ \A k \in DOMAIN SY(b)!Saved : SY(b)!Saved[k] \in EntryType(b)
<1>1. SY(b)!NoEntries \in Journals(b)
  BY DEF SY!NoEntries, Journals
<1>2. SY(b)!Saved \in Journals(b)
  BY <1>1 DEF SY!Saved, SysctlTypes
<1> QED
  BY <1>2, JournalFacts

LEMMA IdleIsNotWork ==
  ASSUME NEW b, SysctlConstants(b)
  PROVE  SY(b)!Idle \notin Work(b)
BY DEF SY!Idle, Work, AcquirePc

\* The invariant holds at first, and then one lemma per action says that it is kept.
LEMMA SysctlStart ==
  ASSUME NEW b, SysctlConstants(b), SY(b)!Init
  PROVE  SysctlInv(b)
<1> USE DEF SY!Init, SysctlInv
<1>1. SY(b)!Saved = SY(b)!NoEntries /\ DOMAIN SY(b)!Saved = {} /\ ~Busy(b)
  BY IdleIsNotWork DEF SY!Saved, SY!NoEntries, Busy
<1>2. SysctlTypes(b)
  <2>1. SY(b)!NoEntries \in Journals(b)
    BY DEF SY!NoEntries, Journals
  <2>2. (CHOOSE i \in b.identity : TRUE) \in b.identity
    BY DEF SysctlConstants
  <2> QED
    BY <2>1, <2>2 DEF SysctlTypes, SetValue, SY!Default
<1> QED
  BY <1>1, <1>2 DEF TxOrder, TxIsJournal, OwnersHold, OwnersWere, PinsAreWitnesses, OpenFile, HeldIsOwned,
     NewIsNotHeld, RecordIsBase, ValueIsKnown, CurrentIsRead, ClaimIsOwned, ApplyIsSaved, SY!HeldValuesStay

\* A transaction that ends, or loses its process, leaves the journal as it is.
LEMMA TxEnds ==
  ASSUME NEW b, SysctlConstants(b), SysctlInv(b), syTx' = SY(b)!Idle,
         UNCHANGED <<syKernel, syBoot, syDisk, syStarted, syAlive, syPinned, syHeld, syBase, syTouched, syMoves>>
  PROVE  SysctlInv(b)'
<1> USE DEF SysctlInv
<1>1. ~Busy(b)' /\ SY(b)!Saved' = SY(b)!Saved
  BY IdleIsNotWork DEF Busy, SY!Saved
<1>2. SysctlTypes(b)'
  BY DEF SysctlTypes, SY!Idle
<1>3. OwnersHold(b)' /\ HeldIsOwned(b)'
  BY <1>1 DEF OwnersHold, OwnersWere, OwnersPin, SY!IsAlive, HeldIsOwned, SY!Owner
<1>4. PinsAreWitnesses(b)' /\ RecordIsBase(b)' /\ ValueIsKnown(b)' /\ SY(b)!HeldValuesStay'
  BY <1>1 DEF PinsAreWitnesses, RecordIsBase, ValueIsKnown, SY!HeldValuesStay
<1> QED
  BY <1>1, <1>2, <1>3, <1>4 DEF TxOrder, TxIsJournal, OpenFile, NewIsNotHeld, CurrentIsRead, ClaimIsOwned, ApplyIsSaved

LEMMA BeginStep ==
  ASSUME NEW b, SysctlConstants(b), SysctlInv(b), NEW p \in b.process, NEW op \in {"acquire", "release", "recover"},
         NEW k \in SY(b)!Knob, NEW v \in SetValue(b), SY(b)!Begin(p, op, k, v)
  PROVE  SysctlInv(b)'
<1> USE DEF SysctlInv
<1>1. /\ p \in syAlive /\ syHeld' \subseteq syHeld /\ SY(b)!Saved' = SY(b)!Saved
      /\ op = "release" => \A h \in syHeld' : h[1] # p
      /\ UNCHANGED <<syKernel, syBoot, syDisk, syStarted, syAlive, syPinned, syBase, syTouched, syMoves>>
  BY DEF SY!Begin, SY!Saved
<1>2. syTx' = [step |-> "prune", who |-> p, op |-> op, knob |-> k, val |-> v,
             entries |-> SY(b)!Saved, todo |-> {}, unsure |-> FALSE, cur |-> v,
             new |-> FALSE, id |-> 0, file |-> 0]
  BY DEF SY!Begin
<1>3. /\ Busy(b)' /\ syTx'.step = "prune" /\ syTx'.who = p /\ syTx'.op = op /\ syTx'.entries = SY(b)!Saved
      /\ syTx'.todo = {} /\ syTx'.id = 0
  BY <1>2, SavedFacts DEF Busy, Work
<1> HIDE DEF SY!Begin
<1>4. SysctlTypes(b)'
  BY <1>1, <1>3 DEF SysctlTypes, Busy
<1>5. TxOrder(b)' /\ TxIsJournal(b)' /\ OpenFile(b)' /\ NewIsNotHeld(b)' /\ CurrentIsRead(b)' /\ ClaimIsOwned(b)' /\ ApplyIsSaved(b)'
  BY <1>1, <1>3 DEF TxOrder, TxIsJournal, OpenFile, NewIsNotHeld, CurrentIsRead, ClaimIsOwned, ApplyIsSaved, AcquirePc, Fresh
<1>6. OwnersHold(b)' /\ HeldIsOwned(b)'
  BY <1>1, <1>3 DEF OwnersHold, OwnersWere, OwnersPin, SY!IsAlive, HeldIsOwned, SY!Owner, Fresh
<1>7. PinsAreWitnesses(b)' /\ RecordIsBase(b)' /\ ValueIsKnown(b)' /\ SY(b)!HeldValuesStay'
  BY <1>1, <1>3 DEF PinsAreWitnesses, RecordIsBase, ValueIsKnown, SY!HeldValuesStay, Fresh
<1> QED
  BY <1>4, <1>5, <1>6, <1>7

\* Owners are taken out of the entries: dead ones, or the process itself.
LEMMA OwnersLeave ==
  ASSUME NEW b, SysctlConstants(b), SysctlInv(b), Busy(b), syTx.step \in {"prune", "release"},
         UNCHANGED <<syKernel, syBoot, syDisk, syStarted, syAlive, syPinned, syHeld, syBase, syTouched, syMoves>>,
         Busy(b)', syTx'.step = IF syTx.step = "prune" THEN "pruning" ELSE "releasing",
         syTx'.who = syTx.who, syTx'.op = syTx.op, syTx'.knob = syTx.knob, syTx'.id = syTx.id, syTx'.file = syTx.file,
         syTx'.todo = {k \in DOMAIN syTx'.entries : syTx'.entries[k].owners = {}},
         DOMAIN syTx'.entries = DOMAIN syTx.entries,
         \A k \in DOMAIN syTx.entries :
           /\ syTx'.entries[k].original = syTx.entries[k].original
           /\ syTx'.entries[k].managed = syTx.entries[k].managed
           /\ syTx'.entries[k].id = syTx.entries[k].id /\ syTx'.entries[k].gen = syTx.entries[k].gen
           /\ syTx'.entries[k].owners \subseteq syTx.entries[k].owners
           /\ \A h \in syHeld : h[2] = k => SY(b)!Owner(h[1]) \in syTx'.entries[k].owners
  PROVE  SysctlInv(b)'
<1> USE DEF SysctlInv
<1>1. SY(b)!Saved' = SY(b)!Saved
  BY DEF SY!Saved
<1>2. SysctlTypes(b)'
  BY DEF SysctlTypes, Busy
<1>3. TxOrder(b)' /\ OpenFile(b)' /\ NewIsNotHeld(b)' /\ CurrentIsRead(b)' /\ ClaimIsOwned(b)' /\ ApplyIsSaved(b)'
  BY <1>1 DEF TxOrder, OpenFile, NewIsNotHeld, CurrentIsRead, ClaimIsOwned, ApplyIsSaved, AcquirePc, Fresh
<1>4. TxIsJournal(b)'
  BY <1>1 DEF TxIsJournal, Fresh
<1>5. OwnersHold(b)'
  BY <1>1 DEF OwnersHold, OwnersWere, OwnersPin, SY!IsAlive, Fresh
<1>6. HeldIsOwned(b)'
  BY <1>1 DEF HeldIsOwned, SY!Owner
<1>7. PinsAreWitnesses(b)' /\ RecordIsBase(b)' /\ ValueIsKnown(b)' /\ SY(b)!HeldValuesStay'
  BY <1>1 DEF PinsAreWitnesses, RecordIsBase, ValueIsKnown, SY!HeldValuesStay, Fresh
<1> QED
  BY <1>2, <1>3, <1>4, <1>5, <1>6, <1>7

LEMMA PruneStep ==
  ASSUME NEW b, SysctlConstants(b), SysctlInv(b), NEW unknown, SY(b)!Prune(unknown)
  PROVE  SysctlInv(b)'
<1> USE DEF SysctlInv
<1>1. Busy(b) /\ syTx.step = "prune"
  BY DEF SY!Prune, Busy, SysctlTypes
<1> DEFINE entries == [k \in DOMAIN syTx.entries |->
                         [syTx.entries[k] EXCEPT !.owners = {o \in @ : o \in unknown \/ SY(b)!IsAlive(o)}]]
<1>2. /\ syTx' = [syTx EXCEPT !.entries = entries, !.todo = SY(b)!Ownerless(entries),
                          !.unsure = unknown # {}, !.step = "pruning"]
      /\ UNCHANGED <<syKernel, syBoot, syDisk, syStarted, syAlive, syPinned, syHeld, syBase, syTouched, syMoves>>
  BY DEF SY!Prune
<1>3. syTx.entries \in Journals(b) /\ DOMAIN syTx.entries \subseteq SY(b)!Knob /\ \A k \in DOMAIN syTx.entries : syTx.entries[k] \in EntryType(b)
  <2>1. syTx.entries \in Journals(b)
    BY <1>1 DEF Busy, Work
  <2> QED
    BY <2>1, JournalFacts
<1>4. /\ DOMAIN entries = DOMAIN syTx.entries
      /\ \A k \in DOMAIN syTx.entries :
           /\ entries[k] \in EntryType(b)
           /\ entries[k].original = syTx.entries[k].original /\ entries[k].managed = syTx.entries[k].managed
           /\ entries[k].id = syTx.entries[k].id /\ entries[k].gen = syTx.entries[k].gen
           /\ entries[k].owners = {o \in syTx.entries[k].owners : o \in unknown \/ SY(b)!IsAlive(o)}
  BY <1>3 DEF EntryType
<1>5. entries \in Journals(b)
  <2>1. entries \in [DOMAIN entries -> EntryType(b)]
    BY <1>4
  <2> HIDE DEF entries
  <2> QED
    BY <1>3, <1>4, <2>1, JournalFacts
<1> HIDE DEF entries
<1>6. /\ Busy(b)' /\ syTx'.step = "pruning" /\ syTx'.entries = entries
      /\ syTx'.who = syTx.who /\ syTx'.op = syTx.op /\ syTx'.knob = syTx.knob /\ syTx'.id = syTx.id /\ syTx'.file = syTx.file
      /\ syTx'.todo = SY(b)!Ownerless(entries)
  <2>1. SY(b)!Ownerless(entries) \subseteq SY(b)!Knob
    BY <1>3, <1>4 DEF SY!Ownerless
  <2> QED
    BY <1>1, <1>2, <1>5, <2>1 DEF Busy, Work
<1>7. \A h \in syHeld : h[2] \in DOMAIN syTx.entries /\ SY(b)!Owner(h[1]) \in entries[h[2]].owners
  BY <1>1, <1>4 DEF HeldIsOwned, SY!IsAlive, SY!Owner
<1> QED
  BY <1>1, <1>2, <1>4, <1>6, <1>7, OwnersLeave DEF SY!Ownerless

LEMMA ReleaseStep ==
  ASSUME NEW b, SysctlConstants(b), SysctlInv(b), SY(b)!Release
  PROVE  SysctlInv(b)'
<1> USE DEF SysctlInv
<1>1. Busy(b) /\ syTx.step = "release" /\ syTx.op = "release"
  BY DEF SY!Release, Busy, SysctlTypes, TxOrder
<1> DEFINE entries == [k \in DOMAIN syTx.entries |->
                         [syTx.entries[k] EXCEPT !.owners = @ \ {SY(b)!Owner(syTx.who)}]]
<1>2. /\ syTx' = [syTx EXCEPT !.entries = entries, !.todo = SY(b)!Ownerless(entries), !.step = "releasing"]
      /\ UNCHANGED <<syKernel, syBoot, syDisk, syStarted, syAlive, syPinned, syHeld, syBase, syTouched, syMoves>>
  BY DEF SY!Release
<1>3. syTx.entries \in Journals(b) /\ DOMAIN syTx.entries \subseteq SY(b)!Knob /\ \A k \in DOMAIN syTx.entries : syTx.entries[k] \in EntryType(b)
  <2>1. syTx.entries \in Journals(b)
    BY <1>1 DEF Busy, Work
  <2> QED
    BY <2>1, JournalFacts
<1>4. /\ DOMAIN entries = DOMAIN syTx.entries
      /\ \A k \in DOMAIN syTx.entries :
           /\ entries[k] \in EntryType(b)
           /\ entries[k].original = syTx.entries[k].original /\ entries[k].managed = syTx.entries[k].managed
           /\ entries[k].id = syTx.entries[k].id /\ entries[k].gen = syTx.entries[k].gen
           /\ entries[k].owners = syTx.entries[k].owners \ {SY(b)!Owner(syTx.who)}
  BY <1>3 DEF EntryType
<1>5. entries \in Journals(b)
  <2>1. entries \in [DOMAIN entries -> EntryType(b)]
    BY <1>4
  <2> HIDE DEF entries
  <2> QED
    BY <1>3, <1>4, <2>1, JournalFacts
<1> HIDE DEF entries
<1>6. /\ Busy(b)' /\ syTx'.step = "releasing" /\ syTx'.entries = entries
      /\ syTx'.who = syTx.who /\ syTx'.op = syTx.op /\ syTx'.knob = syTx.knob /\ syTx'.id = syTx.id /\ syTx'.file = syTx.file
      /\ syTx'.todo = SY(b)!Ownerless(entries)
  <2>1. SY(b)!Ownerless(entries) \subseteq SY(b)!Knob
    BY <1>3, <1>4 DEF SY!Ownerless
  <2> QED
    BY <1>1, <1>2, <1>5, <2>1 DEF Busy, Work
<1>7. \A h \in syHeld : h[2] \in DOMAIN syTx.entries /\ SY(b)!Owner(h[1]) \in entries[h[2]].owners
  BY <1>1, <1>4 DEF HeldIsOwned, NewIsNotHeld, SY!Owner
<1> QED
  BY <1>1, <1>2, <1>4, <1>6, <1>7, OwnersLeave DEF SY!Ownerless

\* A step that only moves the transaction on.
LEMMA TxMoves ==
  ASSUME NEW b, SysctlConstants(b), SysctlInv(b), Busy(b), Busy(b)',
         UNCHANGED <<syKernel, syBoot, syDisk, syStarted, syAlive, syHeld, syBase, syTouched, syMoves>>,
         syPinned' \in [SY(b)!Knob -> SUBSET (Owned(b) \X Nat)],
         \A k \in SY(b)!Knob : syPinned[k] \subseteq syPinned'[k],
         syTx.step \in {"acquire", "witness"}, syTx'.step \in {"witness", "claim"},
         syTx'.who = syTx.who, syTx'.op = syTx.op, syTx'.entries = syTx.entries, syTx'.todo = syTx.todo,
         TxOrder(b)', OpenFile(b)', PinsAreWitnesses(b)'
  PROVE  SysctlInv(b)'
<1> USE DEF SysctlInv
<1>1. SY(b)!Saved' = SY(b)!Saved /\ DOMAIN SY(b)!Saved \subseteq SY(b)!Knob
  BY SavedFacts DEF SY!Saved
<1>2. SysctlTypes(b)'
  BY DEF SysctlTypes, Busy
<1>3. TxIsJournal(b)' /\ NewIsNotHeld(b)' /\ CurrentIsRead(b)' /\ ClaimIsOwned(b)' /\ ApplyIsSaved(b)'
  BY <1>1 DEF ClaimIsOwned, ApplyIsSaved, TxIsJournal, NewIsNotHeld, CurrentIsRead, Fresh
<1>4. OwnersHold(b)'
  BY <1>1 DEF OwnersHold, OwnersWere, OwnersPin, SY!IsAlive, Fresh
<1>5. HeldIsOwned(b)'
  BY <1>1 DEF HeldIsOwned, SY!Owner
<1>6. RecordIsBase(b)' /\ ValueIsKnown(b)' /\ SY(b)!HeldValuesStay'
  BY <1>1 DEF RecordIsBase, ValueIsKnown, SY!HeldValuesStay, Fresh
<1> QED
  BY <1>2, <1>3, <1>4, <1>5, <1>6

LEMMA OpenTargetStep ==
  ASSUME NEW b, SysctlConstants(b), SysctlInv(b), SY(b)!OpenTarget
  PROVE  SysctlInv(b)'
<1> USE DEF SysctlInv
<1>1. /\ Busy(b) /\ syTx.step = "acquire" /\ syTx.id = 0 /\ syTx.knob \in SY(b)!Knob /\ SY(b)!Saved' = SY(b)!Saved
      /\ UNCHANGED <<syKernel, syBoot, syDisk, syStarted, syAlive, syPinned, syHeld, syBase, syTouched, syMoves>>
  BY DEF SY!OpenTarget, Busy, SysctlTypes, TxOrder, Work, SY!Saved
<1>2. /\ syTx.knob \in DOMAIN syTx.entries <=> syTx.knob \in DOMAIN SY(b)!Saved
      /\ syTx.knob \in DOMAIN SY(b)!Saved => syTx.entries[syTx.knob].gen = SY(b)!Saved[syTx.knob].gen
                                     /\ syTx.entries[syTx.knob].id = SY(b)!Saved[syTx.knob].id
  BY <1>1 DEF TxIsJournal, Fresh
<1>3. syKernel[syTx.knob].id \in b.identity /\ syKernel[syTx.knob].gen \in Nat /\ syKernel[syTx.knob].id # 0
  BY <1>1 DEF SysctlTypes, SysctlConstants
<1>4. PinsAreWitnesses(b)' /\ syPinned' \in [SY(b)!Knob -> SUBSET (Owned(b) \X Nat)]
  BY <1>1 DEF PinsAreWitnesses, SysctlTypes
<1>5. CASE syTx' = SY(b)!Idle
  BY <1>1, <1>5, TxEnds
<1>6. CASE syTx.knob \in b.global /\ syTx' = [syTx EXCEPT !.step = "claim"]
  <2>1. /\ Busy(b)' /\ syTx'.step = "claim" /\ syTx'.who = syTx.who /\ syTx'.op = syTx.op /\ syTx'.knob = syTx.knob
        /\ syTx'.entries = syTx.entries /\ syTx'.todo = syTx.todo /\ syTx'.id = syTx.id /\ syTx'.file = syTx.file
    BY <1>1, <1>6 DEF Busy, Work, AcquirePc
  <2>2. TxOrder(b)'
    BY <1>1, <2>1 DEF TxOrder, AcquirePc
  <2>3. syTx.knob \notin b.link
    BY <1>6 DEF SysctlConstants
  <2>4. OpenFile(b)'
    BY <1>1, <2>1, <2>3 DEF OpenFile, Fresh
  <2> QED
    BY <1>1, <1>4, <2>1, <2>2, <2>4, TxMoves
<1>7. ASSUME NEW pin \in SY(b)!Pins(syTx.knob, syTx.who), syTx.knob \in b.link, syTx.knob \in DOMAIN syTx.entries,
             syTx' = [syTx EXCEPT !.file = pin[2], !.step = "claim"]
      PROVE  SysctlInv(b)'
  <2>1. pin \in syPinned[syTx.knob] /\ pin[1] = SY(b)!Owner(syTx.who) /\ pin[2] \in Nat
    BY <1>1, <1>7 DEF SY!Pins, SysctlTypes
  <2>2. /\ Busy(b)' /\ syTx'.step = "claim" /\ syTx'.who = syTx.who /\ syTx'.op = syTx.op /\ syTx'.knob = syTx.knob
        /\ syTx'.entries = syTx.entries /\ syTx'.todo = syTx.todo /\ syTx'.id = syTx.id /\ syTx'.file = pin[2]
    BY <1>1, <1>7, <2>1 DEF Busy, Work, AcquirePc
  <2>3. TxOrder(b)'
    BY <1>1, <2>2 DEF TxOrder, AcquirePc
  <2>4. pin[2] = syTx.entries[syTx.knob].gen
    BY <1>2, <1>7, <2>1 DEF PinsAreWitnesses
  <2>5. OpenFile(b)'
    BY <1>1, <1>2, <1>7, <2>1, <2>2, <2>4 DEF OpenFile, Fresh, SY!Owner
  <2> QED
    BY <1>1, <1>4, <2>2, <2>3, <2>5, TxMoves
<1>8. CASE syTx' = [syTx EXCEPT !.id = syKernel[syTx.knob].id, !.file = syKernel[syTx.knob].gen,
                            !.step = IF SY(b)!Managed THEN "witness" ELSE "claim"]
           /\ syTx.knob \in b.link
  <2> DEFINE next == IF SY(b)!Managed THEN "witness" ELSE "claim"
  <2>1. /\ Busy(b)' /\ syTx'.step = next /\ syTx'.who = syTx.who /\ syTx'.op = syTx.op /\ syTx'.knob = syTx.knob
        /\ syTx'.entries = syTx.entries /\ syTx'.todo = syTx.todo /\ syTx'.id = syKernel[syTx.knob].id
        /\ syTx'.file = syKernel[syTx.knob].gen
    BY <1>1, <1>3, <1>8 DEF Busy, Work, AcquirePc
  <2>2. TxOrder(b)'
    BY <1>1, <1>8, <2>1 DEF TxOrder, AcquirePc, SY!Managed
  <2>3. OpenFile(b)'
    BY <1>1, <1>2, <1>3, <1>8, <2>1 DEF OpenFile, Fresh, SY!Managed, PinsAreWitnesses
  <2> QED
    BY <1>1, <1>4, <2>1, <2>2, <2>3, TxMoves
<1> QED
  BY <1>1, <1>5, <1>6, <1>7, <1>8 DEF SY!OpenTarget, SY!Fail, SY!Step, SY!Managed, SY!Knob

LEMMA WitnessStep ==
  ASSUME NEW b, SysctlConstants(b), SysctlInv(b), SY(b)!Witness
  PROVE  SysctlInv(b)'
<1> USE DEF SysctlInv
<1>1. /\ Busy(b) /\ syTx.step = "witness" /\ syTx.knob \in b.link /\ SY(b)!Saved' = SY(b)!Saved
      /\ UNCHANGED <<syKernel, syBoot, syDisk, syStarted, syAlive, syHeld, syBase, syTouched, syMoves>>
  BY DEF SY!Witness, Busy, SysctlTypes, TxOrder, SY!Saved
<1>2. /\ syTx.knob \in DOMAIN syTx.entries /\ syTx.knob \in DOMAIN SY(b)!Saved /\ syTx.knob \in SY(b)!Knob
      /\ syTx.entries[syTx.knob].gen = SY(b)!Saved[syTx.knob].gen /\ syTx.entries[syTx.knob].id = SY(b)!Saved[syTx.knob].id
  BY <1>1 DEF TxOrder, TxIsJournal, Fresh, SY!Knob
<1>3. CASE syTx' = SY(b)!Idle /\ syPinned' = syPinned
  BY <1>1, <1>3, TxEnds
<1>4. CASE /\ SY(b)!HasWitness /\ syTx.id = SY(b)!Entry.id /\ SY(b)!Step("claim")
           /\ syPinned' = [syPinned EXCEPT ![syTx.knob] = @ \cup {<<SY(b)!Owner(syTx.who), syTx.file>>}]
  <2>1. PICK o \in syTx.entries[syTx.knob].owners : SY(b)!IsAlive(o)
    BY <1>4 DEF SY!HasWitness, SY!Entry
  <2>2. syPinned[syTx.knob] # {}
    BY <1>1, <1>2, <2>1 DEF OwnersHold, OwnersPin
  <2>3. syTx.file = SY(b)!Saved[syTx.knob].gen /\ syTx.id # 0
    BY <1>1, <1>2, <1>4, <2>2 DEF OpenFile, SY!Entry
  <2>4. syTx.who \in b.process /\ syTx.file \in Nat /\ SY(b)!Owner(syTx.who) \in Owned(b)
    BY <1>1 DEF Busy, Work, SY!Owner, Owned, SysctlTypes
  <2> DEFINE mine == <<SY(b)!Owner(syTx.who), syTx.file>>
  <2>5. /\ syPinned' \in [SY(b)!Knob -> SUBSET (Owned(b) \X Nat)] /\ \A k \in SY(b)!Knob : syPinned[k] \subseteq syPinned'[k]
        /\ \A k \in SY(b)!Knob : k # syTx.knob => syPinned'[k] = syPinned[k]
        /\ syPinned'[syTx.knob] = syPinned[syTx.knob] \cup {mine} /\ mine[1] = SY(b)!Owner(syTx.who) /\ mine[2] = syTx.file
    BY <1>2, <1>4, <2>4 DEF SysctlTypes
  <2>6. /\ Busy(b)' /\ syTx'.step = "claim" /\ syTx'.who = syTx.who /\ syTx'.op = syTx.op /\ syTx'.knob = syTx.knob
        /\ syTx'.entries = syTx.entries /\ syTx'.todo = syTx.todo /\ syTx'.id = syTx.id /\ syTx'.file = syTx.file
    BY <1>1, <1>4 DEF Busy, Work, AcquirePc, SY!Step
  <2> HIDE DEF mine
  <2>7. TxOrder(b)'
    BY <1>1, <2>6 DEF TxOrder, AcquirePc
  <2>8. PinsAreWitnesses(b)'
    BY <1>1, <1>2, <2>2, <2>3, <2>5, SavedFacts DEF PinsAreWitnesses
  <2>9. OpenFile(b)'
    BY <1>1, <1>2, <2>3, <2>5, <2>6 DEF OpenFile, Fresh, SY!Owner
  <2> QED
    BY <1>1, <2>5, <2>6, <2>7, <2>8, <2>9, TxMoves
<1> QED
  BY <1>3, <1>4 DEF SY!Witness, SY!Fail

\* What a claim puts into the entries of the transaction.
LEMMA ClaimFrame ==
  ASSUME NEW b, SysctlConstants(b), SysctlInv(b), Busy(b), syTx.step = "claim", Busy(b)', syTx'.step = "record",
         UNCHANGED <<syKernel, syBoot, syDisk, syStarted, syAlive, syPinned, syHeld, syBase, syTouched, syMoves>>,
         syTx'.who = syTx.who, syTx'.op = syTx.op, syTx'.knob = syTx.knob, syTx'.val = syTx.val, syTx'.todo = syTx.todo,
         syTx'.id = syTx.id, syTx'.file = syTx.file, syTx'.cur = syKernel[syTx.knob].val,
         syTx.knob \in b.link => syTx.file = syKernel[syTx.knob].gen,
         DOMAIN syTx'.entries = DOMAIN syTx.entries \cup {syTx.knob},
         \A k \in DOMAIN syTx.entries \ {syTx.knob} : syTx'.entries[k] = syTx.entries[k],
         syTx'.entries[syTx.knob].managed = syTx.val,
         syTx.knob \in DOMAIN syTx.entries =>
           /\ syTx'.entries[syTx.knob].original = syTx.entries[syTx.knob].original
           /\ syTx'.entries[syTx.knob].id = syTx.entries[syTx.knob].id
           /\ syTx'.entries[syTx.knob].gen = syTx.entries[syTx.knob].gen
           /\ syTx.entries[syTx.knob].managed = syTx.val
           /\ syTx'.entries[syTx.knob].owners = syTx.entries[syTx.knob].owners \cup {SY(b)!Owner(syTx.who)},
         syTx.knob \in DOMAIN syTx.entries => (syTx'.new => SY(b)!Owner(syTx.who) \notin syTx.entries[syTx.knob].owners),
         syTx.knob \notin DOMAIN syTx.entries =>
           /\ syTx'.entries[syTx.knob].original = syKernel[syTx.knob].val
           /\ syTx'.entries[syTx.knob].id = syKernel[syTx.knob].id
           /\ syTx'.entries[syTx.knob].gen = syKernel[syTx.knob].gen
           /\ syTx'.entries[syTx.knob].owners = {SY(b)!Owner(syTx.who)}
  PROVE  SysctlInv(b)'
<1> USE DEF SysctlInv
<1>1. SY(b)!Saved' = SY(b)!Saved /\ DOMAIN SY(b)!Saved \subseteq SY(b)!Knob /\ (Fresh(b)' <=> syTx.knob \notin DOMAIN SY(b)!Saved)
  BY SavedFacts DEF SY!Saved, Fresh
<1>2. /\ syTx.knob \in DOMAIN syTx.entries <=> syTx.knob \in DOMAIN SY(b)!Saved
      /\ DOMAIN syTx.entries = DOMAIN SY(b)!Saved
  BY DEF TxIsJournal, Fresh
<1>3. SysctlTypes(b)'
  BY DEF SysctlTypes, Busy
<1>4. syTx.who \in syAlive /\ syTx.who \in b.process /\ syStarted[syTx.who] \in Nat /\ syTx.op = "acquire"
  BY DEF TxOrder, Busy, Work, SysctlTypes, AcquirePc
<1>5. TxOrder(b)'
  <2>1. syTx.todo \subseteq DOMAIN syTx.entries /\ \A k \in syTx.todo : syTx.entries[k].owners = {}
    BY DEF TxOrder
  <2> QED
    BY <1>4, <2>1 DEF TxOrder, AcquirePc
<1>6. TxIsJournal(b)'
  BY <1>1, <1>2 DEF TxIsJournal, Fresh
<1>7. OwnersHold(b)'
  BY <1>1, <1>2, <1>4 DEF OwnersHold, OwnersWere, OwnersPin, OpenFile, SY!IsAlive, SY!Owner, Fresh
<1>8. PinsAreWitnesses(b)'
  BY <1>1 DEF PinsAreWitnesses
<1>9. OpenFile(b)'
  BY <1>1, <1>2, <1>4 DEF OpenFile, SY!Owner, Fresh
<1>10. HeldIsOwned(b)'
  BY <1>1, <1>2 DEF HeldIsOwned, SY!Owner
<1>11. NewIsNotHeld(b)'
  BY <1>1, <1>2, <1>4 DEF NewIsNotHeld, HeldIsOwned, SY!Owner
<1>12. RecordIsBase(b)' /\ ValueIsKnown(b)'
  BY <1>1, <1>2 DEF RecordIsBase, ValueIsKnown, Fresh
<1>13. CurrentIsRead(b)' /\ SY(b)!HeldValuesStay' /\ ClaimIsOwned(b)' /\ ApplyIsSaved(b)'
  BY DEF CurrentIsRead, ClaimIsOwned, ApplyIsSaved, SY!Owner, SY!HeldValuesStay
<1> QED
  BY <1>3, <1>5, <1>6, <1>7, <1>8, <1>9, <1>10, <1>11, <1>12, <1>13

LEMMA ClaimStep ==
  ASSUME NEW b, SysctlConstants(b), SysctlInv(b), SY(b)!Claim
  PROVE  SysctlInv(b)'
<1> USE DEF SysctlInv
<1> DEFINE fresh == [original |-> syKernel[syTx.knob].val, managed |-> syTx.val, owners |-> {SY(b)!Owner(syTx.who)},
                     id |-> syKernel[syTx.knob].id, gen |-> syKernel[syTx.knob].gen]
<1>1. /\ Busy(b) /\ syTx.step = "claim" /\ syTx \in Work(b)
      /\ UNCHANGED <<syKernel, syBoot, syDisk, syStarted, syAlive, syPinned, syHeld, syBase, syTouched, syMoves>>
  BY DEF SY!Claim, Busy, SysctlTypes
<1>2. /\ syTx.knob \in SY(b)!Knob /\ syTx.val \in SetValue(b) /\ syTx.who \in b.process /\ syTx.op \in {"acquire", "release", "recover"}
      /\ syTx.entries \in Journals(b) /\ syTx.todo \subseteq SY(b)!Knob /\ syTx.file \in Nat /\ syTx.id \in b.identity \cup {0}
      /\ DOMAIN syTx.entries \subseteq SY(b)!Knob /\ \A k \in DOMAIN syTx.entries : syTx.entries[k] \in EntryType(b)
      /\ syKernel[syTx.knob].val \in SetValue(b) /\ syKernel[syTx.knob].id \in b.identity /\ syKernel[syTx.knob].gen \in Nat
      /\ SY(b)!Owner(syTx.who) \in Owned(b)
  BY <1>1, JournalFacts DEF Work, SysctlTypes, SY!Owner, Owned
<1>3. syTx.knob \in b.link => syTx.file = syKernel[syTx.knob].gen \/ syTx' = SY(b)!Idle
  BY <1>1, IdleIsNotWork DEF SY!Claim, SY!Fail, SY!Reachable, SysctlConstants, Busy
<1>4. CASE syTx' = SY(b)!Idle
  BY <1>1, <1>4, TxEnds
<1>5. CASE /\ syTx.knob \in DOMAIN syTx.entries /\ syTx.entries[syTx.knob].managed = syTx.val /\ syTx' # SY(b)!Idle
           /\ syTx' = [syTx EXCEPT !.entries[syTx.knob].owners = @ \cup {SY(b)!Owner(syTx.who)}, !.cur = syKernel[syTx.knob].val,
                               !.new = SY(b)!Owner(syTx.who) \notin SY(b)!Entry.owners, !.step = "record"]
  <2> DEFINE mine == [syTx.entries[syTx.knob] EXCEPT !.owners = @ \cup {SY(b)!Owner(syTx.who)}]
             both == [syTx.entries EXCEPT ![syTx.knob] = mine]
  <2>1. mine \in EntryType(b) /\ mine.owners = syTx.entries[syTx.knob].owners \cup {SY(b)!Owner(syTx.who)}
        /\ mine.original = syTx.entries[syTx.knob].original /\ mine.id = syTx.entries[syTx.knob].id
        /\ mine.gen = syTx.entries[syTx.knob].gen /\ mine.managed = syTx.entries[syTx.knob].managed
    BY <1>2, <1>5 DEF EntryType
  <2> HIDE DEF mine
  <2>2. both \in Journals(b) /\ DOMAIN both = DOMAIN syTx.entries /\ both[syTx.knob] = mine
        /\ \A k \in DOMAIN syTx.entries \ {syTx.knob} : both[k] = syTx.entries[k]
    BY <1>2, <1>5, <2>1, JournalFacts
  <2>3. syTx' = [syTx EXCEPT !.entries = both, !.cur = syKernel[syTx.knob].val,
                         !.new = SY(b)!Owner(syTx.who) \notin syTx.entries[syTx.knob].owners, !.step = "record"]
    BY <1>5 DEF mine, SY!Entry
  <2> HIDE DEF both
  <2>4. /\ syTx' \in Work(b) /\ syTx'.step = "record" /\ syTx'.who = syTx.who /\ syTx'.op = syTx.op /\ syTx'.knob = syTx.knob
        /\ syTx'.val = syTx.val /\ syTx'.todo = syTx.todo /\ syTx'.id = syTx.id /\ syTx'.file = syTx.file
        /\ syTx'.cur = syKernel[syTx.knob].val /\ syTx'.entries = both
    BY <1>1, <1>2, <2>2, <2>3 DEF Work, AcquirePc
  <2>5. syTx'.new => SY(b)!Owner(syTx.who) \notin syTx.entries[syTx.knob].owners
    BY <1>1, <2>3 DEF Work
  <2>6. /\ syTx'.entries[syTx.knob].managed = syTx.val /\ syTx'.entries[syTx.knob].original = syTx.entries[syTx.knob].original
        /\ syTx'.entries[syTx.knob].id = syTx.entries[syTx.knob].id /\ syTx'.entries[syTx.knob].gen = syTx.entries[syTx.knob].gen
        /\ syTx'.entries[syTx.knob].owners = syTx.entries[syTx.knob].owners \cup {SY(b)!Owner(syTx.who)}
        /\ DOMAIN syTx'.entries = DOMAIN syTx.entries \cup {syTx.knob}
        /\ \A k \in DOMAIN syTx.entries \ {syTx.knob} : syTx'.entries[k] = syTx.entries[k]
    BY <1>5, <2>1, <2>2, <2>4
  <2>7. Busy(b)' /\ (syTx.knob \in b.link => syTx.file = syKernel[syTx.knob].gen)
    BY <1>3, <1>5, <2>4 DEF Busy
  <2> QED
    BY <1>1, <1>5, <2>4, <2>5, <2>6, <2>7, ClaimFrame
<1>6. CASE /\ syTx.knob \notin DOMAIN syTx.entries /\ syTx' # SY(b)!Idle
           /\ syTx' = [syTx EXCEPT !.entries = [j \in DOMAIN @ \cup {syTx.knob} |-> IF j = syTx.knob THEN fresh ELSE @[j]],
                               !.cur = syKernel[syTx.knob].val, !.new = TRUE, !.step = "record"]
  <2> DEFINE both == [j \in DOMAIN syTx.entries \cup {syTx.knob} |-> IF j = syTx.knob THEN fresh ELSE syTx.entries[j]]
  <2>1. fresh \in EntryType(b) /\ fresh.owners = {SY(b)!Owner(syTx.who)} /\ fresh.original = syKernel[syTx.knob].val
        /\ fresh.id = syKernel[syTx.knob].id /\ fresh.gen = syKernel[syTx.knob].gen /\ fresh.managed = syTx.val
    BY <1>2 DEF EntryType
  <2> HIDE DEF fresh
  <2>2. both \in Journals(b) /\ DOMAIN both = DOMAIN syTx.entries \cup {syTx.knob} /\ both[syTx.knob] = fresh
        /\ \A k \in DOMAIN syTx.entries \ {syTx.knob} : both[k] = syTx.entries[k]
    BY <1>2, <2>1, JournalFacts
  <2>3. syTx' = [syTx EXCEPT !.entries = both, !.cur = syKernel[syTx.knob].val, !.new = TRUE, !.step = "record"]
    BY <1>6
  <2> HIDE DEF both
  <2>4. /\ syTx' \in Work(b) /\ syTx'.step = "record" /\ syTx'.who = syTx.who /\ syTx'.op = syTx.op /\ syTx'.knob = syTx.knob
        /\ syTx'.val = syTx.val /\ syTx'.todo = syTx.todo /\ syTx'.id = syTx.id /\ syTx'.file = syTx.file
        /\ syTx'.cur = syKernel[syTx.knob].val /\ syTx'.entries = both
    BY <1>1, <1>2, <2>2, <2>3 DEF Work, AcquirePc
  <2> QED
    BY <1>1, <1>3, <1>6, <2>1, <2>2, <2>4, ClaimFrame DEF Busy
<1> QED
  BY <1>1, <1>4, <1>5, <1>6 DEF SY!Claim, SY!Fail, SY!Managed, SY!Entry

\* One entry is taken back: it leaves the transaction or stays as it is, and the value of its
\* knob goes back at most to the original.
LEMMA RestoreFrame ==
  ASSUME NEW b, SysctlConstants(b), SysctlInv(b), Busy(b), syTx.step \in {"pruning", "releasing"}, Busy(b)', NEW k \in syTx.todo,
         UNCHANGED <<syBoot, syDisk, syStarted, syAlive, syPinned, syHeld, syBase, syTouched, syMoves>>,
         syTx'.step = syTx.step, syTx'.who = syTx.who, syTx'.op = syTx.op, syTx'.knob = syTx.knob, syTx'.id = syTx.id,
         syTx'.file = syTx.file, syTx'.todo = syTx.todo \ {k},
         DOMAIN syTx'.entries \subseteq DOMAIN syTx.entries, DOMAIN syTx.entries \ {k} \subseteq DOMAIN syTx'.entries,
         \A j \in DOMAIN syTx'.entries : syTx'.entries[j] = syTx.entries[j],
         syKernel' \in [SY(b)!Knob -> [val : SetValue(b), id : b.identity, gen : Nat]],
         \A j \in SY(b)!Knob : syKernel'[j].id = syKernel[j].id /\ syKernel'[j].gen = syKernel[j].gen,
         \A j \in SY(b)!Knob \ {k} : syKernel'[j].val = syKernel[j].val,
         syKernel'[k].val = syKernel[k].val \/ syKernel'[k].val = syTx.entries[k].original,
         k \notin DOMAIN syTx'.entries => \/ syKernel'[k].val = syTx.entries[k].original
                                         \/ syKernel'[k].val # syTx.entries[k].managed
                                         \/ syTx.entries[k].original = syTx.entries[k].managed
  PROVE  SysctlInv(b)'
<1> USE DEF SysctlInv
<1>1. /\ SY(b)!Saved' = SY(b)!Saved /\ DOMAIN SY(b)!Saved \subseteq SY(b)!Knob /\ ~Fresh(b) /\ ~Fresh(b)' /\ syTx.knob \in SY(b)!Knob
      /\ \A j \in SY(b)!Knob : SY(b)!Owner(j)' = SY(b)!Owner(j)
  BY SavedFacts DEF SY!Saved, Fresh, Busy, Work, SY!Owner
<1>2. /\ k \in DOMAIN syTx.entries /\ k \in DOMAIN SY(b)!Saved /\ k \in SY(b)!Knob /\ syTx.entries[k].owners = {}
      /\ \A h \in syHeld : h[2] # k
  BY <1>1 DEF TxOrder, TxIsJournal, HeldIsOwned, Fresh
<1>3. SysctlTypes(b)'
  BY DEF SysctlTypes, Busy
<1>4. TxOrder(b)'
  BY DEF TxOrder, AcquirePc
<1>5. TxIsJournal(b)'
  BY <1>1 DEF TxIsJournal
<1>6. OwnersHold(b)'
  BY <1>1 DEF OwnersHold, OwnersWere, OwnersPin, SY!IsAlive
<1>7. PinsAreWitnesses(b)'
  BY <1>1 DEF PinsAreWitnesses, SY!Knob
<1>8. OpenFile(b)'
  BY <1>1 DEF OpenFile, SY!Knob
<1>9. HeldIsOwned(b)'
  BY <1>1, <1>2 DEF HeldIsOwned, SY!Owner
<1>10. NewIsNotHeld(b)' /\ CurrentIsRead(b)' /\ ClaimIsOwned(b)' /\ ApplyIsSaved(b)'
  BY DEF NewIsNotHeld, CurrentIsRead, ClaimIsOwned, ApplyIsSaved
<1>11. RecordIsBase(b)' /\ ValueIsKnown(b)'
  <2>1. RecordIsBase(b)'
    BY <1>1, <1>2 DEF RecordIsBase
  <2>2. k \notin syTouched => syTx.entries[k].original = SY(b)!Saved[k].original /\ SY(b)!Saved[k].original = syBase[k]
                             /\ syTx.entries[k].managed = SY(b)!Saved[k].managed
    BY <1>1, <1>2 DEF RecordIsBase, TxIsJournal
  <2>3. ASSUME NEW j \in DOMAIN SY(b)!Saved, j \notin syTouched
        PROVE  /\ syKernel'[j].val = SY(b)!Saved[j].original \/ syKernel'[j].val = SY(b)!Saved[j].managed
               /\ j \notin DOMAIN syTx'.entries => syKernel'[j].val = syBase[j]
    <3>1. CASE j # k
      BY <1>1, <2>3, <3>1 DEF ValueIsKnown
    <3>2. CASE j = k
      BY <1>1, <1>2, <2>2, <2>3, <3>2 DEF ValueIsKnown
    <3> QED
      BY <3>1, <3>2
  <2> QED
    BY <1>1, <2>1, <2>3 DEF ValueIsKnown
<1>12. SY(b)!HeldValuesStay'
  <2>1. \A h \in syHeld : h[2] \in SY(b)!Knob /\ h[2] # k
    BY <1>2 DEF SysctlTypes
  <2> QED
    BY <2>1 DEF SY!HeldValuesStay
<1> QED
  BY <1>3, <1>4, <1>5, <1>6, <1>7, <1>8, <1>9, <1>10, <1>11, <1>12

LEMMA RestoreStep ==
  ASSUME NEW b, SysctlConstants(b), SysctlInv(b), NEW k \in SY(b)!Knob, SY(b)!RestoreIfOwned(k)
  PROVE  SysctlInv(b)'
<1> USE DEF SysctlInv
<1>1. /\ Busy(b) /\ syTx \in Work(b) /\ syTx.step \in {"pruning", "releasing"} /\ k \in syTx.todo
      /\ UNCHANGED <<syBoot, syDisk, syStarted, syAlive, syPinned, syHeld, syBase, syTouched, syMoves>>
  BY DEF SY!RestoreIfOwned, Busy, SysctlTypes
<1>2. /\ syTx.entries \in Journals(b) /\ DOMAIN syTx.entries \subseteq SY(b)!Knob /\ k \in DOMAIN syTx.entries
      /\ \A j \in DOMAIN syTx.entries : syTx.entries[j] \in EntryType(b)
  BY <1>1, JournalFacts DEF Work, TxOrder
<1>3. /\ syKernel' \in [SY(b)!Knob -> [val : SetValue(b), id : b.identity, gen : Nat]]
      /\ \A j \in SY(b)!Knob : syKernel'[j].id = syKernel[j].id /\ syKernel'[j].gen = syKernel[j].gen
      /\ \A j \in SY(b)!Knob \ {k} : syKernel'[j].val = syKernel[j].val
  <2> DEFINE put(v) == [syKernel EXCEPT ![k].val = v]
  <2>1. syKernel' = syKernel \/ syKernel' = put(syTx.entries[k].original) \/ syKernel' = put(syKernel[k].val)
    BY DEF SY!RestoreIfOwned
  <2>2. \A v \in SetValue(b) :
          /\ put(v) \in [SY(b)!Knob -> [val : SetValue(b), id : b.identity, gen : Nat]]
          /\ \A j \in SY(b)!Knob : put(v)[j].id = syKernel[j].id /\ put(v)[j].gen = syKernel[j].gen
          /\ \A j \in SY(b)!Knob \ {k} : put(v)[j].val = syKernel[j].val
    BY DEF SysctlTypes
  <2>3. syTx.entries[k].original \in SetValue(b) /\ syKernel[k].val \in SetValue(b)
        /\ syKernel \in [SY(b)!Knob -> [val : SetValue(b), id : b.identity, gen : Nat]]
    BY <1>2 DEF EntryType, SysctlTypes
  <2>4. CASE syKernel' = syKernel
    BY <2>3, <2>4
  <2>5. ASSUME NEW v \in SetValue(b), syKernel' = put(v)
        PROVE  /\ syKernel' \in [SY(b)!Knob -> [val : SetValue(b), id : b.identity, gen : Nat]]
               /\ \A j \in SY(b)!Knob : syKernel'[j].id = syKernel[j].id /\ syKernel'[j].gen = syKernel[j].gen
               /\ \A j \in SY(b)!Knob \ {k} : syKernel'[j].val = syKernel[j].val
    BY <2>2, <2>5
  <2> QED
    BY <2>1, <2>3, <2>4, <2>5
<1>4. /\ syTx' \in Work(b) /\ syTx'.step = syTx.step /\ syTx'.who = syTx.who /\ syTx'.op = syTx.op /\ syTx'.knob = syTx.knob
      /\ syTx'.id = syTx.id /\ syTx'.file = syTx.file /\ syTx'.todo = syTx.todo \ {k}
      /\ DOMAIN syTx'.entries \subseteq DOMAIN syTx.entries /\ DOMAIN syTx.entries \ {k} \subseteq DOMAIN syTx'.entries
      /\ \A j \in DOMAIN syTx'.entries : syTx'.entries[j] = syTx.entries[j]
  <2> DEFINE rest == SY(b)!Without(syTx.entries, k)
  <2>1. rest \in Journals(b) /\ DOMAIN rest = DOMAIN syTx.entries \ {k}
        /\ \A j \in DOMAIN rest : rest[j] = syTx.entries[j]
    <3>1. rest = [j \in DOMAIN syTx.entries \ {k} |-> syTx.entries[j]]
      BY DEF SY!Without, SY!Restrict
    <3> QED
      BY <1>2, <3>1, JournalFacts
  <2> HIDE DEF rest
  <2>2. syTx.todo \ {k} \subseteq SY(b)!Knob
    BY <1>1 DEF Work
  <2>3. CASE syTx' = [syTx EXCEPT !.entries = rest, !.todo = syTx.todo \ {k}]
    BY <1>1, <1>2, <2>1, <2>2, <2>3 DEF Work, AcquirePc
  <2>4. CASE syTx' = [syTx EXCEPT !.todo = syTx.todo \ {k}]
    BY <1>1, <1>2, <2>2, <2>4 DEF Work, AcquirePc
  <2> QED
    BY <2>3, <2>4 DEF SY!RestoreIfOwned, SY!Restored, SY!NotRestored, rest
<1>5. /\ syKernel'[k].val = syKernel[k].val \/ syKernel'[k].val = syTx.entries[k].original
      /\ k \notin DOMAIN syTx'.entries => \/ syKernel'[k].val = syTx.entries[k].original
                                         \/ syKernel'[k].val # syTx.entries[k].managed
                                         \/ syTx.entries[k].original = syTx.entries[k].managed
  <2> DEFINE rest == SY(b)!Without(syTx.entries, k)
             put(v) == [syKernel EXCEPT ![k].val = v]
  <2>1. \A v : put(v)[k].val = v
    BY DEF SysctlTypes
  <2>2. CASE UNCHANGED syKernel /\ (syTx.entries[k].original = syTx.entries[k].managed \/ ~SY(b)!MustWrite(k))
    BY <2>2 DEF SY!MustWrite
  <2>3. CASE syKernel' = put(syTx.entries[k].original)
    BY <2>1, <2>3
  <2>4. CASE (UNCHANGED syKernel \/ syKernel' = put(syTx.entries[k].original) \/ syKernel' = put(syKernel[k].val))
             /\ syTx' = [syTx EXCEPT !.todo = syTx.todo \ {k}]
    <3>1. k \in DOMAIN syTx'.entries
      BY <1>1, <1>2, <2>4 DEF Work
    <3> QED
      BY <2>1, <2>4, <3>1
  <2> HIDE DEF put
  <2> QED
    BY <2>2, <2>3, <2>4 DEF SY!RestoreIfOwned, SY!Restored, SY!NotRestored, put
<1> QED
  BY <1>1, <1>3, <1>4, <1>5, RestoreFrame DEF Busy

\* What a persist makes of the entries of a transaction.
LEMMA SaveFacts ==
  ASSUME NEW b, SysctlConstants(b), SysctlInv(b), Busy(b), NEW ok \in BOOLEAN, NEW written \in BOOLEAN, SY(b)!Save(ok, written)
  PROVE  /\ UNCHANGED <<syKernel, syBoot, syStarted, syAlive, syMoves>>
         /\ \/ UNCHANGED <<syDisk, syPinned, syBase, syTouched>> /\ SY(b)!Saved' = SY(b)!Saved /\ ~ok
            \/ /\ SY(b)!Saved' = syTx.entries /\ syDisk' = [boot |-> syBoot, entries |-> syTx.entries]
               /\ syPinned' \in [SY(b)!Knob -> SUBSET (Owned(b) \X Nat)]
               /\ \A k \in SY(b)!Knob :
                    /\ k \in b.link /\ k \in DOMAIN syTx.entries /\ k \notin DOMAIN SY(b)!Saved =>
                         syPinned'[k] = {<<SY(b)!Owner(syTx.who), syTx.file>>}
                    /\ k \in DOMAIN SY(b)!Saved /\ k \notin DOMAIN syTx.entries => syPinned'[k] = {}
                    /\ ~(k \in b.link /\ k \in DOMAIN syTx.entries /\ k \notin DOMAIN SY(b)!Saved)
                       /\ ~(k \in DOMAIN SY(b)!Saved /\ k \notin DOMAIN syTx.entries) => syPinned'[k] = syPinned[k]
               /\ syBase' \in [SY(b)!Knob -> SetValue(b)]
               /\ \A k \in SY(b)!Knob : syBase'[k] = IF k \in (DOMAIN SY(b)!Saved \ DOMAIN syTx.entries) \cap syTouched THEN syKernel[k].val ELSE syBase[k]
               /\ syTouched' = syTouched \ (DOMAIN SY(b)!Saved \ DOMAIN syTx.entries)
<1> USE DEF SysctlInv
<1> DEFINE lost == DOMAIN SY(b)!Saved \ DOMAIN syTx.entries
           new == (DOMAIN syTx.entries \ DOMAIN SY(b)!Saved) \cap b.link
<1>1. UNCHANGED <<syKernel, syBoot, syStarted, syAlive, syMoves>>
  BY DEF SY!Save
<1>2. CASE ~written
  BY <1>1, <1>2 DEF SY!Save, SY!Saved
<1>3. CASE written
  <2>1. /\ syDisk' = [boot |-> syBoot, entries |-> syTx.entries]
        /\ syPinned' = [k \in SY(b)!Knob |-> IF k \in new THEN {<<SY(b)!Owner(syTx.who), syTx.file>>}
                                     ELSE IF k \in lost THEN {} ELSE syPinned[k]]
        /\ syBase' = [k \in SY(b)!Knob |-> IF k \in lost \cap syTouched THEN syKernel[k].val ELSE syBase[k]]
        /\ syTouched' = syTouched \ lost
    BY <1>3 DEF SY!Save
  <2>2. SY(b)!Saved' = syTx.entries
    BY <1>1, <2>1 DEF SY!Saved
  <2>3. <<SY(b)!Owner(syTx.who), syTx.file>> \in Owned(b) \X Nat
    BY DEF Busy, Work, SY!Owner, Owned, SysctlTypes
  <2>4. syPinned' \in [SY(b)!Knob -> SUBSET (Owned(b) \X Nat)] /\ syBase' \in [SY(b)!Knob -> SetValue(b)]
    BY <2>1, <2>3 DEF SysctlTypes
  <2>5. \A k \in SY(b)!Knob :
          /\ k \in new => syPinned'[k] = {<<SY(b)!Owner(syTx.who), syTx.file>>}
          /\ k \notin new /\ k \in lost => syPinned'[k] = {}
          /\ k \notin new /\ k \notin lost => syPinned'[k] = syPinned[k]
    BY <2>1
  <2>6. \A k \in SY(b)!Knob : syBase'[k] = IF k \in lost \cap syTouched THEN syKernel[k].val ELSE syBase[k]
    BY <2>1
  <2> QED
    BY <1>1, <2>1, <2>2, <2>4, <2>5, <2>6
<1> QED
  BY <1>1, <1>2, <1>3

\* The journal becomes what the transaction has made of it, and the transaction goes on or ends.
LEMMA SaveFrame ==
  ASSUME NEW b, SysctlConstants(b), SysctlInv(b), Busy(b), syTx.step \in {"pruning", "record", "undo", "releasing"},
         syTx.step \in {"pruning", "releasing"} => syTx.todo = {},
         UNCHANGED <<syKernel, syBoot, syStarted, syAlive, syMoves>>,
         SY(b)!Saved' = syTx.entries, syDisk' = [boot |-> syBoot, entries |-> syTx.entries],
         syPinned' \in [SY(b)!Knob -> SUBSET (Owned(b) \X Nat)],
         \A k \in SY(b)!Knob : k \in b.link /\ k \in DOMAIN syTx.entries /\ k \notin DOMAIN SY(b)!Saved =>
                         syPinned'[k] = {<<SY(b)!Owner(syTx.who), syTx.file>>},
         \A k \in SY(b)!Knob : k \in DOMAIN SY(b)!Saved /\ k \in DOMAIN syTx.entries => syPinned'[k] = syPinned[k],
         syBase' \in [SY(b)!Knob -> SetValue(b)], syTouched' \subseteq syTouched,
         \A k \in SY(b)!Knob : k \in DOMAIN SY(b)!Saved /\ k \notin DOMAIN syTx.entries /\ k \in syTouched => syBase'[k] = syKernel[k].val,
         \A k \in SY(b)!Knob : ~(k \in DOMAIN SY(b)!Saved /\ k \notin DOMAIN syTx.entries /\ k \in syTouched) => syBase'[k] = syBase[k],
         \A k \in syTouched : ~(k \in DOMAIN SY(b)!Saved /\ k \notin DOMAIN syTx.entries) => k \in syTouched',
         syTx' = SY(b)!Idle \/ syTx' \in Work(b),
         Busy(b)' => /\ syTx'.who = syTx.who /\ syTx'.op = syTx.op /\ syTx'.knob = syTx.knob /\ syTx'.val = syTx.val
                     /\ syTx'.entries = syTx.entries /\ syTx'.todo = syTx.todo /\ syTx'.id = syTx.id /\ syTx'.file = syTx.file
                     /\ syTx'.new = syTx.new,
         Busy(b)' => syTx.step \in {"pruning", "record"},
         Busy(b)' /\ syTx.step = "pruning" => syTx'.step = syTx.op,
         Busy(b)' /\ syTx.step = "record" => syTx'.step = "apply",
         syHeld \subseteq syHeld',
         \A h \in syHeld' : h \in syHeld \/ (/\ h = <<syTx.who, syTx.knob, syTx.val>>
                                             /\ ~Busy(b)' /\ syTx.step = "record" /\ syTx.cur = syTx.val)
  PROVE  SysctlInv(b)'
<1> USE DEF SysctlInv
<1>1. /\ syTx \in Work(b) /\ syTx.knob \in SY(b)!Knob /\ syTx.entries \in Journals(b) /\ DOMAIN syTx.entries \subseteq SY(b)!Knob
      /\ DOMAIN SY(b)!Saved \subseteq SY(b)!Knob /\ syTx.who \in b.process /\ syTx.who \in syAlive /\ syTx.val \in SetValue(b)
      /\ syTx.op \in {"acquire", "release", "recover"} /\ syTx.file \in Nat
  BY JournalFacts, SavedFacts DEF Busy, Work, TxOrder
<1> DEFINE mine == <<SY(b)!Owner(syTx.who), syTx.file>>
<1>0. mine[1] = SY(b)!Owner(syTx.who) /\ mine[2] = syTx.file
      /\ \A k \in SY(b)!Knob : k \in b.link /\ k \in DOMAIN syTx.entries /\ k \notin DOMAIN SY(b)!Saved => syPinned'[k] = {mine}
  OBVIOUS
<1> HIDE DEF mine
<1>2. /\ ~Fresh(b)' /\ (Busy(b)' => syTx'.step \in {"acquire", "release", "recover", "apply"})
      /\ \A k \in DOMAIN syTx.entries : k \notin DOMAIN SY(b)!Saved => k = syTx.knob /\ Fresh(b)
  <2>1. Busy(b)' => syTx'.step \in {"acquire", "release", "recover", "apply"}
    BY <1>1
  <2>2. \A k \in DOMAIN syTx.entries : k \notin DOMAIN SY(b)!Saved => k = syTx.knob /\ Fresh(b)
    BY DEF TxIsJournal
  <2>3. syTx' = SY(b)!Idle => ~Fresh(b)'
    BY DEF Fresh, SY!Idle
  <2>4. syTx' \in Work(b) => ~Fresh(b)'
    BY <2>1 DEF Fresh, Busy
  <2> QED
    BY <2>1, <2>2, <2>3, <2>4
<1>3. SysctlTypes(b)'
  <2>1. syHeld' \subseteq b.process \X SY(b)!Knob \X SetValue(b)
    BY <1>1 DEF SysctlTypes
  <2>2. syDisk' \in [boot : Nat, entries : Journals(b)] /\ syDisk'.boot <= syBoot'
    BY <1>1 DEF SysctlTypes
  <2> QED
    BY <2>1, <2>2 DEF SysctlTypes
<1>4. TxOrder(b)'
  BY <1>1, <1>2 DEF TxOrder, AcquirePc
<1>5. TxIsJournal(b)'
  BY <1>1, <1>2 DEF TxIsJournal
<1>6. OwnersHold(b)'
  <2>1. OwnersWere(SY(b)!Saved)' /\ (Busy(b)' => OwnersWere(syTx.entries)')
    BY DEF OwnersHold, OwnersWere
  <2>2. ASSUME NEW k \in DOMAIN syTx.entries, k \in b.link, NEW o \in syTx.entries[k].owners, SY(b)!IsAlive(o)
        PROVE  \E pin \in syPinned'[k] : pin[1] = o
    <3>1. CASE k \in DOMAIN SY(b)!Saved
      BY <1>1, <2>2, <3>1 DEF OwnersHold, OwnersPin
    <3>2. CASE k \notin DOMAIN SY(b)!Saved
      BY <1>0, <1>1, <1>2, <2>2, <3>2 DEF OwnersHold
    <3> QED
      BY <3>1, <3>2
  <2>3. \A o : SY(b)!IsAlive(o)' = SY(b)!IsAlive(o)
    BY DEF SY!IsAlive
  <2> QED
    BY <1>2, <2>1, <2>2, <2>3 DEF OwnersHold, OwnersPin
<1>7. PinsAreWitnesses(b)'
  <2>1. ASSUME NEW k \in DOMAIN syTx.entries, k \in DOMAIN SY(b)!Saved
        PROVE  syTx.entries[k].gen = SY(b)!Saved[k].gen /\ syTx.entries[k].id = SY(b)!Saved[k].id /\ k \in SY(b)!Knob
               /\ syPinned'[k] = syPinned[k]
    BY <1>1, <2>1 DEF TxIsJournal, Fresh
  <2>2. ASSUME NEW k \in DOMAIN syTx.entries, k \notin DOMAIN SY(b)!Saved, k \in b.link
        PROVE  /\ syPinned'[k] = {mine} /\ mine[2] = syTx.file /\ syTx.file = syTx.entries[k].gen
               /\ syKernel[k].id = syTx.entries[k].id => syKernel[k].gen = syTx.file
    BY <1>0, <1>1, <1>2, <2>2 DEF OpenFile, Fresh
  <2>3. ASSUME NEW k \in DOMAIN syTx.entries, k \notin DOMAIN SY(b)!Saved, k \in b.global
        PROVE  syTx.entries[k].gen = syKernel[k].gen
    BY <1>1, <1>2, <2>3 DEF OpenFile
  <2> QED
    BY <2>1, <2>2, <2>3 DEF PinsAreWitnesses
<1>8. OpenFile(b)'
  <2> SUFFICES ASSUME Busy(b)'
               PROVE  OpenFile(b)'
    BY DEF OpenFile
  <2>1. CASE syTx.step = "pruning"
    <3>1. syTx'.step \notin {"witness", "claim", "record", "apply", "undo"} /\ syTx'.id = 0
      BY <1>1, <2>1 DEF TxOrder
    <3> QED
      BY <1>2, <3>1 DEF OpenFile
  <2>2. CASE syTx.step = "record"
    <3>1. /\ syTx.knob \in DOMAIN syTx.entries /\ syTx'.step = "apply"
          /\ syTx.knob \in b.link => syTx.file = syTx.entries[syTx.knob].gen
      BY <2>2 DEF TxOrder, OpenFile
    <3>2. syTx.knob \in b.link => \E pin \in syPinned'[syTx.knob] : pin[1] = SY(b)!Owner(syTx.who)
      <4>1. CASE syTx.knob \in DOMAIN SY(b)!Saved
        BY <1>1, <2>2, <3>1, <4>1 DEF OpenFile
      <4>2. CASE syTx.knob \notin DOMAIN SY(b)!Saved
        BY <1>0, <1>1, <3>1, <4>2
      <4> QED
        BY <4>1, <4>2
    <3>3. SY(b)!Owner(syTx.who)' = SY(b)!Owner(syTx.who)
      BY DEF SY!Owner
    <3>4. syTx.knob \in b.link /\ syTx.id # 0 => syTx.file <= syKernel[syTx.knob].gen /\ (syKernel[syTx.knob].id = syTx.id <=> syKernel[syTx.knob].gen = syTx.file)
      BY DEF OpenFile
    <3> QED
      BY <1>2, <3>1, <3>2, <3>3, <3>4 DEF OpenFile
  <2> QED
    BY <2>1, <2>2
<1>9. HeldIsOwned(b)'
  <2>1. ASSUME NEW h \in syHeld
        PROVE  /\ h[1] \in syAlive /\ h[2] \in DOMAIN syTx.entries /\ syTx.entries[h[2]].managed = h[3]
               /\ SY(b)!Owner(h[1]) \in syTx.entries[h[2]].owners
    BY <2>1 DEF HeldIsOwned, TxIsJournal, Fresh
  <2>2. ASSUME syTx.step = "record"
        PROVE  syTx.knob \in DOMAIN syTx.entries /\ syTx.entries[syTx.knob].managed = syTx.val
               /\ SY(b)!Owner(syTx.who) \in syTx.entries[syTx.knob].owners
    BY <2>2 DEF TxOrder, ClaimIsOwned
  <2>3. \A p : SY(b)!Owner(p)' = SY(b)!Owner(p)
    BY DEF SY!Owner
  <2> QED
    BY <1>1, <2>1, <2>2, <2>3 DEF HeldIsOwned
<1>10. NewIsNotHeld(b)'
  BY <1>1, <1>2 DEF NewIsNotHeld
<1>11. RecordIsBase(b)' /\ ValueIsKnown(b)'
  <2>1. ASSUME NEW k \in SY(b)!Knob, k \notin syTouched', k \in DOMAIN syTx.entries
        PROVE  syTx.entries[k].original = syBase'[k] /\ syTx.entries[k].gen = syKernel[k].gen
    <3>1. k \notin syTouched /\ syBase'[k] = syBase[k]
      BY <2>1
    <3> QED
      BY <1>2, <2>1, <3>1 DEF RecordIsBase, TxIsJournal, Fresh
  <2>2. ASSUME NEW k \in SY(b)!Knob, k \notin syTouched', k \notin DOMAIN syTx.entries
        PROVE  syKernel[k].val = syBase'[k]
    <3>1. CASE k \in DOMAIN SY(b)!Saved /\ k \in syTouched
      BY <2>2, <3>1
    <3>2. CASE k \in DOMAIN SY(b)!Saved /\ k \notin syTouched
      BY <2>2, <3>2 DEF ValueIsKnown
    <3>3. CASE k \notin DOMAIN SY(b)!Saved
      BY <2>2, <3>3 DEF RecordIsBase
    <3> QED
      BY <3>1, <3>2, <3>3
  <2>3. RecordIsBase(b)'
    BY <1>2, <2>1, <2>2 DEF RecordIsBase
  <2>4. ASSUME NEW k \in DOMAIN syTx.entries, k \notin syTouched'
        PROVE  syKernel[k].val = syTx.entries[k].original \/ syKernel[k].val = syTx.entries[k].managed
    <3>1. k \notin syTouched /\ k \in SY(b)!Knob
      BY <1>1, <2>4
    <3>2. CASE k \in DOMAIN SY(b)!Saved
      BY <3>1, <3>2 DEF ValueIsKnown, TxIsJournal, Fresh
    <3>3. CASE k \notin DOMAIN SY(b)!Saved
      BY <1>1, <1>2, <2>4, <3>1, <3>3 DEF RecordIsBase
    <3> QED
      BY <3>2, <3>3
  <2>5. Busy(b)' => DOMAIN syTx'.entries = DOMAIN syTx.entries
    OBVIOUS
  <2>6. ValueIsKnown(b)'
    BY <2>4, <2>5 DEF ValueIsKnown
  <2> QED
    BY <2>3, <2>6
<1>12. CurrentIsRead(b)' /\ ClaimIsOwned(b)' /\ ApplyIsSaved(b)'
  BY <1>1, <1>2 DEF CurrentIsRead, ClaimIsOwned, ApplyIsSaved, SY!Owner, TxOrder
<1>13. SY(b)!HeldValuesStay'
  <2>1. ASSUME NEW h \in syHeld
        PROVE  h[2] \in syTouched' \/ syKernel[h[2]].val = h[3]
    BY <2>1 DEF SY!HeldValuesStay, HeldIsOwned
  <2>2. ASSUME syTx.step = "record", syTx.cur = syTx.val
        PROVE  syTx.knob \in syTouched' \/ syKernel[syTx.knob].val = syTx.val
    BY <2>2 DEF CurrentIsRead, TxOrder
  <2> QED
    BY <2>1, <2>2 DEF SY!HeldValuesStay
<1> QED
  BY <1>3, <1>4, <1>5, <1>6, <1>7, <1>8, <1>9, <1>10, <1>11, <1>12, <1>13

LEMMA PersistStep ==
  ASSUME NEW b, SysctlConstants(b), SysctlInv(b), NEW ok \in BOOLEAN, NEW written \in BOOLEAN,
         \/ SY(b)!PersistPruned(ok, written) \/ SY(b)!PersistClaim(ok, written)
         \/ SY(b)!PersistUndo(ok, written) \/ SY(b)!PersistRelease(ok, written)
  PROVE  SysctlInv(b)'
<1> USE DEF SysctlInv
<1>1. /\ Busy(b) /\ SY(b)!Save(ok, written) /\ syTx \in Work(b) /\ syTx.step \in {"pruning", "record", "undo", "releasing"}
      /\ syTx.step \in {"pruning", "releasing"} => syTx.todo = {}
  BY DEF SY!PersistPruned, SY!PersistClaim, SY!PersistUndo, SY!PersistRelease, Busy, SysctlTypes
<1>2. syTx.op \in {"acquire", "release", "recover"}
  BY <1>1 DEF Work
<1>3. syTx' = SY(b)!Idle \/ (syTx.step = "pruning" /\ syTx' = [syTx EXCEPT !.step = syTx.op] /\ ok)
      \/ (syTx.step = "record" /\ syTx' = [syTx EXCEPT !.step = "apply"] /\ ok)
  BY DEF SY!PersistPruned, SY!PersistClaim, SY!PersistUndo, SY!PersistRelease, SY!Step, SY!Fail
<1>4. syHeld' = syHeld \/ (syTx' = SY(b)!Idle /\ ok /\ syTx.step = "record" /\ syTx.cur = syTx.val
                           /\ syHeld' = syHeld \cup {<<syTx.who, syTx.knob, syTx.val>>})
  BY DEF SY!PersistPruned, SY!PersistClaim, SY!PersistUndo, SY!PersistRelease
<1>5. syTx' = SY(b)!Idle \/ syTx' \in Work(b)
  BY <1>1, <1>2, <1>3 DEF Work, AcquirePc
<1>6. Busy(b)' => /\ syTx'.who = syTx.who /\ syTx'.op = syTx.op /\ syTx'.knob = syTx.knob /\ syTx'.val = syTx.val
                  /\ syTx'.entries = syTx.entries /\ syTx'.todo = syTx.todo /\ syTx'.id = syTx.id /\ syTx'.file = syTx.file
                  /\ syTx'.new = syTx.new
  BY <1>1, <1>3, IdleIsNotWork DEF Busy, Work
<1>7. /\ Busy(b)' => syTx.step \in {"pruning", "record"}
      /\ Busy(b)' /\ syTx.step = "pruning" => syTx'.step = syTx.op
      /\ Busy(b)' /\ syTx.step = "record" => syTx'.step = "apply"
  BY <1>1, <1>3, IdleIsNotWork DEF Busy, Work
<1>8. syHeld \subseteq syHeld' /\ \A h \in syHeld' : h \in syHeld \/ (/\ h = <<syTx.who, syTx.knob, syTx.val>>
                                             /\ ~Busy(b)' /\ syTx.step = "record" /\ syTx.cur = syTx.val)
  BY <1>4, IdleIsNotWork DEF Busy
<1>9. CASE UNCHANGED <<syDisk, syPinned, syBase, syTouched>> /\ ~ok
  <2>1. syTx' = SY(b)!Idle /\ syHeld' = syHeld /\ UNCHANGED <<syKernel, syBoot, syStarted, syAlive, syMoves>>
    BY <1>1, <1>3, <1>4, <1>9, SaveFacts
  <2> QED
    BY <1>9, <2>1, TxEnds
<1> QED
  BY <1>1, <1>5, <1>6, <1>7, <1>8, <1>9, SaveFacts, SaveFrame

\* What a write does to the kernel: the value of one knob.
LEMMA ApplyStep ==
  ASSUME NEW b, SysctlConstants(b), SysctlInv(b), SY(b)!Apply
  PROVE  SysctlInv(b)'
<1> USE DEF SysctlInv
<1>1. /\ Busy(b) /\ syTx \in Work(b) /\ syTx.step = "apply" /\ syTx.op = "acquire" /\ syTx.knob \in SY(b)!Knob /\ syTx.val \in SetValue(b)
      /\ syTx.who \in b.process /\ syTx.who \in syAlive /\ syTx.entries \in Journals(b) /\ DOMAIN syTx.entries \subseteq SY(b)!Knob
      /\ \A k \in DOMAIN syTx.entries : syTx.entries[k] \in EntryType(b)
      /\ syTx.knob \in DOMAIN syTx.entries /\ syTx.entries[syTx.knob].managed = syTx.val /\ syTx.todo = {}
      /\ syTx.file \in Nat /\ syTx.new \in BOOLEAN
  <2>1. Busy(b) /\ syTx \in Work(b) /\ syTx.step = "apply"
    BY DEF SY!Apply, Busy, SysctlTypes
  <2> QED
    BY <2>1, JournalFacts DEF Work, TxOrder, AcquirePc
<1>2. /\ UNCHANGED <<syBoot, syDisk, syStarted, syAlive, syPinned, syBase, syTouched, syMoves>> /\ SY(b)!Saved' = SY(b)!Saved
      /\ DOMAIN syTx.entries = DOMAIN SY(b)!Saved /\ ~Fresh(b) /\ SY(b)!Saved[syTx.knob].managed = syTx.val
      /\ \A p : SY(b)!Owner(p)' = SY(b)!Owner(p)
  BY <1>1 DEF SY!Apply, SY!Saved, TxIsJournal, Fresh, SY!Owner
<1>3. /\ syKernel' \in [SY(b)!Knob -> [val : SetValue(b), id : b.identity, gen : Nat]]
      /\ \A j \in SY(b)!Knob : syKernel'[j].id = syKernel[j].id /\ syKernel'[j].gen = syKernel[j].gen
      /\ \A j \in SY(b)!Knob \ {syTx.knob} : syKernel'[j].val = syKernel[j].val
      /\ syKernel'[syTx.knob].val \in {syKernel[syTx.knob].val, syTx.val}
  <2> DEFINE put(v) == [syKernel EXCEPT ![syTx.knob].val = v]
  <2>1. syKernel' = syKernel \/ syKernel' = put(syTx.val) \/ syKernel' = put(syKernel[syTx.knob].val)
    BY DEF SY!Apply
  <2>2. ASSUME NEW v \in SetValue(b), syKernel' = put(v)
        PROVE  /\ syKernel' \in [SY(b)!Knob -> [val : SetValue(b), id : b.identity, gen : Nat]]
               /\ \A j \in SY(b)!Knob : syKernel'[j].id = syKernel[j].id /\ syKernel'[j].gen = syKernel[j].gen
               /\ \A j \in SY(b)!Knob \ {syTx.knob} : syKernel'[j].val = syKernel[j].val
               /\ syKernel'[syTx.knob].val = v
    BY <1>1, <2>2 DEF SysctlTypes
  <2>3. syKernel[syTx.knob].val \in SetValue(b) /\ syKernel \in [SY(b)!Knob -> [val : SetValue(b), id : b.identity, gen : Nat]]
    BY <1>1 DEF SysctlTypes
  <2>4. CASE syKernel' = syKernel
    BY <2>3, <2>4
  <2> QED
    BY <1>1, <2>1, <2>2, <2>3, <2>4
<1>4. \A h \in syHeld : h[2] \in syTouched \/ syKernel'[h[2]].val = h[3]
  <2>1. ASSUME NEW h \in syHeld
        PROVE  h[2] \in syTouched \/ syKernel'[h[2]].val = h[3]
    <3>1. h[2] \in SY(b)!Knob /\ SY(b)!Saved[h[2]].managed = h[3] /\ (h[2] \in syTouched \/ syKernel[h[2]].val = h[3])
      BY <2>1 DEF SY!HeldValuesStay, HeldIsOwned, SysctlTypes
    <3> QED
      BY <1>2, <1>3, <3>1
  <2> QED
    BY <2>1
<1>5. PinsAreWitnesses(b)' /\ RecordIsBase(b)' /\ ValueIsKnown(b)'
  <2>1. PinsAreWitnesses(b)'
    BY <1>2, <1>3, SavedFacts DEF PinsAreWitnesses, SY!Knob
  <2>2. \A k \in SY(b)!Knob \ syTouched : k \notin DOMAIN SY(b)!Saved => syKernel'[k].val = syBase[k]
    BY <1>1, <1>2, <1>3 DEF RecordIsBase
  <2>3. \A k \in SY(b)!Knob \ syTouched : k \in DOMAIN SY(b)!Saved => SY(b)!Saved[k].original = syBase[k] /\ SY(b)!Saved[k].gen = syKernel'[k].gen
    BY <1>3 DEF RecordIsBase
  <2>4. Busy(b)' => ~Fresh(b)'
    <3>1. syTx' = SY(b)!Idle \/ syTx' = [syTx EXCEPT !.entries = SY(b)!Disown(syTx.knob), !.step = "undo"]
      BY DEF SY!Apply
    <3> QED
      BY <1>1, <3>1, IdleIsNotWork DEF Busy, Fresh, Work
  <2>5. Busy(b)' => DOMAIN syTx'.entries = DOMAIN syTx.entries
    <3>1. DOMAIN SY(b)!Disown(syTx.knob) = DOMAIN syTx.entries
      BY <1>1 DEF SY!Disown
    <3>2. syTx' = SY(b)!Idle \/ syTx' = [syTx EXCEPT !.entries = SY(b)!Disown(syTx.knob), !.step = "undo"]
      BY DEF SY!Apply
    <3> QED
      BY <1>1, <3>1, <3>2, IdleIsNotWork DEF Busy, Work
  <2>6. \A k \in DOMAIN SY(b)!Saved : k \notin syTouched =>
          syKernel'[k].val = SY(b)!Saved[k].original \/ syKernel'[k].val = SY(b)!Saved[k].managed
    BY <1>1, <1>2, <1>3 DEF ValueIsKnown
  <2>7. ValueIsKnown(b)'
    BY <1>2, <2>5, <2>6 DEF ValueIsKnown
  <2> QED
    BY <1>2, <2>1, <2>2, <2>3, <2>4, <2>7 DEF RecordIsBase
<1>6. CASE syTx' = SY(b)!Idle /\ syHeld' = syHeld \cup {<<syTx.who, syTx.knob, syTx.val>>} /\ syKernel' = [syKernel EXCEPT ![syTx.knob].val = syTx.val]
  <2>1. ~Busy(b)' /\ syKernel'[syTx.knob].val = syTx.val
    BY <1>1, <1>6, IdleIsNotWork DEF Busy, SysctlTypes
  <2> DEFINE mine == <<syTx.who, syTx.knob, syTx.val>>
  <2>2. mine[1] = syTx.who /\ mine[2] = syTx.knob /\ mine[3] = syTx.val /\ mine \in b.process \X SY(b)!Knob \X SetValue(b)
        /\ syHeld' = syHeld \cup {mine}
    BY <1>1, <1>6
  <2> HIDE DEF mine
  <2>3. SysctlTypes(b)'
    BY <1>2, <1>3, <1>6, <2>2 DEF SysctlTypes
  <2>4. OwnersHold(b)'
    BY <1>2, <2>1 DEF OwnersHold, OwnersWere, OwnersPin, SY!IsAlive
  <2>5. HeldIsOwned(b)'
    <3>1. SY(b)!Owner(syTx.who) \in SY(b)!Saved[syTx.knob].owners
      BY <1>1 DEF ApplyIsSaved
    <3> QED
      BY <1>1, <1>2, <2>1, <2>2, <3>1 DEF HeldIsOwned
  <2>6. SY(b)!HeldValuesStay'
    BY <1>2, <1>4, <2>1, <2>2 DEF SY!HeldValuesStay
  <2> QED
    BY <1>5, <2>1, <2>3, <2>4, <2>5, <2>6 DEF TxOrder, TxIsJournal, OpenFile, NewIsNotHeld, CurrentIsRead, ClaimIsOwned, ApplyIsSaved
<1>7. CASE syTx' = [syTx EXCEPT !.entries = SY(b)!Disown(syTx.knob), !.step = "undo"] /\ syHeld' = syHeld
  <2> DEFINE left == SY(b)!Disown(syTx.knob)
  <2>1. /\ left \in Journals(b) /\ DOMAIN left = DOMAIN syTx.entries
        /\ \A k \in DOMAIN syTx.entries : /\ left[k].original = syTx.entries[k].original
                                          /\ left[k].managed = syTx.entries[k].managed
                                          /\ left[k].id = syTx.entries[k].id /\ left[k].gen = syTx.entries[k].gen
                                          /\ left[k].owners \subseteq syTx.entries[k].owners
                                          /\ k # syTx.knob \/ ~syTx.new => left[k].owners = syTx.entries[k].owners
        /\ \A o \in syTx.entries[syTx.knob].owners : o # SY(b)!Owner(syTx.who) => o \in left[syTx.knob].owners
    <3> DEFINE less == [syTx.entries[syTx.knob] EXCEPT !.owners = @ \ {SY(b)!Owner(syTx.who)}]
    <3>1. left = IF syTx.new THEN [syTx.entries EXCEPT ![syTx.knob] = less] ELSE syTx.entries
      BY DEF SY!Disown
    <3>2. /\ less \in EntryType(b) /\ less.owners = syTx.entries[syTx.knob].owners \ {SY(b)!Owner(syTx.who)}
          /\ less.original = syTx.entries[syTx.knob].original /\ less.managed = syTx.entries[syTx.knob].managed
          /\ less.id = syTx.entries[syTx.knob].id /\ less.gen = syTx.entries[syTx.knob].gen
      BY <1>1 DEF EntryType
    <3> HIDE DEF less, left
    <3>3. left \in Journals(b) /\ DOMAIN left = DOMAIN syTx.entries /\ \A k \in DOMAIN left : k # syTx.knob \/ ~syTx.new => left[k] = syTx.entries[k]
      BY <1>1, <3>1, <3>2, JournalFacts
    <3>4. syTx.new => left[syTx.knob] = less
      BY <1>1, <3>1
    <3> QED
      BY <1>1, <3>2, <3>3, <3>4
  <2> HIDE DEF left
  <2>2. /\ syTx' \in Work(b) /\ syTx'.step = "undo" /\ syTx'.who = syTx.who /\ syTx'.op = syTx.op /\ syTx'.knob = syTx.knob
        /\ syTx'.val = syTx.val /\ syTx'.todo = {} /\ syTx'.id = syTx.id /\ syTx'.file = syTx.file /\ syTx'.entries = left
        /\ syTx'.new = syTx.new
    BY <1>1, <1>7, <2>1 DEF left, Work, AcquirePc
  <2>3. SysctlTypes(b)'
    BY <1>2, <1>3, <1>7, <2>2 DEF SysctlTypes
  <2>4. TxOrder(b)' /\ TxIsJournal(b)'
    BY <1>1, <1>2, <2>1, <2>2 DEF TxOrder, TxIsJournal, AcquirePc
  <2>5. OwnersHold(b)'
    <3>1. OwnersWere(SY(b)!Saved)' /\ \A k \in DOMAIN SY(b)!Saved \cap b.link : OwnersPin(b, SY(b)!Saved, k)'
      BY <1>2 DEF OwnersHold, OwnersWere, OwnersPin, SY!IsAlive
    <3>2. \A k \in DOMAIN left : \A o \in left[k].owners : o[2] <= syStarted[o[1]]
      BY <1>1, <2>1 DEF OwnersHold, OwnersWere
    <3>3. \A k \in DOMAIN left \cap b.link : \A o \in left[k].owners : SY(b)!IsAlive(o) => \E pin \in syPinned[k] : pin[1] = o
      BY <1>1, <1>2, <2>1 DEF OwnersHold, OwnersPin
    <3>4. ~Fresh(b)'
      BY <2>2 DEF Fresh
    <3> QED
      BY <1>2, <2>2, <3>1, <3>2, <3>3, <3>4 DEF OwnersHold, OwnersWere, OwnersPin, SY!IsAlive
  <2>6. OpenFile(b)'
    <3>1. /\ syKernel'[syTx.knob].id = syKernel[syTx.knob].id /\ syKernel'[syTx.knob].gen = syKernel[syTx.knob].gen
          /\ left[syTx.knob].gen = syTx.entries[syTx.knob].gen /\ ~Fresh(b)' /\ SY(b)!Owner(syTx.who)' = SY(b)!Owner(syTx.who)
      BY <1>1, <1>2, <1>3, <2>1, <2>2 DEF Fresh
    <3> QED
      BY <1>1, <1>2, <2>1, <2>2, <3>1 DEF OpenFile
  <2>7. HeldIsOwned(b)'
    <3>1. ASSUME NEW h \in syHeld
          PROVE  h[2] \in DOMAIN left /\ SY(b)!Owner(h[1]) \in left[h[2]].owners
      <4>1. /\ h[2] \in DOMAIN syTx.entries /\ SY(b)!Owner(h[1]) \in syTx.entries[h[2]].owners
            /\ syTx.new => ~(h[1] = syTx.who /\ h[2] = syTx.knob)
        BY <1>1, <3>1 DEF HeldIsOwned, NewIsNotHeld
      <4>2. h[1] # syTx.who => SY(b)!Owner(h[1]) # SY(b)!Owner(syTx.who)
        BY DEF SY!Owner
      <4> QED
        BY <2>1, <4>1, <4>2
    <3> QED
      BY <1>2, <1>7, <2>2, <3>1 DEF HeldIsOwned
  <2>8. NewIsNotHeld(b)' /\ CurrentIsRead(b)' /\ ClaimIsOwned(b)' /\ ApplyIsSaved(b)' /\ SY(b)!HeldValuesStay'
    BY <1>1, <1>2, <1>4, <1>7, <2>2 DEF NewIsNotHeld, CurrentIsRead, ClaimIsOwned, ApplyIsSaved, SY!HeldValuesStay
  <2> QED
    BY <1>5, <2>3, <2>4, <2>5, <2>6, <2>7, <2>8
<1> QED
  BY <1>6, <1>7 DEF SY!Apply

LEMMA ProcessStep ==
  ASSUME NEW b, SysctlConstants(b), SysctlInv(b), NEW p \in b.process, SY(b)!Start(p)
  PROVE  SysctlInv(b)'
<1> USE DEF SysctlInv
<1>1. /\ p \notin syAlive /\ syAlive' = syAlive \cup {p} /\ syStarted' \in [b.process -> Nat]
      /\ syStarted'[p] = syStarted[p] + 1 /\ \A q \in b.process \ {p} : syStarted'[q] = syStarted[q]
      /\ UNCHANGED <<syKernel, syBoot, syDisk, syPinned, syTx, syHeld, syBase, syTouched, syMoves>>
  BY DEF SY!Start, SysctlTypes
<1>2. /\ SY(b)!Saved' = SY(b)!Saved /\ DOMAIN SY(b)!Saved \subseteq SY(b)!Knob /\ (Busy(b)' <=> Busy(b)) /\ (Fresh(b)' <=> Fresh(b))
      /\ \A k \in DOMAIN SY(b)!Saved : SY(b)!Saved[k].owners \subseteq Owned(b)
  BY <1>1, SavedFacts DEF SY!Saved, Busy, Fresh, EntryType
<1>3. Busy(b) => /\ syTx.who \in b.process /\ syTx.who # p /\ syTx.entries \in Journals(b)
                 /\ \A k \in DOMAIN syTx.entries : syTx.entries[k].owners \subseteq Owned(b)
  BY <1>1, JournalFacts DEF Busy, Work, TxOrder, EntryType
<1>4. /\ \A q \in b.process \ {p} : SY(b)!Owner(q)' = SY(b)!Owner(q)
      /\ \A o \in Owned(b) : o[2] <= syStarted[o[1]] => (SY(b)!IsAlive(o)' => SY(b)!IsAlive(o)) /\ o[2] <= syStarted'[o[1]]
  BY <1>1 DEF SY!Owner, SY!IsAlive, Owned, SysctlTypes
<1>5. SysctlTypes(b)' /\ TxOrder(b)' /\ TxIsJournal(b)'
  BY <1>1, <1>2, <1>3 DEF SysctlTypes, TxOrder, TxIsJournal
<1>6. OwnersHold(b)'
  <2>1. OwnersWere(SY(b)!Saved)' /\ \A k \in DOMAIN SY(b)!Saved \cap b.link : OwnersPin(b, SY(b)!Saved, k)'
    BY <1>1, <1>2, <1>4 DEF OwnersHold, OwnersWere, OwnersPin
  <2>2. ASSUME Busy(b)
        PROVE  OwnersWere(syTx.entries)' /\ \A k \in DOMAIN syTx.entries \cap b.link : k \in DOMAIN SY(b)!Saved => OwnersPin(b, syTx.entries, k)'
    BY <1>1, <1>3, <1>4, <2>2 DEF OwnersHold, OwnersWere, OwnersPin
  <2>3. Busy(b) /\ Fresh(b) => syTx.entries[syTx.knob].owners = {SY(b)!Owner(syTx.who)'}
    BY <1>1, <1>3, <1>4 DEF OwnersHold, SY!Owner
  <2> QED
    BY <1>1, <1>2, <2>1, <2>2, <2>3 DEF OwnersHold, SY!Owner
<1>7. PinsAreWitnesses(b)' /\ RecordIsBase(b)' /\ ValueIsKnown(b)' /\ CurrentIsRead(b)' /\ SY(b)!HeldValuesStay' /\ NewIsNotHeld(b)'
  BY <1>1, <1>2 DEF PinsAreWitnesses, RecordIsBase, ValueIsKnown, CurrentIsRead, SY!HeldValuesStay, NewIsNotHeld
<1>8. OpenFile(b)' /\ ClaimIsOwned(b)' /\ ApplyIsSaved(b)'
  <2>1. Busy(b) => SY(b)!Owner(syTx.who)' = SY(b)!Owner(syTx.who)
    BY <1>1, <1>3 DEF SY!Owner
  <2> QED
    BY <1>1, <1>2, <2>1 DEF OpenFile, ClaimIsOwned, ApplyIsSaved, SY!Owner
<1>9. HeldIsOwned(b)'
  <2>1. \A h \in syHeld : h[1] \in b.process /\ h[1] # p /\ SY(b)!Owner(h[1])' = SY(b)!Owner(h[1])
    BY <1>1, <1>4 DEF HeldIsOwned, SysctlTypes
  <2> QED
    BY <1>1, <1>2, <2>1 DEF HeldIsOwned, SY!Owner
<1> QED
  BY <1>5, <1>6, <1>7, <1>8, <1>9

LEMMA KillStep ==
  ASSUME NEW b, SysctlConstants(b), SysctlInv(b), NEW p \in b.process, SY(b)!Kill(p)
  PROVE  SysctlInv(b)'
<1> USE DEF SysctlInv
<1>1. /\ syAlive' = syAlive \ {p} /\ syHeld' \subseteq syHeld /\ (\A h \in syHeld' : h[1] # p)
      /\ syPinned' = [k \in SY(b)!Knob |-> syPinned[k] \ SY(b)!Pins(k, p)]
      /\ UNCHANGED <<syKernel, syBoot, syDisk, syStarted, syBase, syTouched, syMoves>>
  BY DEF SY!Kill
<1>2. /\ syPinned' \in [SY(b)!Knob -> SUBSET (Owned(b) \X Nat)]
      /\ \A k \in SY(b)!Knob : syPinned'[k] \subseteq syPinned[k] /\ \A pin \in syPinned[k] : pin[1] # SY(b)!Owner(p) => pin \in syPinned'[k]
  BY <1>1 DEF SysctlTypes, SY!Pins
<1>3. SY(b)!Saved' = SY(b)!Saved /\ DOMAIN SY(b)!Saved \subseteq SY(b)!Knob /\ \A q : SY(b)!Owner(q)' = SY(b)!Owner(q)
  BY <1>1, SavedFacts DEF SY!Saved, SY!Owner
<1>4. /\ syTx' = SY(b)!Idle \/ (syTx' = syTx /\ (Busy(b) => syTx.who # p))
      /\ Busy(b)' => syTx' = syTx /\ Busy(b) /\ syTx.who # p
  <2>1. syTx' = SY(b)!Idle \/ (syTx' = syTx /\ (Busy(b) => syTx.who # p))
    BY IdleIsNotWork DEF SY!Kill, Busy
  <2> QED
    BY <2>1, IdleIsNotWork DEF Busy
<1>5. \A o : SY(b)!IsAlive(o)' => SY(b)!IsAlive(o) /\ o[1] # p /\ o # SY(b)!Owner(p)
  BY <1>1 DEF SY!IsAlive, SY!Owner
<1>6. Busy(b)' => (Fresh(b)' <=> Fresh(b)) /\ syTx.who \in b.process /\ syTx.knob \in SY(b)!Knob /\ DOMAIN syTx.entries \subseteq SY(b)!Knob
               /\ SY(b)!Owner(syTx.who) # SY(b)!Owner(p)
  BY <1>3, <1>4, JournalFacts DEF Fresh, SY!Owner, Busy, Work
<1>7. SysctlTypes(b)' /\ TxOrder(b)' /\ TxIsJournal(b)'
  BY <1>1, <1>2, <1>3, <1>4, <1>6 DEF SysctlTypes, TxOrder, TxIsJournal
<1>8. OwnersHold(b)'
  <2>1. OwnersWere(SY(b)!Saved)' /\ \A k \in DOMAIN SY(b)!Saved \cap b.link : OwnersPin(b, SY(b)!Saved, k)'
    <3>1. OwnersWere(SY(b)!Saved)'
      BY <1>1, <1>3 DEF OwnersHold, OwnersWere
    <3>2. ASSUME NEW k \in DOMAIN SY(b)!Saved \cap b.link, NEW o \in SY(b)!Saved[k].owners, SY(b)!IsAlive(o)'
          PROVE  \E pin \in syPinned'[k] : pin[1] = o
      <4>1. PICK pin \in syPinned[k] : pin[1] = o
        BY <1>5, <3>2 DEF OwnersHold, OwnersPin
      <4> QED
        BY <1>2, <1>3, <1>5, <3>2, <4>1
    <3> QED
      BY <1>3, <3>1, <3>2 DEF OwnersPin
  <2>2. ASSUME Busy(b)'
        PROVE  OwnersWere(syTx.entries)' /\ \A k \in DOMAIN syTx.entries \cap b.link : k \in DOMAIN SY(b)!Saved => OwnersPin(b, syTx.entries, k)'
    <3>1. Busy(b) /\ syTx' = syTx
      BY <1>4, <2>2
    <3>2. OwnersWere(syTx.entries)'
      BY <1>1, <3>1 DEF OwnersHold, OwnersWere
    <3>3. ASSUME NEW k \in DOMAIN syTx.entries \cap b.link, k \in DOMAIN SY(b)!Saved, NEW o \in syTx.entries[k].owners, SY(b)!IsAlive(o)'
          PROVE  \E pin \in syPinned'[k] : pin[1] = o
      <4>1. PICK pin \in syPinned[k] : pin[1] = o
        BY <1>5, <3>1, <3>3 DEF OwnersHold, OwnersPin
      <4> QED
        BY <1>2, <1>3, <1>5, <3>3, <4>1
    <3> QED
      BY <3>1, <3>2, <3>3 DEF OwnersPin
  <2> QED
    BY <1>3, <1>4, <1>6, <2>1, <2>2 DEF OwnersHold
<1>9. PinsAreWitnesses(b)'
  BY <1>1, <1>2, <1>3 DEF PinsAreWitnesses
<1>10. OpenFile(b)' /\ ClaimIsOwned(b)' /\ ApplyIsSaved(b)'
  BY <1>1, <1>2, <1>3, <1>4, <1>6 DEF OpenFile, ClaimIsOwned, ApplyIsSaved
<1>11. HeldIsOwned(b)' /\ NewIsNotHeld(b)' /\ SY(b)!HeldValuesStay'
  BY <1>1, <1>3, <1>4 DEF HeldIsOwned, NewIsNotHeld, SY!HeldValuesStay
<1>12. RecordIsBase(b)' /\ ValueIsKnown(b)' /\ CurrentIsRead(b)'
  BY <1>1, <1>3, <1>4, <1>6 DEF RecordIsBase, ValueIsKnown, CurrentIsRead
<1> QED
  BY <1>7, <1>8, <1>9, <1>10, <1>11, <1>12

\* Somebody else writes knob k or replaces its interface.
LEMMA ForeignFrame ==
  ASSUME NEW b, SysctlConstants(b), SysctlInv(b), NEW k \in SY(b)!Knob, SY(b)!Foreign(k),
         syKernel' \in [SY(b)!Knob -> [val : SetValue(b), id : b.identity, gen : Nat]],
         \A j \in SY(b)!Knob \ {k} : syKernel'[j] = syKernel[j],
         UNCHANGED <<syBoot, syDisk, syStarted, syAlive, syPinned, syTx, syHeld>>,
         \/ syKernel'[k].id = syKernel[k].id /\ syKernel'[k].gen = syKernel[k].gen
         \/ k \in b.link /\ syKernel'[k].id \notin SY(b)!HeldOpen(k) /\ syKernel'[k].gen = syKernel[k].gen + 1
  PROVE  SysctlInv(b)'
<1> USE DEF SysctlInv
<1>1. SY(b)!Saved' = SY(b)!Saved /\ DOMAIN SY(b)!Saved \subseteq SY(b)!Knob /\ (Busy(b)' <=> Busy(b)) /\ (Fresh(b)' <=> Fresh(b)) /\ (syTx # SY(b)!Idle <=> Busy(b))
  BY SavedFacts, IdleIsNotWork DEF SY!Saved, Busy, Fresh, SysctlTypes
<1> DEFINE managed == k \in DOMAIN SY(b)!Saved \/ (syTx # SY(b)!Idle /\ (syTx.knob = k \/ k \in DOMAIN syTx.entries))
<1>2. /\ managed => syTouched' = syTouched \cup {k} /\ syBase' = syBase
      /\ ~managed => syTouched' = syTouched /\ syBase' = [syBase EXCEPT ![k] = syKernel'[k].val]
      /\ syMoves' = syMoves + 1
  BY DEF SY!Foreign
<1>3. /\ k \in DOMAIN SY(b)!Saved => k \in syTouched'
      /\ Busy(b) /\ (syTx.knob = k \/ k \in DOMAIN syTx.entries) => k \in syTouched'
      /\ syTouched \subseteq syTouched' /\ syTouched' \subseteq syTouched \cup {k}
      /\ syBase' \in [SY(b)!Knob -> SetValue(b)] /\ \A j \in SY(b)!Knob \ {k} : syBase'[j] = syBase[j]
      /\ k \in syTouched' \/ syBase'[k] = syKernel'[k].val
  BY <1>1, <1>2 DEF SysctlTypes
<1> HIDE DEF managed
<1>4. SysctlTypes(b)' /\ TxOrder(b)' /\ TxIsJournal(b)'
  BY <1>1, <1>2, <1>3 DEF SysctlTypes, TxOrder, TxIsJournal
<1>5. OwnersHold(b)' /\ ClaimIsOwned(b)' /\ ApplyIsSaved(b)' /\ HeldIsOwned(b)' /\ NewIsNotHeld(b)'
  BY <1>1 DEF OwnersHold, OwnersWere, OwnersPin, SY!IsAlive, SY!Owner, ClaimIsOwned, ApplyIsSaved, HeldIsOwned, NewIsNotHeld
<1>6. ASSUME syKernel'[k].id = syKernel[k].id, syKernel'[k].gen = syKernel[k].gen
      PROVE  PinsAreWitnesses(b)' /\ OpenFile(b)'
  <2>1. \A j \in SY(b)!Knob : syKernel'[j].id = syKernel[j].id /\ syKernel'[j].gen = syKernel[j].gen
    BY <1>6
  <2>2. PinsAreWitnesses(b)'
    BY <1>1, <2>1 DEF PinsAreWitnesses, SY!Knob
  <2>3. OpenFile(b)'
    BY <1>1, <2>1 DEF OpenFile, SY!Knob, SY!Owner
  <2> QED
    BY <2>2, <2>3
<1>7. ASSUME k \in b.link, syKernel'[k].id \notin SY(b)!HeldOpen(k), syKernel'[k].gen = syKernel[k].gen + 1
      PROVE  PinsAreWitnesses(b)' /\ OpenFile(b)'
  <2>1. /\ k \in DOMAIN SY(b)!Saved /\ syPinned[k] # {} => syKernel'[k].id # SY(b)!Saved[k].id
        /\ Busy(b) /\ syTx.knob = k /\ syTx.id # 0 => syKernel'[k].id # syTx.id
    BY <1>1, <1>7 DEF SY!HeldOpen
  <2>2. PinsAreWitnesses(b)'
    BY <1>1, <1>7, <2>1 DEF PinsAreWitnesses, SY!Knob, SysctlConstants
  <2>3. Busy(b) => (syTx.knob \in b.link /\ syTx.id # 0 => syTx.file <= syKernel'[syTx.knob].gen /\ (syKernel'[syTx.knob].id = syTx.id <=> syKernel'[syTx.knob].gen = syTx.file))
    <3>1. CASE syTx.knob # k
      BY <3>1 DEF OpenFile, SY!Knob
    <3>2. CASE syTx.knob = k
      BY <1>7, <2>1, <3>2 DEF SysctlTypes, Busy, Work, OpenFile
    <3> QED
      BY <3>1, <3>2
  <2>4. OpenFile(b)'
    BY <1>1, <1>7, <2>1, <2>3 DEF OpenFile, Fresh, SY!Knob, SY!Owner, SysctlConstants
  <2> QED
    BY <2>2, <2>4
<1>8. RecordIsBase(b)' /\ ValueIsKnown(b)' /\ CurrentIsRead(b)' /\ SY(b)!HeldValuesStay'
  <2>1. RecordIsBase(b)'
    BY <1>1, <1>3 DEF RecordIsBase
  <2>4. ValueIsKnown(b)'
    BY <1>1, <1>3 DEF ValueIsKnown
  <2>2. CurrentIsRead(b)'
    BY <1>1, <1>3 DEF CurrentIsRead, Busy, Work
  <2>3. SY(b)!HeldValuesStay'
    BY <1>1, <1>3 DEF SY!HeldValuesStay, HeldIsOwned
  <2> QED
    BY <2>1, <2>2, <2>3, <2>4
<1> QED
  BY <1>4, <1>5, <1>6, <1>7, <1>8

LEMMA ForeignStep ==
  ASSUME NEW b, SysctlConstants(b), SysctlInv(b), NEW k \in SY(b)!Knob,
         \/ \E v \in SetValue(b) : SY(b)!AdminSet(k, v)
         \/ \E id \in b.identity : SY(b)!ReplaceLink(k, id)
  PROVE  SysctlInv(b)'
<1> USE DEF SysctlInv
<1>1. ASSUME NEW v \in SetValue(b), SY(b)!AdminSet(k, v)
      PROVE  SysctlInv(b)'
  <2>1. /\ syKernel' \in [SY(b)!Knob -> [val : SetValue(b), id : b.identity, gen : Nat]]
        /\ \A j \in SY(b)!Knob \ {k} : syKernel'[j] = syKernel[j]
        /\ syKernel'[k].id = syKernel[k].id /\ syKernel'[k].gen = syKernel[k].gen
        /\ SY(b)!Foreign(k) /\ UNCHANGED <<syBoot, syDisk, syStarted, syAlive, syPinned, syTx, syHeld>>
    BY <1>1 DEF SY!AdminSet, SysctlTypes
  <2> QED
    BY <2>1, ForeignFrame
<1>2. ASSUME NEW id \in b.identity, SY(b)!ReplaceLink(k, id)
      PROVE  SysctlInv(b)'
  <2> DEFINE new == [val |-> SY(b)!Default, id |-> id, gen |-> syKernel[k].gen + 1]
  <2>1. new \in [val : SetValue(b), id : b.identity, gen : Nat] /\ new.id = id /\ new.gen = syKernel[k].gen + 1
    BY DEF SysctlTypes, SetValue
  <2>2. syKernel' = [syKernel EXCEPT ![k] = new] /\ k \in b.link /\ id \notin SY(b)!HeldOpen(k)
        /\ SY(b)!Foreign(k) /\ UNCHANGED <<syBoot, syDisk, syStarted, syAlive, syPinned, syTx, syHeld>>
    BY <1>2 DEF SY!ReplaceLink
  <2> HIDE DEF new
  <2>3. /\ syKernel' \in [SY(b)!Knob -> [val : SetValue(b), id : b.identity, gen : Nat]]
        /\ \A j \in SY(b)!Knob \ {k} : syKernel'[j] = syKernel[j] /\ syKernel'[k] = new
    BY <2>1, <2>2 DEF SysctlTypes
  <2>4. syKernel'[k] = new
    BY <2>2 DEF SysctlTypes
  <2> QED
    BY <2>1, <2>2, <2>3, <2>4, ForeignFrame
<1> QED
  BY <1>1, <1>2

LEMMA RebootStep ==
  ASSUME NEW b, SysctlConstants(b), SysctlInv(b), SY(b)!Reboot
  PROVE  SysctlInv(b)'
<1> USE DEF SysctlInv
<1>1. /\ syTx' = SY(b)!Idle /\ syHeld' = {} /\ syTouched' = {} /\ syAlive' = {} /\ syBoot' = syBoot + 1
      /\ syDisk' = syDisk /\ syStarted' = syStarted /\ syMoves' = syMoves
      /\ syPinned' = [k \in SY(b)!Knob |-> {}] /\ syBase' = [k \in SY(b)!Knob |-> SY(b)!Default]
  BY DEF SY!Reboot
<1>2. SY(b)!Saved' = SY(b)!NoEntries /\ DOMAIN SY(b)!NoEntries = {} /\ ~Busy(b)'
  <2>1. syDisk'.boot # syBoot'
    BY <1>1 DEF SysctlTypes
  <2> QED
    BY <1>1, <2>1, IdleIsNotWork DEF SY!Saved, SY!NoEntries, Busy
<1>3. /\ syKernel' \in [SY(b)!Knob -> [val : SetValue(b), id : b.identity, gen : Nat]]
      /\ \A k \in SY(b)!Knob : syKernel'[k].val = SY(b)!Default
  <2> DEFINE reset(k) == [val |-> SY(b)!Default, id |-> syKernel[k].id, gen |-> syKernel[k].gen + 1]
  <2>1. syKernel' = [k \in SY(b)!Knob |-> reset(k)]
    BY DEF SY!Reboot
  <2>2. ASSUME NEW k \in SY(b)!Knob
        PROVE  reset(k) \in [val : SetValue(b), id : b.identity, gen : Nat] /\ reset(k).val = SY(b)!Default
    BY DEF SysctlTypes, SetValue
  <2> HIDE DEF reset
  <2> QED
    BY <2>1, <2>2
<1>4. SysctlTypes(b)'
  <2>1. syPinned' \in [SY(b)!Knob -> SUBSET (Owned(b) \X Nat)] /\ syBase' \in [SY(b)!Knob -> SetValue(b)]
    BY <1>1 DEF SetValue
  <2>2. syBoot' \in Nat /\ syDisk'.boot <= syBoot'
    BY <1>1 DEF SysctlTypes
  <2> QED
    BY <1>1, <1>3, <2>1, <2>2 DEF SysctlTypes
<1> QED
  BY <1>1, <1>2, <1>3, <1>4 DEF TxOrder, TxIsJournal, OwnersHold, OwnersWere, PinsAreWitnesses, OpenFile,
     ClaimIsOwned, ApplyIsSaved, HeldIsOwned, NewIsNotHeld, RecordIsBase, ValueIsKnown, CurrentIsRead, SY!HeldValuesStay

\* Every step keeps the invariant.
LEMMA SysctlStep ==
  ASSUME NEW b, SysctlConstants(b), SysctlInv(b), [SY(b)!Next]_(SY(b)!vars)
  PROVE  SysctlInv(b)'
<1>1. CASE \E p \in b.process, k \in SY(b)!Knob, v \in b.wanted : SY(b)!Begin(p, "acquire", k, v)
  BY <1>1, BeginStep DEF SetValue
<1>2. CASE \E p \in b.process, op \in {"release", "recover"} : SY(b)!Begin(p, op, CHOOSE k \in SY(b)!Knob : TRUE, SY(b)!Default)
  <2>1. (CHOOSE k \in SY(b)!Knob : TRUE) \in SY(b)!Knob /\ SY(b)!Default \in SetValue(b)
    BY DEF SysctlConstants, SetValue
  <2> QED
    BY <1>2, <2>1, BeginStep
<1>3. CASE \E unknown \in SUBSET SY(b)!Owners : SY(b)!Prune(unknown)
  BY <1>3, PruneStep
<1>4. CASE \E k \in SY(b)!Knob : SY(b)!RestoreIfOwned(k)
  BY <1>4, RestoreStep
<1>5. CASE SY(b)!OpenTarget \/ SY(b)!Witness \/ SY(b)!Claim \/ SY(b)!Apply \/ SY(b)!Release
  BY <1>5, OpenTargetStep, WitnessStep, ClaimStep, ApplyStep, ReleaseStep
<1>6. CASE SY(b)!Recover
  BY <1>6, TxEnds DEF SY!Recover, SY!Fail
<1>7. CASE \E ok, written \in BOOLEAN :
             \/ SY(b)!PersistPruned(ok, written) \/ SY(b)!PersistClaim(ok, written)
             \/ SY(b)!PersistUndo(ok, written) \/ SY(b)!PersistRelease(ok, written)
  BY <1>7, PersistStep
<1>8. CASE \E p \in b.process : SY(b)!Start(p) \/ SY(b)!Kill(p)
  BY <1>8, ProcessStep, KillStep
<1>9. CASE \/ \E k \in SY(b)!Knob, v \in b.wanted \cup {SY(b)!Default} : SY(b)!AdminSet(k, v)
           \/ \E k \in b.link, id \in b.identity : SY(b)!ReplaceLink(k, id)
  BY <1>9, ForeignStep DEF SetValue, SY!Knob
<1>10. CASE SY(b)!Reboot
  BY <1>10, RebootStep
<1>11. CASE UNCHANGED SY(b)!vars
  <2>1. /\ SY(b)!Saved' = SY(b)!Saved /\ (Busy(b)' <=> Busy(b)) /\ (Fresh(b)' <=> Fresh(b))
        /\ UNCHANGED <<syKernel, syBoot, syDisk, syStarted, syAlive, syPinned, syTx, syHeld, syBase, syTouched, syMoves>>
    BY <1>11 DEF SY!vars, SY!Saved, Busy, Fresh
  <2> QED
    BY <2>1 DEF SysctlInv, SysctlTypes, TxOrder, TxIsJournal, OwnersHold, OwnersWere, OwnersPin, SY!IsAlive, SY!Owner,
       PinsAreWitnesses, OpenFile, ClaimIsOwned, ApplyIsSaved, HeldIsOwned, NewIsNotHeld, RecordIsBase, ValueIsKnown,
       CurrentIsRead, SY!HeldValuesStay
<1> QED
  BY <1>1, <1>2, <1>3, <1>4, <1>5, <1>6, <1>7, <1>8, <1>9, <1>10, <1>11 DEF SY!Next, SY!Transact, SY!Surroundings

\* The two properties of a state.
LEMMA SysctlSafety ==
  ASSUME NEW b, SysctlInv(b)
  PROVE  SY(b)!OriginalsAreOnRecord /\ SY(b)!HeldValuesStay
BY DEF SysctlInv, SY!OriginalsAreOnRecord, RecordIsBase

\* A write goes to the interface of its entry: a process that may restore holds the file of
\* the entry open, and one that applies a value has opened it.
LEMMA SysctlWrites ==
  ASSUME NEW b, SysctlConstants(b), SysctlInv(b), [SY(b)!Next]_(SY(b)!vars)
  PROVE  SY(b)!WritesOnlyItsOwn
<1> USE DEF SysctlInv
<1> SUFFICES ASSUME NEW k \in SY(b)!Knob, syKernel'[k].val # syKernel[k].val, syMoves' = syMoves, syBoot' = syBoot
             PROVE  /\ syTx.entries[k].gen = syKernel[k].gen
                    /\ syTx.step \in {"pruning", "releasing"} => syKernel[k].val = syTx.entries[k].managed
  BY DEF SY!WritesOnlyItsOwn
<1>1. ~SY(b)!Reboot /\ \A j : ~SY(b)!Foreign(j)
  <2>1. syBoot' # syBoot + 1 /\ syMoves' # syMoves + 1
    BY DEF SysctlTypes
  <2> QED
    BY <2>1 DEF SY!Reboot, SY!Foreign
<1>2. SY(b)!Apply \/ \E j \in SY(b)!Knob : SY(b)!RestoreIfOwned(j)
  <2>1. syKernel' # syKernel
    OBVIOUS
  <2> QED
    BY <1>1, <2>1 DEF SY!Next, SY!Transact, SY!Surroundings, SY!Begin, SY!Prune, SY!OpenTarget, SY!Witness, SY!Claim, SY!Release, SY!Recover,
       SY!PersistPruned, SY!PersistClaim, SY!PersistUndo, SY!PersistRelease, SY!Save, SY!Start, SY!Kill, SY!AdminSet, SY!ReplaceLink, SY!vars
<1>3. CASE SY(b)!Apply
  <2>1. /\ Busy(b) /\ syTx.step = "apply" /\ syTx.knob \in DOMAIN syTx.entries /\ syTx.knob \in SY(b)!Knob
        /\ syTx.knob \in DOMAIN SY(b)!Saved /\ syTx.entries[syTx.knob].gen = SY(b)!Saved[syTx.knob].gen
    BY <1>3 DEF SY!Apply, Busy, SysctlTypes, TxOrder, TxIsJournal, ApplyIsSaved, Fresh, Work
  <2>2. k = syTx.knob /\ SY(b)!Reachable(syTx.knob, syTx.file)
    BY <1>3, <2>1 DEF SY!Apply, SysctlTypes
  <2>3. CASE syTx.knob \in b.link
    BY <2>1, <2>2, <2>3 DEF OpenFile, SY!Reachable, SysctlConstants
  <2>4. CASE syTx.knob \in b.global
    BY <2>1, <2>2, <2>4 DEF PinsAreWitnesses
  <2> QED
    BY <2>1, <2>2, <2>3, <2>4 DEF SY!Knob
<1>4. ASSUME NEW j \in SY(b)!Knob, SY(b)!RestoreIfOwned(j)
      PROVE  /\ syTx.entries[k].gen = syKernel[k].gen
             /\ syTx.step \in {"pruning", "releasing"} => syKernel[k].val = syTx.entries[k].managed
  <2>1. /\ Busy(b) /\ syTx.step \in {"pruning", "releasing"} /\ j \in syTx.todo /\ j \in DOMAIN syTx.entries
        /\ j \in DOMAIN SY(b)!Saved /\ syTx.entries[j].gen = SY(b)!Saved[j].gen /\ syTx.who \in b.process
    <3>1. Busy(b) /\ syTx.step \in {"pruning", "releasing"} /\ j \in syTx.todo
      BY <1>4 DEF SY!RestoreIfOwned, Busy, SysctlTypes
    <3> QED
      BY <3>1 DEF TxOrder, TxIsJournal, Fresh, Busy, Work
  <2>2. k = j /\ SY(b)!CanInspect(j) /\ SY(b)!MustWrite(j)
    <3>1. \/ syKernel' = syKernel
          \/ SY(b)!CanInspect(j) /\ SY(b)!MustWrite(j) /\ \E v : syKernel' = [syKernel EXCEPT ![j].val = v]
          \/ syKernel' = [syKernel EXCEPT ![j].val = @]
      BY <1>4 DEF SY!RestoreIfOwned
    <3> QED
      BY <3>1 DEF SysctlTypes
  <2>3. CASE j \in b.link
    <3>1. PICK pin \in syPinned[j] : pin[2] = syKernel[j].gen
      BY <2>2, <2>3 DEF SY!CanInspect, SY!Reachable, SY!Pins, SysctlConstants
    <3> QED
      BY <2>1, <2>2, <2>3, <3>1 DEF PinsAreWitnesses, SY!MustWrite
  <2>4. CASE j \in b.global
    BY <2>1, <2>2, <2>4 DEF PinsAreWitnesses, SY!MustWrite
  <2> QED
    BY <2>3, <2>4 DEF SY!Knob
<1> QED
  BY <1>2, <1>3, <1>4

-----------------------------------------------------------------------------
\* The settings of the part that is followed.
SysctlsInv == \A b \in Sysctls : part = b.part => SysctlInv(b)

LEMMA SysctlsStart ==
  ASSUME StartAll
  PROVE  SysctlsInv
<1> SUFFICES ASSUME NEW d \in Sysctls, part = d.part
             PROVE  SysctlInv(d)
  BY DEF SysctlsInv
<1>1. PICK b \in Sysctls : part = b.part /\ SY(b)!Init
  BY DEF StartAll
<1>2. b = d /\ SysctlConstants(d)
  BY <1>1, SysctlsAssumption DEF SysctlConstants, SY!Knob
<1> QED
  BY <1>1, <1>2, SysctlStart

\* A step of the host is a step of the setting that is followed, or leaves it alone.
LEMMA SysctlsStep ==
  ASSUME [StepOne]_allVars, NEW d \in Sysctls, part' = d.part
  PROVE  part = d.part /\ SysctlConstants(d) /\ [SY(d)!Next]_(SY(d)!vars)
<1>1. part' = part
  BY DEF StepOne, allVars
<1>2. SysctlConstants(d)
  BY SysctlsAssumption DEF SysctlConstants, SY!Knob
<1>3. CASE UNCHANGED syVars
  BY <1>1, <1>2, <1>3 DEF syVars, SY!vars
<1>4. CASE \E b \in Sysctls : part = b.part /\ SY(b)!Next
  BY <1>1, <1>2, <1>4, SysctlsAssumption
<1> QED
  BY <1>3, <1>4 DEF StepOne, allVars

LEMMA SysctlsKept ==
  ASSUME SysctlsInv, [StepOne]_allVars
  PROVE  SysctlsInv'
<1> SUFFICES ASSUME NEW d \in Sysctls, part' = d.part
             PROVE  SysctlInv(d)'
  BY DEF SysctlsInv
<1>1. SysctlInv(d) /\ SysctlConstants(d) /\ [SY(d)!Next]_(SY(d)!vars)
  BY SysctlsStep DEF SysctlsInv
<1> QED
  BY <1>1, SysctlStep

\* Through every failed or half-done write, death, restart, reboot, replaced interface and
\* interfering administrator, for any processes, knobs and values: the value to go back
\* to is on record while the kernel has another, a value a live component holds stays, and
\* no write of the client goes to an interface other than the one its entry was made for.
THEOREM RecordedSysctls == AnySpec => SysctlsAreOnRecord
<1>1. StartAll => SysctlsInv
  BY SysctlsStart
<1>2. SysctlsInv /\ [StepOne]_allVars => SysctlsInv'
  BY SysctlsKept
<1>3. SysctlsInv => \A b \in Sysctls : part = b.part => SY(b)!HeldValuesStay /\ SY(b)!OriginalsAreOnRecord
  BY SysctlSafety DEF SysctlsInv
<1>4. SysctlsInv /\ [StepOne]_allVars =>
        [\A b \in Sysctls : part = b.part => SY(b)!WritesOnlyItsOwn]_syVars
  <2> SUFFICES ASSUME SysctlsInv, [StepOne]_allVars, NEW b \in Sysctls, part = b.part
               PROVE  SY(b)!WritesOnlyItsOwn
    OBVIOUS
  <2>1. part' = part
    BY DEF StepOne, allVars
  <2>2. SysctlInv(b) /\ SysctlConstants(b) /\ [SY(b)!Next]_(SY(b)!vars)
    BY <2>1, SysctlsStep DEF SysctlsInv
  <2> QED
    BY <2>2, SysctlWrites
<1> QED
  BY <1>1, <1>2, <1>3, <1>4, PTL DEF AnySpec, SysctlsAreOnRecord

=============================================================================
