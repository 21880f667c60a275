--------------------------- MODULE ClientResources ---------------------------
(* What one client process owns while it runs: its task groups             *)
(* (TaskOwnership), the receive pumps and their queue (ReceivePump), the   *)
(* packet buffer pool (PacketPool), the core's plans, tunnel device and    *)
(* requests (ClientCore) and the runners of the native runtime             *)
(* (NativeRuntime). They meet only through interfaces that each model      *)
(* contains, so a behaviour follows one of them, the part, from its start. *)
EXTENDS TaskOwnership, Integers

CONSTANTS           \* NativeRuntime
  MaxRunner, MaxStart

VARIABLE part     \* the component this behaviour is about, and its bounds

VARIABLES           \* ReceivePump
  rpAt, rpRecycler, rpSlots, rpBatch, rpPermits, rpWaiting, rpChannel, rpPending,
  rpQueued, rpConsumer
VARIABLES           \* PacketPool
  ppPermits, ppAvailable, ppAllocated, ppReader, ppReturning, ppQueue, ppHeld, ppWriter
VARIABLES           \* NativeRuntime
  nrState, nrStart, nrCancelled, nrActive, nrCounters, nrPendingPlan, nrLastGeneration,
  nrTun, nrWaiters, nrPc, nrToken, nrGen, nrFlag, nrDevice, nrOffered
VARIABLES           \* ClientCore
  clState, clEvents, clNextSequence, clPendingPlan, clPendingSocketProtect,
  clPendingServerIdentity, clPendingPathCommand, clLastPlanGeneration, clPathCandidate,
  clQueuedPathCandidate, clNextPathCandidateId, clLastPathUpdate, clRoam, clAttachedTun,
  clPacketTun, clDeviceId, clRuntimeCancel, clRuntimeActive, clRunner, clKicked

rpVars ==
  <<rpAt, rpRecycler, rpSlots, rpBatch, rpPermits, rpWaiting, rpChannel, rpPending,
    rpQueued, rpConsumer>>
ppVars ==
  <<ppPermits, ppAvailable, ppAllocated, ppReader, ppReturning, ppQueue, ppHeld,
    ppWriter>>
nrVars ==
  <<nrState, nrStart, nrCancelled, nrActive, nrCounters, nrPendingPlan,
    nrLastGeneration, nrTun, nrWaiters, nrPc, nrToken, nrGen, nrFlag, nrDevice,
    nrOffered>>
clVars ==
  <<clState, clEvents, clNextSequence, clPendingPlan, clPendingSocketProtect,
    clPendingServerIdentity, clPendingPathCommand, clLastPlanGeneration,
    clPathCandidate, clQueuedPathCandidate, clNextPathCandidateId, clLastPathUpdate,
    clRoam, clAttachedTun, clPacketTun, clDeviceId, clRuntimeCancel, clRuntimeActive,
    clRunner, clKicked>>

\* Three sockets, opened one after another.
RP == INSTANCE ReceivePump WITH
  Pump <- {"a", "b", "c"}, Slots <- 3, MaxBatch <- 2, Capacity <- 3, Channel <- 2,
  at <- rpAt, recycler <- rpRecycler, slots <- rpSlots, batch <- rpBatch,
  permits <- rpPermits, waiting <- rpWaiting, channel <- rpChannel,
  pending <- rpPending, queued <- rpQueued, consumer <- rpConsumer

\* Four buffers for two readers and three streams.
PP == INSTANCE PacketPool WITH
  Reader <- {"r1", "r2"}, Stream <- {"s1", "s2", "s3"}, Count <- 4, MaxStreams <- 2,
  MaxBatch <- 2,
  permits <- ppPermits, available <- ppAvailable, allocated <- ppAllocated,
  reader <- ppReader, returning <- ppReturning, queue <- ppQueue, held <- ppHeld,
  writer <- ppWriter

\* For any number of runs and starts.
NR == INSTANCE NativeRuntime WITH
  state <- nrState, start <- nrStart, cancelled <- nrCancelled, active <- nrActive,
  counters <- nrCounters, pendingPlan <- nrPendingPlan,
  lastGeneration <- nrLastGeneration, tun <- nrTun, waiters <- nrWaiters, pc <- nrPc,
  token <- nrToken, gen <- nrGen, flag <- nrFlag, device <- nrDevice,
  offered <- nrOffered

\* Start and stop, network plans, the tunnel device and the one-shot requests.
CL == INSTANCE ClientCore WITH
  Capabilities <- {"TUN_FD", "TUN_PACKET_BATCH", "SOCKET_PROTECT", "SERVER_IDENTITY"},
  EventCapacity <- 3, MaxSequence <- 9, MaxGeneration <- 2, MaxUpdate <- 0,
  MaxCandidate <- 1,
  state <- clState, events <- clEvents, nextSequence <- clNextSequence,
  pendingPlan <- clPendingPlan, pendingSocketProtect <- clPendingSocketProtect,
  pendingServerIdentity <- clPendingServerIdentity,
  pendingPathCommand <- clPendingPathCommand,
  lastPlanGeneration <- clLastPlanGeneration, pathCandidate <- clPathCandidate,
  queuedPathCandidate <- clQueuedPathCandidate,
  nextPathCandidateId <- clNextPathCandidateId, lastPathUpdate <- clLastPathUpdate,
  roam <- clRoam, attachedTun <- clAttachedTun, packetTun <- clPacketTun,
  deviceId <- clDeviceId, runtimeCancel <- clRuntimeCancel,
  runtimeActive <- clRuntimeActive, runner <- clRunner, kicked <- clKicked

allVars ==
  <<part, vars, rpVars, ppVars, nrVars, clVars>>

\* Every component starts afresh; one of them is followed.
StartAll ==
  /\ part \in {"tasks", "pump", "pool", "runtime", "core"}
  /\ Init
  /\ RP!Init
  /\ PP!Init
  /\ NR!Init
  /\ CL!Init

StepOne ==
  \/ /\ part = "tasks" /\ Next
     /\ UNCHANGED <<part, rpVars, ppVars, nrVars, clVars>>
  \/ /\ part = "pump" /\ RP!Next
     /\ UNCHANGED <<part, vars, ppVars, nrVars, clVars>>
  \/ /\ part = "pool" /\ PP!Next
     /\ UNCHANGED <<part, vars, rpVars, nrVars, clVars>>
  \/ /\ part = "runtime" /\ NR!Next
     /\ UNCHANGED <<part, vars, rpVars, ppVars, clVars>>
  \/ /\ part = "core" /\ CL!Next
     /\ UNCHANGED <<part, vars, rpVars, ppVars, nrVars>>

AnySpec == StartAll /\ [][StepOne]_allVars

-----------------------------------------------------------------------------
(* Receive buffers and queue permits are conserved through aborted pumps,  *)
(* malformed datagrams, a full channel and a consumer that goes away       *)
(* (`receive_queue.rs`); the packet pool keeps its budget and its permits  *)
(* through concurrent borrows and returns, failed allocations and detached *)
(* streams, and one stalled stream leaves room for the others              *)
(* (`buffer_pool.rs`).                                                     *)
BuffersAreAccountedFor ==
  /\ part = "pump" => RP!BuffersAreConserved /\ RP!QueueIsAccounted
  /\ part = "pool" => PP!BudgetIsFixed /\ PP!NoPermitIsLost /\ PP!OneStreamLeavesRoom

(* Starts, stops, failures and late answers in every order: the plan, the  *)
(* tunnel device and the one-shot requests belong to the current           *)
(* generation or to nobody, and a stopped core owns nothing (`mod.rs`).    *)
GenerationsAreKeptApart ==
  part = "core" => CL!TypeOK /\ CL!GenerationsAreKeptApart

(* However stops, starts and unwinding runners overlap, a session has one  *)
(* runner, a superseded one has been cancelled, a TUN device is taken once *)
(* and under the generation it was acknowledged for (within a start by the *)
(* runner whose plan it answers, across a stop only with the earlier start *)
(* cancelled), and a runner that ends after the next start leaves the new  *)
(* session alone (`runtime.rs`).                                           *)
RunnersAreFenced ==
  /\ [](part = "runtime" => NR!RunnersHold)
  /\ NR!StaleFinishIsSilent
=============================================================================
