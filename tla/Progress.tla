------------------------------ MODULE Progress ------------------------------
(* What must eventually happen, component by component. A behaviour        *)
(* follows one component, the part, with bounds of its own: smaller ones   *)
(* than in the runs on safety, as every path through the states counts     *)
(* here. The fairness of a component is what its code and its runtime      *)
(* guarantee (its Fairness); it is the assumption of the property and not  *)
(* part of the specification.                                              *)
EXTENDS Integers

CONSTANTS
  DhcpClients, VpnUsers     \* hardware addresses and VPN keys, model values

VARIABLE part     \* the component this behaviour is about, and its bounds

VARIABLES           \* TaskOwnership
  toClosed, toState, toAbort, toSignalled, toPanicked, toFailures, toOwner, toLock,
  toWaiter
VARIABLES           \* ReceivePump
  rpAt, rpRecycler, rpSlots, rpBatch, rpPermits, rpWaiting, rpChannel, rpPending,
  rpQueued, rpConsumer
VARIABLES           \* NativeRuntime
  nrState, nrStart, nrCancelled, nrActive, nrCounters, nrPendingPlan, nrLastGeneration,
  nrTun, nrWaiters, nrPc, nrToken, nrGen, nrFlag, nrDevice, nrOffered
VARIABLES           \* DataFragments
  dfWriter, dfNextId, dfNet, dfEntries, dfBuffered, dfOut, dfConflict
VARIABLES           \* UdpHandshake
  hsCl, hsNet, hsPart, hsDir, hsTask, hsMade, hsFaults, hsSentOk, hsCover, hsCredit
VARIABLES           \* TcpRoaming
  trLife, trTicket, trGen, trEpoch, trResv, trReady, trDraining, trOthers, trCounted,
  trArmed, trDue, trAttached, trScheduled, trRevoked, trClosing, trInMap, trPhase,
  trMine, trWasLast, trPending
VARIABLES           \* ServerSessions
  ssLock, ssStep, ssLast, ssSess, ssByIp, ssLease, ssVictims, ssRetiring, ssRoutes,
  ssPendingDel, ssKernel, ssStreams, ssLookups, ssJoining, ssPrimary, ssTorn, ssFlagged
VARIABLES           \* ManagementDelivery
  mdTask, mdReceipt, mdSent, mdAcks, mdRevoked, mdServer, mdTerminal, mdOrdinary,
  mdDown, mdUp, mdReassembler, mdReader, mdLane, mdSlot, mdClient, mdReceipted
VARIABLES           \* UdpHandover
  hoAlive, hoClient, hoCand, hoOffered, hoEarly, hoRecovery, hoQueue, hoDelivered,
  hoServer, hoTokens, hoHistory, hoNet
VARIABLES           \* DhcpServer
  dhLeases, dhDeclined, dhOwner, dhJob, dhAcked, dhPackets
VARIABLES           \* UsageAccounting
  uaLife, uaCounter, uaUsage, uaCommitted, uaTracked, uaDisk, uaQueue, uaIo, uaPhase,
  uaSweep, uaSnapshot, uaKicks, uaPanel, uaSupervisor, uaFaults, uaResets, uaCrashes,
  uaCarried
VARIABLES           \* TunnelManager
  tmRunning, tmRunLock, tmSpawning, tmHolder, tmProc, tmProfile, tmClean, tmClosed,
  tmWaiter, tmOp, tmStage, tmFailures, tmResult, tmCancels
VARIABLES           \* WorkerSupervisor
  wsLoop, wsResult, wsQueue, wsClosed, wsStopReady, wsFlags, wsDelay, wsBackoff, wsAge,
  wsWorker, wsPid, wsDisk, wsOffered, wsFaults, wsPromised, wsWaited, wsTermAge,
  wsLastExit

toVars ==
  <<toClosed, toState, toAbort, toSignalled, toPanicked, toFailures, toOwner, toLock,
    toWaiter>>
rpVars ==
  <<rpAt, rpRecycler, rpSlots, rpBatch, rpPermits, rpWaiting, rpChannel, rpPending,
    rpQueued, rpConsumer>>
nrVars ==
  <<nrState, nrStart, nrCancelled, nrActive, nrCounters, nrPendingPlan,
    nrLastGeneration, nrTun, nrWaiters, nrPc, nrToken, nrGen, nrFlag, nrDevice,
    nrOffered>>
dfVars ==
  <<dfWriter, dfNextId, dfNet, dfEntries, dfBuffered, dfOut, dfConflict>>
hsVars ==
  <<hsCl, hsNet, hsPart, hsDir, hsTask, hsMade, hsFaults, hsSentOk, hsCover, hsCredit>>
trVars ==
  <<trLife, trTicket, trGen, trEpoch, trResv, trReady, trDraining, trOthers, trCounted,
    trArmed, trDue, trAttached, trScheduled, trRevoked, trClosing, trInMap, trPhase,
    trMine, trWasLast, trPending>>
ssVars ==
  <<ssLock, ssStep, ssLast, ssSess, ssByIp, ssLease, ssVictims, ssRetiring, ssRoutes,
    ssPendingDel, ssKernel, ssStreams, ssLookups, ssJoining, ssPrimary, ssTorn,
    ssFlagged>>
mdVars ==
  <<mdTask, mdReceipt, mdSent, mdAcks, mdRevoked, mdServer, mdTerminal, mdOrdinary,
    mdDown, mdUp, mdReassembler, mdReader, mdLane, mdSlot, mdClient, mdReceipted>>
hoVars ==
  <<hoAlive, hoClient, hoCand, hoOffered, hoEarly, hoRecovery, hoQueue, hoDelivered,
    hoServer, hoTokens, hoHistory, hoNet>>
dhVars ==
  <<dhLeases, dhDeclined, dhOwner, dhJob, dhAcked, dhPackets>>
uaVars ==
  <<uaLife, uaCounter, uaUsage, uaCommitted, uaTracked, uaDisk, uaQueue, uaIo, uaPhase,
    uaSweep, uaSnapshot, uaKicks, uaPanel, uaSupervisor, uaFaults, uaResets, uaCrashes,
    uaCarried>>
tmVars ==
  <<tmRunning, tmRunLock, tmSpawning, tmHolder, tmProc, tmProfile, tmClean, tmClosed,
    tmWaiter, tmOp, tmStage, tmFailures, tmResult, tmCancels>>
wsVars ==
  <<wsLoop, wsResult, wsQueue, wsClosed, wsStopReady, wsFlags, wsDelay, wsBackoff,
    wsAge, wsWorker, wsPid, wsDisk, wsOffered, wsFaults, wsPromised, wsWaited,
    wsTermAge, wsLastExit>>

\* A blocking closure and a future; either of two waiters may be cancelled.
TO == INSTANCE TaskOwnership WITH
  Task <- {"a", "c"}, Blocking <- {"c"}, Waiter <- {"w1", "w2"},
  closed <- toClosed, state <- toState, abort <- toAbort, signalled <- toSignalled,
  panicked <- toPanicked, failures <- toFailures, owner <- toOwner, lock <- toLock,
  waiter <- toWaiter

\* Two sockets; one permit short of two full batches.
RP == INSTANCE ReceivePump WITH
  Pump <- {"a", "b"}, Slots <- 3, MaxBatch <- 2, Capacity <- 3, Channel <- 2,
  at <- rpAt, recycler <- rpRecycler, slots <- rpSlots, batch <- rpBatch,
  permits <- rpPermits, waiting <- rpWaiting, channel <- rpChannel,
  pending <- rpPending, queued <- rpQueued, consumer <- rpConsumer

\* Two runs of the native runtime.
NR == INSTANCE NativeRuntime WITH
  MaxRunner <- 2, MaxStart <- 2,
  state <- nrState, start <- nrStart, cancelled <- nrCancelled, active <- nrActive,
  counters <- nrCounters, pendingPlan <- nrPendingPlan,
  lastGeneration <- nrLastGeneration, tun <- nrTun, waiters <- nrWaiters, pc <- nrPc,
  token <- nrToken, gen <- nrGen, flag <- nrFlag, device <- nrDevice,
  offered <- nrOffered

\* A record and its retry at the floor; both attempts are in the network.
DF == INSTANCE DataFragments WITH
  Lengths <- <<3>>, Budget <- 2, Floor <- 1, MaxRecords <- 2, MaxBytes <- 4,
  Timeout <- 1,
  writer <- dfWriter, nextId <- dfNextId, net <- dfNet, entries <- dfEntries,
  buffered <- dfBuffered, out <- dfOut, conflict <- dfConflict

\* One datagram is lost; the model keeps one copy of a datagram, so the loss may cost
\* an answer and its re-emission.
HL == INSTANCE UdpHandshake WITH
  Addrs <- {"a1"}, Cap <- 1, HelloLen <- 5, MaxReemits <- 2, Window <- 1, MaxHs <- 1,
  MaxRecv <- 10, MaxFaults <- 1, Dup <- FALSE, Ticks <- FALSE,
  cl <- hsCl, net <- hsNet, part <- hsPart, dir <- hsDir, task <- hsTask,
  made <- hsMade, faults <- hsFaults, sentOk <- hsSentOk, cover <- hsCover,
  credit <- hsCredit

\* One resume per orphan, at two epochs.
TR == INSTANCE TcpRoaming WITH
  Slot <- {0, 1}, Transport <- 1..2, MaxEpoch <- 2, MaxStreams <- 2, MaxOrphans <- 1,
  life <- trLife, ticket <- trTicket, gen <- trGen, epoch <- trEpoch, resv <- trResv,
  ready <- trReady, draining <- trDraining, others <- trOthers, counted <- trCounted,
  armed <- trArmed, due <- trDue, attached <- trAttached, scheduled <- trScheduled,
  revoked <- trRevoked, closing <- trClosing, inMap <- trInMap, phase <- trPhase,
  mine <- trMine, wasLast <- trWasLast, pending <- trPending

\* One login and its replacement, with a joined stream.
SE == INSTANCE ServerSessions WITH
  Kinds <- {"tcp"}, Key <- {"ann1"}, User <- [ann1 |-> "ann"], Fixed <- [ann1 |-> 0],
  Subnets <- [ann1 |-> {}], Mac <- {}, Addr <- {1}, MaxSessions <- 1, MaxClients <- 2,
  MaxStreams <- 2, Sid <- 1..2, MaxJoins <- 1,
  lock <- ssLock, step <- ssStep, last <- ssLast, sess <- ssSess, byIp <- ssByIp,
  lease <- ssLease, victims <- ssVictims, retiring <- ssRetiring, routes <- ssRoutes,
  pendingDel <- ssPendingDel, kernel <- ssKernel, streams <- ssStreams,
  lookups <- ssLookups, joining <- ssJoining, primary <- ssPrimary, torn <- ssTorn,
  flagged <- ssFlagged

\* One eviction over UDP; the messages and their receipts may be lost.
MU == INSTANCE ManagementDelivery WITH
  MAX_INFLIGHT <- 1, COMPLETED_ID_CACHE <- 2, REASSEMBLY_TIMEOUT <- 2, Payload <- {"p"},
  Malformed <- {}, Streams <- {"s1"}, Kickers <- {"k1"}, Abortable <- {},
  Notifiers <- {}, MsgId <- {"m1", "m2"}, Datagram <- TRUE, AckLane <- 1,
  task <- mdTask, receipt <- mdReceipt, sent <- mdSent, acks <- mdAcks,
  revoked <- mdRevoked, server <- mdServer, terminal <- mdTerminal,
  ordinary <- mdOrdinary, down <- mdDown, up <- mdUp, reassembler <- mdReassembler,
  reader <- mdReader, lane <- mdLane, slot <- mdSlot, client <- mdClient,
  receipted <- mdReceipted

\* One replacement path; the server promises downlink traffic, so silence is noticed.
HO == INSTANCE UdpHandover WITH
  MaxPath <- 1, MaxTransmissions <- 3, MaxToken <- 2, EarlyItems <- 1, InFlight <- 1,
  Queue <- 1, RxDead <- TRUE, CanRequest <- TRUE,
  alive <- hoAlive, client <- hoClient, cand <- hoCand, offered <- hoOffered,
  early <- hoEarly, recovery <- hoRecovery, queue <- hoQueue, delivered <- hoDelivered,
  server <- hoServer, tokens <- hoTokens, history <- hoHistory, net <- hoNet

\* Three packets, then silence.
DH == INSTANCE DhcpServer WITH
  Mac <- DhcpClients, User <- VpnUsers, Addr <- 1..3, Window <- 1..2, Reserved <- {2},
  OfferTime <- 1, LeaseTime <- 2, QuarantineTime <- 2, MaxPackets <- 3,
  leases <- dhLeases, declined <- dhDeclined, owner <- dhOwner, job <- dhJob,
  acked <- dhAcked, packets <- dhPackets

\* One session; a full queue and a reset may delay the sweep.
UA == INSTANCE UsageAccounting WITH
  Session <- {"s1"}, User <- {"ann"}, UserOf <- [s1 |-> "ann"], Limit <- 2,
  MaxBytes <- 2, MaxQueue <- 1, MaxResets <- 1, MaxFaults <- 0, MaxCrashes <- 0,
  life <- uaLife, counter <- uaCounter, usage <- uaUsage, committed <- uaCommitted,
  tracked <- uaTracked, disk <- uaDisk, queue <- uaQueue, io <- uaIo, phase <- uaPhase,
  sweep <- uaSweep, snapshot <- uaSnapshot, kicks <- uaKicks, panel <- uaPanel,
  supervisor <- uaSupervisor, faults <- uaFaults, resets <- uaResets,
  crashes <- uaCrashes, carried <- uaCarried

\* Two requests on one profile.
TM == INSTANCE TunnelManager WITH
  Task <- 1..2, Name <- {1}, Child <- 1..2, MaxCancels <- 1,
  running <- tmRunning, runLock <- tmRunLock, spawning <- tmSpawning,
  holder <- tmHolder, proc <- tmProc, profile <- tmProfile, clean <- tmClean,
  closed <- tmClosed, waiter <- tmWaiter, op <- tmOp, stage <- tmStage,
  failures <- tmFailures, result <- tmResult, cancels <- tmCancels

\* One slot, so that a SIGHUP meets a full queue.
WS == INSTANCE WorkerSupervisor WITH
  Capacity <- 1, InitialBackoff <- 1, MaximumBackoff <- 1, StableAfter <- 1,
  ShutdownGrace <- 1, MaxCommands <- 2, MaxVersion <- 1, MaxFaults <- 0,
  loop <- wsLoop, result <- wsResult, queue <- wsQueue, closed <- wsClosed,
  stopReady <- wsStopReady, flags <- wsFlags, delay <- wsDelay, backoff <- wsBackoff,
  age <- wsAge, worker <- wsWorker, pid <- wsPid, disk <- wsDisk, offered <- wsOffered,
  faults <- wsFaults, promised <- wsPromised, waited <- wsWaited, termAge <- wsTermAge,
  lastExit <- wsLastExit

allVars ==
  <<part, toVars, rpVars, nrVars, dfVars, hsVars, trVars, ssVars, mdVars, hoVars,
    dhVars, uaVars, tmVars, wsVars>>

\* Every component starts afresh; one of them is followed.
StartAll ==
  /\ part \in {"tasks", "pump", "runtime", "fragments", "lossy", "roaming", "sessions",
              "eviction", "handover", "dhcp", "usage", "tunnels", "worker"}
  /\ TO!Init
  /\ RP!Init
  /\ NR!Init
  /\ DF!Init
  /\ HL!Init
  /\ TR!Init
  /\ SE!Init
  /\ MU!Init
  /\ HO!Init
  /\ DH!Init
  /\ UA!Init
  /\ TM!Init
  /\ WS!Init
  /\ part = "roaming" \/ trOthers = 0

StepOne ==
  \/ /\ part = "tasks" /\ TO!Next
     /\ UNCHANGED <<part, rpVars, nrVars, dfVars, hsVars, trVars, ssVars, mdVars,
                    hoVars, dhVars, uaVars, tmVars, wsVars>>
  \/ /\ part = "pump" /\ RP!Next
     /\ UNCHANGED <<part, toVars, nrVars, dfVars, hsVars, trVars, ssVars, mdVars,
                    hoVars, dhVars, uaVars, tmVars, wsVars>>
  \/ /\ part = "runtime" /\ NR!Next
     /\ UNCHANGED <<part, toVars, rpVars, dfVars, hsVars, trVars, ssVars, mdVars,
                    hoVars, dhVars, uaVars, tmVars, wsVars>>
  \/ /\ part = "fragments" /\ DF!Next
     /\ UNCHANGED <<part, toVars, rpVars, nrVars, hsVars, trVars, ssVars, mdVars,
                    hoVars, dhVars, uaVars, tmVars, wsVars>>
  \/ /\ part = "lossy" /\ HL!Next
     /\ UNCHANGED <<part, toVars, rpVars, nrVars, dfVars, trVars, ssVars, mdVars,
                    hoVars, dhVars, uaVars, tmVars, wsVars>>
  \/ /\ part = "roaming" /\ TR!Next
     /\ UNCHANGED <<part, toVars, rpVars, nrVars, dfVars, hsVars, ssVars, mdVars,
                    hoVars, dhVars, uaVars, tmVars, wsVars>>
  \/ /\ part = "sessions" /\ SE!Next
     /\ UNCHANGED <<part, toVars, rpVars, nrVars, dfVars, hsVars, trVars, mdVars,
                    hoVars, dhVars, uaVars, tmVars, wsVars>>
  \/ /\ part = "eviction" /\ MU!Next
     /\ UNCHANGED <<part, toVars, rpVars, nrVars, dfVars, hsVars, trVars, ssVars,
                    hoVars, dhVars, uaVars, tmVars, wsVars>>
  \/ /\ part = "handover" /\ HO!Next
     /\ UNCHANGED <<part, toVars, rpVars, nrVars, dfVars, hsVars, trVars, ssVars,
                    mdVars, dhVars, uaVars, tmVars, wsVars>>
  \/ /\ part = "dhcp" /\ DH!Next
     /\ UNCHANGED <<part, toVars, rpVars, nrVars, dfVars, hsVars, trVars, ssVars,
                    mdVars, hoVars, uaVars, tmVars, wsVars>>
  \/ /\ part = "usage" /\ UA!Next
     /\ UNCHANGED <<part, toVars, rpVars, nrVars, dfVars, hsVars, trVars, ssVars,
                    mdVars, hoVars, dhVars, tmVars, wsVars>>
  \/ /\ part = "tunnels" /\ TM!Next
     /\ UNCHANGED <<part, toVars, rpVars, nrVars, dfVars, hsVars, trVars, ssVars,
                    mdVars, hoVars, dhVars, uaVars, wsVars>>
  \/ /\ part = "worker" /\ WS!Next
     /\ UNCHANGED <<part, toVars, rpVars, nrVars, dfVars, hsVars, trVars, ssVars,
                    mdVars, hoVars, dhVars, uaVars, tmVars>>

AnySpec == StartAll /\ [][StepOne]_allVars

-----------------------------------------------------------------------------
(* What is stopped ends: a cancelled runner of the native runtime, a       *)
(* waiter for a task group, a tunnel process however it behaves, and an    *)
(* evicted session whether its client answers or not; a client that took   *)
(* the KICK ends with it.                                                  *)
StopsComplete ==
  /\ (part = "tasks" /\ TO!Fairness) => TO!FinishReturns
  /\ (part = "runtime" /\ NR!Fairness) => NR!CancelledRunnersEnd
  /\ (part = "tunnels" /\ TM!Fairness) => TM!StopsEnd
  /\ (part = "eviction" /\ MU!Fairness) => MU!EvictionCompletes /\ MU!KickEndsSession

(* What was asked for is answered, whatever is lost, full or not ready:    *)
(* the messages of a UDP handshake, the move of a client to a new path     *)
(* (completed or given up for a reconnect), a users file or configuration  *)
(* whose reload or restart was accepted, and the stop of a worker.         *)
RequestsAreServed ==
  /\ (part = "lossy" /\ HL!Fairness) => HL!HelloIsAnswered /\ HL!AuthIsAnswered
  /\ (part = "handover" /\ HO!Fairness) => HO!StrandedRecovers
  /\ (part = "worker" /\ WS!Fairness) =>
       WS!SavedUsersAreRead /\ WS!SavedConfigIsRead /\ WS!StopReturns

(* What is held comes back: receive buffers and places in the queue, the   *)
(* slot of a partial record, the addresses of silent DHCP clients, the     *)
(* place of a session whose streams are gone or that nobody resumes, and   *)
(* what a user over his quota still uses.                                  *)
ResourcesComeBack ==
  /\ (part = "pump" /\ RP!Fairness) => RP!BatchesGetThrough /\ RP!BuffersComeBack
  /\ (part = "fragments" /\ DF!Fairness) => DF!PartialsEnd
  /\ (part = "dhcp" /\ DH!Fairness) => DH!AddressesReturn
  /\ (part = "sessions" /\ SE!Fairness) => SE!EndedSessionsLeave
  /\ (part = "roaming" /\ TR!Fairness) => TR!OrphansEnd
  /\ (part = "usage" /\ UA!Fairness) => UA!OverQuotaIsCutOff
=============================================================================
