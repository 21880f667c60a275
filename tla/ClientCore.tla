----------------------------- MODULE ClientCore -----------------------------
(***************************************************************************)
(* The shared client core (qeli/src/transport_core/mod.rs, struct          *)
(* ClientCore, and path.rs): the lifecycle of a VPN client, the bounded    *)
(* event queue through which it talks to the platform, the network-plan    *)
(* handshake, the one-shot requests and the make-before-break path         *)
(* transaction.  Every method of the struct runs under one mutex, so one   *)
(* method call is one action.  A call that returns an error and changes    *)
(* nothing is not an action; an error return that does change something    *)
(* (SubmitQueueFull, StopQueueFull) is.                                    *)
(*                                                                         *)
(* The callers are arbitrary here: any method may be called at any time,   *)
(* with the only restriction that an acknowledgement names an event the    *)
(* platform has taken out of the queue.  PlatformPaths composes the core   *)
(* with the sequential platform adapter.                                   *)
(*                                                                         *)
(* An operator named Bug... is no part of the specification: it is the     *)
(* definition after it with one plausible programming error, and shows     *)
(* that the checked properties would notice it.                            *)
(***************************************************************************)
EXTENDS Naturals, FiniteSets

CONSTANTS
    Capabilities,    \* CoreOptions.platform_capabilities
    EventCapacity,   \* CoreOptions.event_capacity
    MaxSequence,     \* bound: no call is made once this many events exist
    MaxGeneration,   \* bound: plan generations that are published
    MaxUpdate,       \* bound: update ids the platform submits
    MaxCandidate     \* bound: candidate ids that are allocated

CapabilityBits == {"TUN_FD", "TUN_PACKET_BATCH", "SOCKET_PROTECT",
                   "SERVER_IDENTITY", "ROAMING_PATH", "PATH_REFRESH"}

\* ClientCore::new refuses any other capacity (MIN_EVENT_CAPACITY is 2).
ASSUME CapacityAssumption == EventCapacity \in Nat /\ EventCapacity >= 2
ASSUME CapabilityAssumption == Capabilities \subseteq CapabilityBits
ASSUME BoundAssumption ==
    {MaxSequence, MaxGeneration, MaxUpdate, MaxCandidate} \subseteq Nat

VARIABLES
    state,                  \* ClientState
    events,                 \* the queue: sequence numbers give its order
    nextSequence,
    pendingPlan,            \* generation of the unacknowledged plan, or 0
    pendingSocketProtect,   \* sequences with a live oneshot sender
    pendingServerIdentity,
    pendingPathCommand,
    lastPlanGeneration,
    pathCandidate,
    queuedPathCandidate,
    nextPathCandidateId,
    lastPathUpdate,         \* last_path_update_{generation,id}, last_path_candidate_id
    roam,                   \* roam_{attempts,successes,failures,reconnect_fallbacks}
    attachedTun,            \* generation of the adopted TUN, or 0
    packetTun,              \* generations of the packet bridge and pump, or 0
    deviceId,               \* whether a device id has been set
    runtimeCancel,          \* the current start's cancellation flag
    runtimeActive,
    runner,                 \* the runner whose counters are attached, or "None"
    kicked                  \* that runner published KICK and cancels itself next

lifecycleVars == <<state, pendingPlan, lastPlanGeneration, deviceId>>
queueVars     == <<events, nextSequence>>
requestVars   == <<pendingSocketProtect, pendingServerIdentity>>
pathVars      == <<pendingPathCommand, pathCandidate, queuedPathCandidate,
                   nextPathCandidateId, lastPathUpdate, roam>>
tunVars       == <<attachedTun, packetTun>>
runtimeVars   == <<runtimeCancel, runtimeActive, runner, kicked>>
coreVars      == <<lifecycleVars, queueVars, requestVars, pathVars, tunVars,
                   runtimeVars>>

-----------------------------------------------------------------------------
States == {"Created", "Connecting", "AwaitingNetwork", "Running", "Failed",
           "Stopping", "Stopped"}
LifecycleKinds == {"StateChanged", "NetworkPlan", "SocketProtect",
                   "ServerIdentity", "Notice", "Kick", "Error"}
PathKinds == {"PathCommand", "PathRefresh"}
Actions == {"PREPARE", "BIND", "COMMIT", "ABORT"}
Outcomes == {"Accepted", "Rejected", "PlatformStateUnknown"}

Event == [seq : Nat, kind : LifecycleKinds \cup PathKinds, state : States,
          action : Actions \cup {"None"}, subject : Nat]

\* The command each phase waits for; Prepared and Bound wait for the transport.
PhaseAction == [Preparing |-> "PREPARE", Binding |-> "BIND",
                Committing |-> "COMMIT", Aborting |-> "ABORT"]
PendingPhases == {"Preparing", "Binding", "Committing", "Aborting"}
Runners == {"None", "Active", "Ended", "Cancelled"}
Phases == PendingPhases \cup {"None", "Prepared", "Bound"}

PathCandidate == [id : Nat, generation : Nat, phase : Phases, pending : Nat,
                  failed : BOOLEAN]
QueuedPathCandidate == [id : Nat, generation : Nat]
RoamCounters == [attempts : Nat, successes : Nat, failures : Nat, fallbacks : Nat]

NoCandidate == [id |-> 0, generation |-> 0, phase |-> "None", pending |-> 0,
                failed |-> FALSE]
NoQueued == [id |-> 0, generation |-> 0]
NoPacketTun == [bridge |-> 0, pump |-> 0]

Active == pathCandidate.id # 0

-----------------------------------------------------------------------------
(* The event queue.                                                        *)

\* require_event_slots on a queue that already lost some events.
HasRoom(queue, count) == Cardinality(queue) + count <= EventCapacity

\* The n-th event pushed by this call.
NewEvent(n, kind, st) ==
    [seq |-> nextSequence + n, kind |-> kind, state |-> st,
     action |-> "None", subject |-> 0]
PlanEvent(n, st, generation) ==
    [NewEvent(n, "NetworkPlan", st) EXCEPT !.subject = generation]
RefreshEvent == [NewEvent(0, "PathRefresh", state) EXCEPT !.subject = lastPlanGeneration]
CommandEvent(action, candidate) ==
    [seq |-> nextSequence, kind |-> "PathCommand", state |-> state,
     action |-> action, subject |-> candidate]

\* push_event: `kept` is what remains of the queue, `new` the `count` pushed events.
Push(kept, new, count) ==
    /\ events' = kept \cup new
    /\ nextSequence' = nextSequence + count

WithoutPathEvents(queue) == {e \in queue : e.kind \notin PathKinds}
BugCommandStaysQueued(queue, seq) == queue
WithoutCommand(queue, seq) ==
    {e \in queue : ~(e.kind = "PathCommand" /\ e.seq = seq)}
CommandQueued(seq) == \E e \in events : e.kind = "PathCommand" /\ e.seq = seq

\* What pop_front leaves behind while more than `limit` events are queued.
IsNewest(kept, queue, limit) ==
    /\ kept \subseteq queue
    /\ \A e \in kept, d \in queue \ kept : d.seq < e.seq
    /\ Cardinality(kept) = IF Cardinality(queue) <= limit
                           THEN Cardinality(queue) ELSE limit

\* An event that is no longer queued: only such a sequence can be acknowledged.
Delivered(seq) == seq < nextSequence /\ \A e \in events : e.seq # seq

-----------------------------------------------------------------------------
(* ClientCore::new                                                         *)

Init ==
    /\ state = "Created"
    /\ events = {[seq |-> 1, kind |-> "StateChanged", state |-> "Created",
                  action |-> "None", subject |-> 0]}
    /\ nextSequence = 2
    /\ pendingPlan = 0
    /\ pendingSocketProtect = {}
    /\ pendingServerIdentity = {}
    /\ pendingPathCommand = {}
    /\ lastPlanGeneration = 0
    /\ pathCandidate = NoCandidate
    /\ queuedPathCandidate = NoQueued
    /\ nextPathCandidateId = 1
    /\ lastPathUpdate = [generation |-> 0, id |-> 0, candidate |-> 0]
    /\ roam = [attempts |-> 0, successes |-> 0, failures |-> 0, fallbacks |-> 0]
    /\ attachedTun = 0
    /\ packetTun = NoPacketTun
    /\ deviceId = FALSE
    /\ runtimeCancel = FALSE
    /\ runtimeActive = FALSE
    /\ runner = "None"
    /\ kicked = FALSE

-----------------------------------------------------------------------------
(* Lifecycle.                                                              *)

\* What start, stop and publish_runtime_failure all reset.
ClearPaths ==
    /\ pendingPathCommand' = {}
    /\ pathCandidate' = NoCandidate
    /\ queuedPathCandidate' = NoQueued

ReleaseTun ==
    /\ attachedTun' = 0
    /\ packetTun' = NoPacketTun

ClearSession ==
    /\ pendingPlan' = 0
    /\ pendingSocketProtect' = {}
    /\ pendingServerIdentity' = {}
    /\ ClearPaths
    /\ ReleaseTun

\* record_path_failure: once per candidate.
BugFailureCountedTwice == IF Active THEN [roam EXCEPT !.failures = @ + 1] ELSE roam
FailureRecorded == IF Active /\ ~pathCandidate.failed
                   THEN [roam EXCEPT !.failures = @ + 1] ELSE roam

SetDeviceId ==
    /\ state \in {"Created", "Stopped"}
    /\ deviceId' = TRUE
    /\ UNCHANGED <<state, pendingPlan, lastPlanGeneration, queueVars,
                   requestVars, pathVars, tunVars, runtimeVars>>

\* The queue holds no path event in these two states, so a full queue makes the
\* call fail without effect.
Start ==
    /\ state \in {"Created", "Stopped"}
    /\ HasRoom(WithoutPathEvents(events), 1)
    /\ ClearSession
    /\ state' = "Connecting"
    /\ Push(WithoutPathEvents(events), {NewEvent(0, "StateChanged", "Connecting")}, 1)
    /\ runtimeCancel' = FALSE
    /\ runtimeActive' = FALSE
    /\ runner' = "None"
    /\ kicked' = FALSE
    /\ UNCHANGED <<lastPlanGeneration, deviceId, nextPathCandidateId,
                   lastPathUpdate, roam>>

\* The two reports of stop, in this order.
StopReports == {NewEvent(0, "StateChanged", "Stopping"),
                NewEvent(1, "StateChanged", "Stopped")}

Stop ==
    /\ state # "Stopped"
    /\ HasRoom(WithoutPathEvents(events), 2)
    /\ ClearSession
    /\ state' = "Stopped"
    /\ Push(WithoutPathEvents(events), StopReports, 2)
    /\ roam' = FailureRecorded
    /\ runtimeCancel' = TRUE
    /\ runtimeActive' = FALSE
    /\ UNCHANGED <<lastPlanGeneration, deviceId, nextPathCandidateId,
                   lastPathUpdate, runner, kicked>>

\* stop returns EventQueueFull, but only after it has cancelled the runner and
\* thrown away the queued path events and the waiters of path commands.
BugStopHalfway ==
    /\ state # "Stopped"
    /\ ~HasRoom(WithoutPathEvents(events), 2)
    /\ state' = "Stopping"
    /\ runtimeCancel' = TRUE
    /\ UNCHANGED <<pendingPlan, lastPlanGeneration, deviceId, queueVars,
                   requestVars, pathVars, tunVars, runtimeActive,
                   runner, kicked>>

StopQueueFull ==
    /\ state # "Stopped"
    /\ ~HasRoom(WithoutPathEvents(events), 2)
    /\ runtimeCancel' = TRUE
    /\ events' = WithoutPathEvents(events)
    /\ pendingPathCommand' = {}
    /\ UNCHANGED <<lifecycleVars, nextSequence, requestVars, pathCandidate,
                   queuedPathCandidate, nextPathCandidateId, lastPathUpdate,
                   roam, tunVars, runtimeActive, runner, kicked>>

-----------------------------------------------------------------------------
(* The native runner's bracket (runtime.rs).                               *)

\* run_async: the runner adopts the current start's flag and counters.
RunAsync ==
    /\ state = "Connecting"
    /\ ~runtimeActive
    /\ deviceId
    /\ runtimeActive' = TRUE
    /\ runner' = "Active"
    /\ UNCHANGED <<lifecycleVars, queueVars, requestVars, pathVars, tunVars,
                   runtimeCancel, kicked>>

\* The attempt is over and run_async has read the flag, without the core's lock;
\* finish_generation uses what it read.
EndAttempt ==
    /\ runner = "Active"
    /\ kicked => runtimeCancel
    /\ runner' = IF runtimeCancel THEN "Cancelled" ELSE "Ended"
    /\ UNCHANGED <<lifecycleVars, queueVars, requestVars, pathVars, tunVars,
                   runtimeCancel, runtimeActive, kicked>>

\* finish_generation of a cancelled or stopped runner.
FinishCancelled ==
    /\ \/ runner = "Cancelled"
       \/ runner = "Ended" /\ state = "Stopped"
    /\ runner' = "None"
    /\ runtimeActive' = FALSE
    /\ UNCHANGED <<lifecycleVars, queueVars, requestVars, pathVars, tunVars,
                   runtimeCancel, kicked>>

\* finish_generation and publish_runtime_failure: the terminal failure preempts
\* the oldest events.
FinishFailed ==
    /\ runner = "Ended"
    /\ state # "Stopped"
    /\ \E kept \in SUBSET events :
          /\ IsNewest(kept, WithoutPathEvents(events), EventCapacity - 2)
          /\ Push(kept, {NewEvent(0, "Error", "Failed"),
                         NewEvent(1, "StateChanged", "Failed")}, 2)
    /\ ClearSession
    /\ state' = "Failed"
    /\ roam' = FailureRecorded
    /\ runner' = "None"
    /\ runtimeActive' = FALSE
    /\ UNCHANGED <<lastPlanGeneration, deviceId, nextPathCandidateId,
                   lastPathUpdate, runtimeCancel, kicked>>

\* publish_management: a NOTICE needs a free slot, a KICK preempts the oldest event.
PublishNotice ==
    /\ runner = "Active"
    /\ HasRoom(events, 1)
    /\ Push(events, {NewEvent(0, "Notice", state)}, 1)
    /\ UNCHANGED <<lifecycleVars, requestVars, pathVars, tunVars, runtimeVars>>

PublishKick ==
    /\ runner = "Active"
    /\ \E kept \in SUBSET events :
          /\ IsNewest(kept, events, EventCapacity - 1)
          /\ Push(kept, {NewEvent(0, "Kick", state)}, 1)
    /\ kicked' = TRUE
    /\ UNCHANGED <<lifecycleVars, requestVars, pathVars, tunVars,
                   runtimeCancel, runtimeActive, runner>>

\* management_event stores the flag after it has released the core.
CancelKicked ==
    /\ kicked
    /\ runner = "Active"
    /\ ~runtimeCancel
    /\ runtimeCancel' = TRUE
    /\ UNCHANGED <<lifecycleVars, queueVars, requestVars, pathVars, tunVars,
                   runtimeActive, runner, kicked>>

-----------------------------------------------------------------------------
(* The network plan and the tunnel device.                                 *)

NewerPlan(generation) == generation > lastPlanGeneration

PublishNetworkPlan(generation) ==
    /\ state \in {"Connecting", "Running"}
    /\ ~Active
    /\ queuedPathCandidate = NoQueued
    /\ pendingPlan = 0
    /\ NewerPlan(generation)
    /\ HasRoom(events, 2)
    /\ pendingPlan' = generation
    /\ state' = "AwaitingNetwork"
    /\ Push(events, {NewEvent(0, "StateChanged", "AwaitingNetwork"),
                     PlanEvent(1, "AwaitingNetwork", generation)}, 2)
    /\ UNCHANGED <<lastPlanGeneration, deviceId, requestVars, pathVars,
                   tunVars, runtimeVars>>

\* attach_tun_fd, attach_wintun
AttachTun(generation) ==
    /\ "TUN_FD" \in Capabilities
    /\ state = "AwaitingNetwork"
    /\ generation = pendingPlan
    /\ attachedTun' = generation
    /\ UNCHANGED <<lifecycleVars, queueVars, requestVars, pathVars, packetTun,
                   runtimeVars>>

PlanIsPending(generation) ==
    /\ state = "AwaitingNetwork"
    /\ pendingPlan # 0
    /\ generation = pendingPlan

BugAnyTun(generation) == "TUN_FD" \in Capabilities => attachedTun # 0
TunIsAttached(generation) == "TUN_FD" \in Capabilities => attachedTun = generation

AckNetworkPlanApplied(generation) ==
    /\ PlanIsPending(generation)
    /\ TunIsAttached(generation)
    /\ HasRoom(events, 1)
    /\ pendingPlan' = 0
    /\ lastPlanGeneration' = generation
    /\ packetTun' = IF "TUN_PACKET_BATCH" \in Capabilities
                    THEN [bridge |-> generation, pump |-> generation]
                    ELSE packetTun
    /\ state' = "Running"
    /\ Push(events, {NewEvent(0, "StateChanged", "Running")}, 1)
    /\ UNCHANGED <<deviceId, requestVars, pathVars, attachedTun, runtimeVars>>

AckNetworkPlanRejected(generation) ==
    /\ PlanIsPending(generation)
    /\ HasRoom(events, 2)
    /\ pendingPlan' = 0
    /\ lastPlanGeneration' = generation
    /\ attachedTun' = IF attachedTun = generation THEN 0 ELSE attachedTun
    /\ state' = "Failed"
    /\ Push(events, {NewEvent(0, "Error", "Failed"),
                     NewEvent(1, "StateChanged", "Failed")}, 2)
    /\ UNCHANGED <<deviceId, requestVars, pathVars, packetTun, runtimeVars>>

\* take_attached_tun_fds, take_attached_wintun: one-shot.
TakeAttachedTun(generation) ==
    /\ state = "Running"
    /\ attachedTun # 0
    /\ attachedTun = generation
    /\ attachedTun' = 0
    /\ UNCHANGED <<lifecycleVars, queueVars, requestVars, pathVars, packetTun,
                   runtimeVars>>

TakePacketTunPump(generation) ==
    /\ state = "Running"
    /\ packetTun.pump # 0
    /\ packetTun.pump = generation
    /\ packetTun' = [packetTun EXCEPT !.pump = 0]
    /\ UNCHANGED <<lifecycleVars, queueVars, requestVars, pathVars,
                   attachedTun, runtimeVars>>

-----------------------------------------------------------------------------
(* One-shot platform requests.                                             *)

RequestSocketProtect ==
    /\ "SOCKET_PROTECT" \in Capabilities
    /\ state \in {"Connecting", "Running"}
    /\ HasRoom(events, 1)
    /\ Push(events, {NewEvent(0, "SocketProtect", state)}, 1)
    /\ pendingSocketProtect' = pendingSocketProtect \cup {nextSequence}
    /\ UNCHANGED <<lifecycleVars, pendingServerIdentity, pathVars, tunVars,
                   runtimeVars>>

\* Whatever the verdict, and whether or not the requester still listens.
AckSocketProtect(seq) ==
    /\ seq \in pendingSocketProtect
    /\ pendingSocketProtect' = pendingSocketProtect \ {seq}
    /\ UNCHANGED <<lifecycleVars, queueVars, pendingServerIdentity, pathVars,
                   tunVars, runtimeVars>>

RequestServerIdentity ==
    /\ "SERVER_IDENTITY" \in Capabilities
    /\ state \in {"Connecting", "Running"}
    /\ HasRoom(events, 1)
    /\ Push(events, {NewEvent(0, "ServerIdentity", state)}, 1)
    /\ pendingServerIdentity' = pendingServerIdentity \cup {nextSequence}
    /\ UNCHANGED <<lifecycleVars, pendingSocketProtect, pathVars, tunVars,
                   runtimeVars>>

\* A trusted key, or an answer to a requester that stopped listening.
AckServerIdentityTrusted(seq) ==
    /\ seq \in pendingServerIdentity
    /\ pendingServerIdentity' = pendingServerIdentity \ {seq}
    /\ UNCHANGED <<lifecycleVars, queueVars, pendingSocketProtect, pathVars,
                   tunVars, runtimeVars>>

\* An untrusted key fails the client at once; a pending plan or a path candidate
\* is left where it is.
AckServerIdentityRejected(seq) ==
    /\ HasRoom(events, 2)
    /\ seq \in pendingServerIdentity
    /\ pendingServerIdentity' = pendingServerIdentity \ {seq}
    /\ state' = "Failed"
    /\ Push(events, {NewEvent(0, "Error", "Failed"),
                     NewEvent(1, "StateChanged", "Failed")}, 2)
    /\ UNCHANGED <<pendingPlan, lastPlanGeneration, deviceId,
                   pendingSocketProtect, pathVars, tunVars, runtimeVars>>

-----------------------------------------------------------------------------
(* The path transaction: PREPARE, BIND, COMMIT on the platform, each of    *)
(* them acknowledged, with ABORT as the only way back.                     *)

PathsEnabled == "ROAMING_PATH" \in Capabilities /\ state = "Running"

\* start_path_candidate: `kept` and `counters` are the queue and the statistics
\* the caller has already updated.
StartPathCandidate(candidate, kept, counters) ==
    /\ Push(kept, {CommandEvent("PREPARE", candidate.id)}, 1)
    /\ pathCandidate' = [id |-> candidate.id, generation |-> candidate.generation,
                         phase |-> "Preparing", pending |-> nextSequence,
                         failed |-> FALSE]
    /\ roam' = [counters EXCEPT !.attempts = @ + 1]

BugAbortKeepsPending ==
    /\ Push(WithoutCommand(events, pathCandidate.pending),
            {CommandEvent("ABORT", pathCandidate.id)}, 1)
    /\ pathCandidate' = [pathCandidate EXCEPT !.phase = "Aborting", !.failed = TRUE]
    /\ roam' = FailureRecorded

\* begin_path_abort, without the waiter it removes (WaitersWithoutPending).
BeginPathAbort ==
    /\ Push(WithoutCommand(events, pathCandidate.pending),
            {CommandEvent("ABORT", pathCandidate.id)}, 1)
    /\ pathCandidate' = [pathCandidate EXCEPT !.phase = "Aborting",
                                              !.pending = nextSequence,
                                              !.failed = TRUE]
    /\ roam' = FailureRecorded

WaitersWithoutPending == pendingPathCommand \ {pathCandidate.pending}

\* The checks of submit_path_update before it allocates an id.
NewPathUpdate(generation, update) ==
    /\ PathsEnabled
    /\ generation = lastPlanGeneration
    /\ lastPathUpdate.generation = generation => update > lastPathUpdate.id

\* What a newer observation means for the candidate in progress: the platform
\* has not seen PREPARE and nothing needs a rollback, the candidate must be
\* rolled back first, or it is past the point where it may be superseded.
PrepareUnseen == pathCandidate.phase = "Preparing" /\ CommandQueued(pathCandidate.pending)

BugSupersedeCommit ==
    \/ pathCandidate.phase \in {"Binding", "Prepared", "Bound", "Committing"}
    \/ pathCandidate.phase = "Preparing" /\ ~PrepareUnseen
MustRollBack ==
    \/ pathCandidate.phase \in {"Binding", "Prepared", "Bound"}
    \/ pathCandidate.phase = "Preparing" /\ ~PrepareUnseen
IsFinishing == pathCandidate.phase \in {"Aborting", "Committing"}

\* The slots submit_path_update asks for.
BugSlotsIgnoreDelivery ==
    IF Active /\ (IsFinishing \/ pathCandidate.phase \in {"Preparing", "Binding"})
    THEN 0 ELSE 1
SubmitSlots ==
    IF /\ Active
       /\ \/ IsFinishing
          \/ /\ pathCandidate.phase \in {"Preparing", "Binding"}
             /\ CommandQueued(pathCandidate.pending)
    THEN 0 ELSE 1

AcceptUpdate(generation, update) ==
    /\ NewPathUpdate(generation, update)
    /\ HasRoom(events, SubmitSlots)
    /\ nextPathCandidateId' = nextPathCandidateId + 1
    /\ lastPathUpdate' = [generation |-> generation, id |-> update,
                          candidate |-> nextPathCandidateId]
    /\ UNCHANGED <<lifecycleVars, requestVars, tunVars, runtimeVars>>

SubmittedCandidate(generation) == [id |-> nextPathCandidateId, generation |-> generation]

SubmitFirst(generation, update) ==
    /\ ~Active
    /\ AcceptUpdate(generation, update)
    /\ StartPathCandidate(SubmittedCandidate(generation), events, roam)
    /\ UNCHANGED <<queuedPathCandidate, pendingPathCommand>>

\* Behind ABORT and COMMIT only the newest observation waits.
BugKeepFirstObservation(generation, update) ==
    /\ IsFinishing
    /\ AcceptUpdate(generation, update)
    /\ queuedPathCandidate' = IF queuedPathCandidate = NoQueued
                              THEN SubmittedCandidate(generation) ELSE queuedPathCandidate
    /\ UNCHANGED <<queueVars, pathCandidate, pendingPathCommand, roam>>
SubmitBehind(generation, update) ==
    /\ IsFinishing
    /\ AcceptUpdate(generation, update)
    /\ queuedPathCandidate' = SubmittedCandidate(generation)
    /\ UNCHANGED <<queueVars, pathCandidate, pendingPathCommand, roam>>

SubmitReplacesUnseen(generation, update) ==
    /\ PrepareUnseen
    /\ AcceptUpdate(generation, update)
    /\ StartPathCandidate(SubmittedCandidate(generation),
                          WithoutCommand(events, pathCandidate.pending),
                          FailureRecorded)
    /\ pendingPathCommand' = WaitersWithoutPending
    /\ UNCHANGED queuedPathCandidate

SubmitSupersedes(generation, update) ==
    /\ MustRollBack
    /\ AcceptUpdate(generation, update)
    /\ queuedPathCandidate' = SubmittedCandidate(generation)
    /\ BeginPathAbort
    /\ pendingPathCommand' = WaitersWithoutPending

\* The id is allocated before the queue is found to be full.
SubmitQueueFull(generation, update) ==
    /\ NewPathUpdate(generation, update)
    /\ ~HasRoom(events, SubmitSlots)
    /\ nextPathCandidateId' = nextPathCandidateId + 1
    /\ UNCHANGED <<lifecycleVars, queueVars, requestVars, pendingPathCommand,
                   pathCandidate, queuedPathCandidate, lastPathUpdate, roam,
                   tunVars, runtimeVars>>

RequestPathRefresh ==
    /\ PathsEnabled
    /\ "PATH_REFRESH" \in Capabilities
    /\ HasRoom(events, 1)
    /\ Push(events, {RefreshEvent}, 1)
    /\ UNCHANGED <<lifecycleVars, requestVars, pathVars, tunVars, runtimeVars>>

\* The two requests of the transport that move the candidate forward.
RequestCommand(candidate, from, to) ==
    /\ PathsEnabled
    /\ Active
    /\ pathCandidate.id = candidate
    /\ pathCandidate.generation = lastPlanGeneration
    /\ pathCandidate.phase = from
    /\ pathCandidate.pending = 0
    /\ HasRoom(events, 1)
    /\ Push(events, {CommandEvent(PhaseAction[to], candidate)}, 1)
    /\ pathCandidate' = [pathCandidate EXCEPT !.phase = to, !.pending = nextSequence]
    /\ pendingPathCommand' = pendingPathCommand \cup {nextSequence}
    /\ UNCHANGED <<lifecycleVars, requestVars, queuedPathCandidate,
                   nextPathCandidateId, lastPathUpdate, roam, tunVars, runtimeVars>>

RequestCandidateSocketBinding(candidate) == RequestCommand(candidate, "Prepared", "Binding")
CandidatePathValidated(candidate) == RequestCommand(candidate, "Bound", "Committing")

AbortCandidatePath(candidate) ==
    /\ PathsEnabled
    /\ Active
    /\ pathCandidate.id = candidate
    /\ pathCandidate.generation = lastPlanGeneration
    /\ pathCandidate.phase # "Aborting"
    /\ HasRoom(events, 1)
    /\ BeginPathAbort
    /\ pendingPathCommand' = WaitersWithoutPending \cup {nextSequence}
    /\ UNCHANGED <<lifecycleVars, requestVars, queuedPathCandidate,
                   nextPathCandidateId, lastPathUpdate, tunVars, runtimeVars>>

-----------------------------------------------------------------------------
(* ack_path_command.                                                       *)

\* The correlation check: any other acknowledgement is StaleRequest.
AckMatches(generation, candidate, seq) ==
    /\ PathsEnabled
    /\ generation = lastPlanGeneration
    /\ Active
    /\ pathCandidate.id = candidate
    /\ pathCandidate.generation = generation
    /\ pathCandidate.pending = seq

AckFrame == UNCHANGED <<lifecycleVars, requestVars, nextPathCandidateId,
                        lastPathUpdate, tunVars, runtimeVars>>

\* PREPARE or BIND accepted.
AckAdvances(generation, candidate, seq) ==
    /\ AckMatches(generation, candidate, seq)
    /\ pathCandidate.phase \in {"Preparing", "Binding"}
    /\ pathCandidate' = [pathCandidate EXCEPT
          !.phase = IF @ = "Preparing" THEN "Prepared" ELSE "Bound",
          !.pending = 0]
    /\ pendingPathCommand' = pendingPathCommand \ {seq}
    /\ UNCHANGED <<queueVars, queuedPathCandidate, roam>>
    /\ AckFrame

\* COMMIT or ABORT accepted: the transaction ends and a queued candidate starts.
AckCompletes(generation, candidate, seq) ==
    /\ AckMatches(generation, candidate, seq)
    /\ pathCandidate.phase \in {"Committing", "Aborting"}
    /\ LET counters == IF pathCandidate.phase = "Committing"
                       THEN [roam EXCEPT !.successes = @ + 1] ELSE roam
       IN  \/ /\ queuedPathCandidate = NoQueued
              /\ pathCandidate' = NoCandidate
              /\ roam' = counters
              /\ UNCHANGED <<queueVars, queuedPathCandidate>>
           \/ /\ queuedPathCandidate # NoQueued
              /\ HasRoom(events, 1)
              /\ StartPathCandidate(queuedPathCandidate, events, counters)
              /\ queuedPathCandidate' = NoQueued
    /\ pendingPathCommand' = pendingPathCommand \ {seq}
    /\ AckFrame

\* Any failure of ABORT, and an unknown platform state, give the candidates up.
AckGivesUp(generation, candidate, seq, outcome) ==
    /\ AckMatches(generation, candidate, seq)
    /\ \/ pathCandidate.phase = "Aborting" /\ outcome # "Accepted"
       \/ outcome = "PlatformStateUnknown"
    /\ roam' = [FailureRecorded EXCEPT !.fallbacks = @ + 1]
    /\ pathCandidate' = NoCandidate
    /\ queuedPathCandidate' = NoQueued
    /\ \/ /\ pathCandidate.phase = "Aborting"
          /\ pendingPathCommand' = pendingPathCommand \ {seq}
          /\ UNCHANGED queueVars
       \/ /\ pathCandidate.phase # "Aborting"
          /\ pendingPathCommand' = {}
          /\ events' = WithoutPathEvents(events)
          /\ UNCHANGED nextSequence
    /\ AckFrame

\* PREPARE, BIND or COMMIT rejected: the rollback is mandatory.
AckRollsBack(generation, candidate, seq) ==
    /\ AckMatches(generation, candidate, seq)
    /\ pathCandidate.phase \in {"Preparing", "Binding", "Committing"}
    /\ HasRoom(events, 1)
    /\ BeginPathAbort
    /\ pendingPathCommand' = pendingPathCommand \ {seq}
    /\ UNCHANGED queuedPathCandidate
    /\ AckFrame

AckPathCommand(generation, candidate, seq, outcome) ==
    \/ outcome = "Accepted" /\ AckAdvances(generation, candidate, seq)
    \/ outcome = "Accepted" /\ AckCompletes(generation, candidate, seq)
    \/ AckGivesUp(generation, candidate, seq, outcome)
    \/ outcome = "Rejected" /\ AckRollsBack(generation, candidate, seq)

\* ack_path_command finds the queue full and refuses an answer that would push.
AckQueueFull(generation, candidate, seq, outcome) ==
    /\ AckMatches(generation, candidate, seq)
    /\ \/ /\ outcome = "Accepted"
          /\ pathCandidate.phase \in {"Committing", "Aborting"}
          /\ queuedPathCandidate # NoQueued
       \/ outcome = "Rejected" /\ pathCandidate.phase # "Aborting"
    /\ ~HasRoom(events, 1)

\* poll_event takes the oldest event.
PollEvent(e) ==
    /\ e \in events
    /\ \A other \in events : e.seq <= other.seq
    /\ events' = events \ {e}
    /\ UNCHANGED <<lifecycleVars, nextSequence, requestVars, pathVars, tunVars,
                   runtimeVars>>

\* poll_path_event takes the oldest path command past the other events.
PollPathEvent(e) ==
    /\ e \in events
    /\ e.kind = "PathCommand"
    /\ \A other \in events : other.kind = "PathCommand" => e.seq <= other.seq
    /\ events' = events \ {e}
    /\ UNCHANGED <<lifecycleVars, nextSequence, requestVars, pathVars, tunVars,
                   runtimeVars>>

-----------------------------------------------------------------------------
(* Any caller, bounded.                                                    *)

LifecycleCall ==
    \/ SetDeviceId
    \/ Start
    \/ Stop
    \/ StopQueueFull
    \/ RunAsync
    \/ EndAttempt
    \/ FinishCancelled
    \/ FinishFailed
    \/ PublishNotice
    \/ PublishKick
    \/ CancelKicked

PlanCall(generation) ==
    \/ PublishNetworkPlan(generation)
    \/ AttachTun(generation)
    \/ AckNetworkPlanApplied(generation)
    \/ AckNetworkPlanRejected(generation)
    \/ TakeAttachedTun(generation)
    \/ TakePacketTunPump(generation)

RequestCall(seq) ==
    \/ RequestSocketProtect
    \/ RequestServerIdentity
    \/ Delivered(seq) /\ AckSocketProtect(seq)
    \/ Delivered(seq) /\ AckServerIdentityTrusted(seq)
    \/ Delivered(seq) /\ AckServerIdentityRejected(seq)

SubmitPathUpdate(generation, update) ==
    \/ SubmitFirst(generation, update)
    \/ SubmitBehind(generation, update)
    \/ SubmitReplacesUnseen(generation, update)
    \/ SubmitSupersedes(generation, update)
    \/ SubmitQueueFull(generation, update)

TransportCall(candidate) ==
    \/ RequestPathRefresh
    \/ RequestCandidateSocketBinding(candidate)
    \/ CandidatePathValidated(candidate)
    \/ AbortCandidatePath(candidate)

Next ==
    \/ \E e \in events : PollEvent(e) \/ PollPathEvent(e)
    \/ /\ nextSequence <= MaxSequence
       /\ nextPathCandidateId <= MaxCandidate
       /\ \/ LifecycleCall
          \/ \E generation \in 1..MaxGeneration : PlanCall(generation)
          \/ \E seq \in 1..MaxSequence : RequestCall(seq)
          \/ \E generation \in 1..MaxGeneration, update \in 1..MaxUpdate :
                SubmitPathUpdate(generation, update)
          \/ \E candidate \in 1..MaxCandidate : TransportCall(candidate)
          \/ \E generation \in 1..MaxGeneration, candidate \in 1..MaxCandidate,
                seq \in 1..MaxSequence, outcome \in Outcomes :
                   /\ Delivered(seq)
                   /\ AckPathCommand(generation, candidate, seq, outcome)

Spec == Init /\ [][Next]_coreVars

-----------------------------------------------------------------------------
(* Properties.                                                             *)

\* Every field has the type the struct declares for it.
TypeOK ==
    /\ state \in States \ {"Stopping"}
    /\ events \subseteq Event
    /\ nextSequence \in Nat \ {0}
    /\ pendingPlan \in Nat
    /\ pendingSocketProtect \subseteq Nat
    /\ pendingServerIdentity \subseteq Nat
    /\ pendingPathCommand \subseteq Nat
    /\ lastPlanGeneration \in Nat
    /\ pathCandidate \in PathCandidate
    /\ queuedPathCandidate \in QueuedPathCandidate
    /\ nextPathCandidateId \in Nat \ {0}
    /\ lastPathUpdate \in [generation : Nat, id : Nat, candidate : Nat]
    /\ roam \in RoamCounters
    /\ attachedTun \in Nat
    /\ packetTun \in [bridge : Nat, pump : Nat]
    /\ deviceId \in BOOLEAN
    /\ runtimeCancel \in BOOLEAN
    /\ runtimeActive \in BOOLEAN
    /\ runner \in Runners
    /\ kicked \in BOOLEAN

\* push_event and push_path_event assert that the queue is below its capacity:
\* no call pushes more than it reserved, even the ones that reserve nothing
\* because they first remove the command they replace.
QueueWithinCapacity == IsFiniteSet(events) /\ Cardinality(events) <= EventCapacity

\* A path command waits in the queue only for the candidate that is waiting for
\* it: superseding, aborting or giving up a candidate never leaves its old
\* command for the platform to execute.
QueuedCommandsAreCurrent ==
    \A e \in events : e.kind = "PathCommand" =>
        /\ Active
        /\ e.seq = pathCandidate.pending
        /\ e.subject = pathCandidate.id
        /\ pathCandidate.phase \in PendingPhases
        /\ e.action = PhaseAction[pathCandidate.phase]

\* A oneshot sender is kept only for the command the candidate is waiting for:
\* no waiter outlives the command it was made for.
WaitersAreCurrent ==
    \A seq \in pendingPathCommand : Active /\ seq = pathCandidate.pending

\* A candidate exists only in the generation that is running (or has failed),
\* with a pending command exactly in the phases that wait for the platform.
CandidateInGeneration ==
    /\ Active => /\ state \in {"Running", "Failed"}
                 /\ pathCandidate.generation = lastPlanGeneration
                 /\ pathCandidate.phase # "None"
                 /\ pathCandidate.pending < nextSequence
    /\ ~Active => pathCandidate = NoCandidate
    /\ pathCandidate.phase \in PendingPhases <=> pathCandidate.pending # 0

\* Only a candidate being rolled back or committed has a successor waiting.
QueuedBehindTerminalPhase ==
    queuedPathCandidate # NoQueued =>
        /\ pathCandidate.phase \in {"Aborting", "Committing"}
        /\ queuedPathCandidate.generation = lastPlanGeneration
        /\ queuedPathCandidate.id > pathCandidate.id

\* Together: a platform is never asked, nor waited for, on behalf of anything but
\* the candidate in progress of the current generation.
CommandsAreCurrent ==
    /\ QueuedCommandsAreCurrent /\ WaitersAreCurrent
    /\ CandidateInGeneration /\ QueuedBehindTerminalPhase

\* Of several observations that arrive while a transaction is open, the newest
\* accepted one is what the core works on next.
NewestObservationWins ==
    /\ queuedPathCandidate # NoQueued =>
          queuedPathCandidate.id = lastPathUpdate.candidate
    /\ Active /\ queuedPathCandidate = NoQueued =>
          pathCandidate.id = lastPathUpdate.candidate
    /\ lastPathUpdate.candidate < nextPathCandidateId

\* The statistics agree: every started candidate is a success, a failure, or the
\* one in progress whose failure is not recorded yet.
RoamAccounting ==
    roam.attempts = roam.successes + roam.failures
                    + (IF Active /\ ~pathCandidate.failed THEN 1 ELSE 0)

\* While running, the tunnel device a runner could take belongs to the plan the
\* platform acknowledged last, never to an older or to an unacknowledged one.
RunningOwnsCurrentTun ==
    state = "Running" =>
        /\ pendingPlan = 0
        /\ attachedTun \in {0, lastPlanGeneration}
        /\ packetTun.pump \in {0, lastPlanGeneration}
        /\ "TUN_PACKET_BATCH" \in Capabilities => packetTun.bridge = lastPlanGeneration

\* The plan handshake: a pending plan is newer than every acknowledged one, and
\* the core waits for the network exactly while a plan is pending, unless the
\* platform distrusted the server in the meantime.
PlanHandshake ==
    /\ pendingPlan # 0 => /\ pendingPlan > lastPlanGeneration
                          /\ state \in {"AwaitingNetwork", "Failed"}
    /\ state = "AwaitingNetwork" => pendingPlan # 0 /\ ~Active

\* A stopped core owns nothing, and no late acknowledgement can give it anything.
StoppedOwnsNothing ==
    state \in {"Created", "Stopped"} =>
        /\ pendingPlan = 0
        /\ pendingSocketProtect = {} /\ pendingServerIdentity = {}
        /\ pathCandidate = NoCandidate /\ queuedPathCandidate = NoQueued
        /\ attachedTun = 0 /\ packetTun = NoPacketTun
        /\ \A e \in events : e.kind \notin PathKinds

\* Together: through stops, starts, failures and late answers the core holds the
\* plan, the device and the requests of the current generation, or nothing.
GenerationsAreKeptApart == RunningOwnsCurrentTun /\ PlanHandshake /\ StoppedOwnsNothing

=============================================================================
