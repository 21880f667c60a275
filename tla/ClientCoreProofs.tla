-------------------------- MODULE ClientCoreProofs --------------------------
(***************************************************************************)
(* Proofs about the client core for every value of its constants: the type *)
(* invariant; that the event queue stays within its capacity although each *)
(* operation reserves its slots before it knows how many it will free; the *)
(* invariants of the path transaction; and that plan, device and requests  *)
(* belong to one generation.                                               *)
(***************************************************************************)
EXTENDS ClientCore, FiniteSetTheorems, TLAPS

USE DEF coreVars, lifecycleVars, queueVars, requestVars, pathVars, tunVars,
        runtimeVars

-----------------------------------------------------------------------------
(* Calls with arguments of any size.                                       *)

\* Next without the bounds that make the state space finite: what the proofs are
\* about.  A plan has a positive generation, and only what the platform has taken
\* out of the queue is acknowledged.
Delivery == \E e \in events : PollEvent(e) \/ PollPathEvent(e)

MethodCall ==
    \/ LifecycleCall
    \/ \E generation \in Nat \ {0} : PlanCall(generation)
    \/ \E seq \in Nat : RequestCall(seq)
    \/ \E generation, update \in Nat : SubmitPathUpdate(generation, update)
    \/ \E candidate \in Nat : TransportCall(candidate)
    \/ \E generation, candidate, seq \in Nat, outcome \in Outcomes :
          /\ Delivered(seq)
          /\ AckPathCommand(generation, candidate, seq, outcome)

AnyCall == Delivery \/ MethodCall

\* Every step the bounded specification takes is such a call.
LEMMA BoundedCalls == [Next]_coreVars => [AnyCall]_coreVars
<1>1. /\ \A n \in 1..MaxSequence : n \in Nat
      /\ \A n \in 1..MaxGeneration : n \in Nat \ {0}
      /\ \A n \in 1..MaxUpdate : n \in Nat
      /\ \A n \in 1..MaxCandidate : n \in Nat
    BY BoundAssumption
<1> QED
    BY <1>1, Zenon DEF Next, AnyCall, Delivery, MethodCall

-----------------------------------------------------------------------------
(* Types of the building blocks.                                           *)

(* The cleared values clear_path_session and clear_tun leave behind are
   values of the candidate, queued-candidate and TUN-slot types. *)
LEMMA NoneTypes ==
    /\ NoCandidate \in PathCandidate
    /\ NoQueued \in QueuedPathCandidate
    /\ NoPacketTun \in [bridge : Nat, pump : Nat]
BY DEF NoCandidate, NoQueued, NoPacketTun, PathCandidate, QueuedPathCandidate,
       Phases, PendingPhases

(* record_path_failure keeps the roaming counters natural numbers. *)
LEMMA FailureRecordedType ==
    ASSUME roam \in RoamCounters
    PROVE  FailureRecorded \in RoamCounters
BY DEF FailureRecorded, RoamCounters

(* Every constructor of a ClientEvent (lifecycle, network plan, refresh,
   path command) builds a member of the event type. *)
LEMMA EventTypes ==
    ASSUME TypeOK
    PROVE  /\ \A n \in Nat, kind \in LifecycleKinds, st \in States :
                 NewEvent(n, kind, st) \in Event
           /\ \A n \in Nat, st \in States, generation \in Nat :
                 PlanEvent(n, st, generation) \in Event
           /\ RefreshEvent \in Event
           /\ \A action \in Actions, candidate \in Nat :
                 CommandEvent(action, candidate) \in Event
<1> USE DEF TypeOK, Event, NewEvent, LifecycleKinds, PathKinds, States
<1>1. \A n \in Nat, kind \in LifecycleKinds, st \in States : NewEvent(n, kind, st) \in Event
    OBVIOUS
<1>2. \A n \in Nat, st \in States, generation \in Nat : PlanEvent(n, st, generation) \in Event
    BY DEF PlanEvent
<1>3. RefreshEvent \in Event
    BY DEF RefreshEvent
<1>4. \A action \in Actions, candidate \in Nat : CommandEvent(action, candidate) \in Event
    BY DEF CommandEvent
<1> QED
    BY <1>1, <1>2, <1>3, <1>4

(* Appending events to what was kept of the queue (push_event) leaves a
   well-typed queue and a positive next sequence number. *)
LEMMA PushType ==
    ASSUME TypeOK, NEW kept \in SUBSET Event, NEW new \in SUBSET Event,
           NEW count \in Nat, Push(kept, new, count)
    PROVE  events' \subseteq Event /\ nextSequence' \in Nat \ {0}
BY DEF TypeOK, Push

(* start_path_candidate keeps the queue, the sequence counter, the
   candidate and the counters well typed. *)
LEMMA StartPathCandidateType ==
    ASSUME TypeOK, NEW queued \in QueuedPathCandidate, NEW kept \in SUBSET Event,
           NEW counters \in RoamCounters,
           StartPathCandidate(queued, kept, counters)
    PROVE  /\ events' \subseteq Event
           /\ nextSequence' \in Nat \ {0}
           /\ pathCandidate' \in PathCandidate
           /\ roam' \in RoamCounters
<1>1. CommandEvent("PREPARE", queued.id) \in Event
    BY EventTypes DEF Actions, QueuedPathCandidate
<1>2. events' \subseteq Event /\ nextSequence' \in Nat \ {0}
    BY <1>1, PushType DEF StartPathCandidate
<1>3. pathCandidate' \in PathCandidate
    BY DEF StartPathCandidate, TypeOK, PathCandidate, QueuedPathCandidate, Phases,
           PendingPhases
<1>4. roam' \in RoamCounters
    BY DEF StartPathCandidate, RoamCounters
<1> QED
    BY <1>2, <1>3, <1>4

(* begin_path_abort keeps the queue, the sequence counter, the candidate
   and the counters well typed. *)
LEMMA BeginPathAbortType ==
    ASSUME TypeOK, BeginPathAbort
    PROVE  /\ events' \subseteq Event
           /\ nextSequence' \in Nat \ {0}
           /\ pathCandidate' \in PathCandidate
           /\ roam' \in RoamCounters
<1>1. CommandEvent("ABORT", pathCandidate.id) \in Event
    BY EventTypes DEF Actions, TypeOK, PathCandidate
<1>2. WithoutCommand(events, pathCandidate.pending) \subseteq Event
    BY DEF WithoutCommand, TypeOK
<1>3. events' \subseteq Event /\ nextSequence' \in Nat \ {0}
    BY <1>1, <1>2, PushType DEF BeginPathAbort
<1>4. pathCandidate' \in PathCandidate
    BY DEF BeginPathAbort, TypeOK, PathCandidate, Phases, PendingPhases
<1>5. roam' \in RoamCounters
    BY FailureRecordedType DEF BeginPathAbort, TypeOK
<1> QED
    BY <1>3, <1>4, <1>5

(* request_path_bind and request_path_commit, which share RequestCommand,
   preserve the type invariant. *)
LEMMA RequestCommandType ==
    ASSUME TypeOK, NEW candidate \in Nat, NEW from,
           NEW to \in {"Binding", "Committing"}, RequestCommand(candidate, from, to)
    PROVE  TypeOK'
<1>1. PhaseAction[to] \in Actions
    BY DEF PhaseAction, Actions
<1>2. events' \subseteq Event /\ nextSequence' \in Nat \ {0}
    BY <1>1, EventTypes, PushType DEF RequestCommand, TypeOK
<1>3. pathCandidate' \in PathCandidate
    BY DEF RequestCommand, TypeOK, PathCandidate, Phases, PendingPhases
<1> QED
    BY <1>2, <1>3 DEF RequestCommand, TypeOK

-----------------------------------------------------------------------------
(* Every step of the core, or a step that leaves it alone, preserves the
   type invariant: one case per operation of ClientCore. *)
LEMMA TypeStep == TypeOK /\ [AnyCall]_coreVars => TypeOK'
<1> SUFFICES ASSUME TypeOK, [AnyCall]_coreVars PROVE TypeOK'
    OBVIOUS
<1> USE DEF TypeOK, LifecycleKinds, States
<1>1. CASE SetDeviceId
    BY <1>1 DEF SetDeviceId
<1>2. CASE Start
    BY <1>2, EventTypes, PushType, NoneTypes DEF Start, Runners, ClearSession, ClearPaths, ReleaseTun, WithoutPathEvents
<1>3. CASE Stop
    BY <1>3, EventTypes, PushType, NoneTypes, FailureRecordedType DEF Stop, ClearSession, ClearPaths, ReleaseTun, StopReports, WithoutPathEvents
<1>4. CASE StopQueueFull
    BY <1>4 DEF StopQueueFull, WithoutPathEvents
<1>5. CASE RunAsync
    BY <1>5 DEF RunAsync, Runners
<1>6. CASE EndAttempt
    BY <1>6 DEF EndAttempt, Runners
<1>7. CASE FinishCancelled
    BY <1>7 DEF FinishCancelled, Runners
<1>8. CASE FinishFailed
    BY <1>8, EventTypes, PushType, NoneTypes, FailureRecordedType DEF FinishFailed, Runners, ClearSession, ClearPaths, ReleaseTun, IsNewest, WithoutPathEvents
<1>9. CASE PublishNotice
    BY <1>9, EventTypes, PushType DEF PublishNotice
<1>10. CASE PublishKick
    BY <1>10, EventTypes, PushType DEF PublishKick, IsNewest
<1>11. CASE CancelKicked
    BY <1>11 DEF CancelKicked
<1>12. ASSUME NEW generation \in Nat \ {0}, PublishNetworkPlan(generation) PROVE TypeOK'
    BY <1>12, EventTypes, PushType DEF PublishNetworkPlan
<1>13. ASSUME NEW generation \in Nat \ {0}, AttachTun(generation) PROVE TypeOK'
    BY <1>13 DEF AttachTun
<1>14. ASSUME NEW generation \in Nat \ {0}, AckNetworkPlanApplied(generation) PROVE TypeOK'
    BY <1>14, EventTypes, PushType DEF AckNetworkPlanApplied, PlanIsPending
<1>15. ASSUME NEW generation \in Nat \ {0}, AckNetworkPlanRejected(generation) PROVE TypeOK'
    BY <1>15, EventTypes, PushType DEF AckNetworkPlanRejected, PlanIsPending
<1>16. ASSUME NEW generation \in Nat \ {0}, TakeAttachedTun(generation) PROVE TypeOK'
    BY <1>16 DEF TakeAttachedTun
<1>17. ASSUME NEW generation \in Nat \ {0}, TakePacketTunPump(generation) PROVE TypeOK'
    BY <1>17 DEF TakePacketTunPump
<1>18. CASE RequestSocketProtect
    BY <1>18, EventTypes, PushType DEF RequestSocketProtect
<1>19. CASE RequestServerIdentity
    BY <1>19, EventTypes, PushType DEF RequestServerIdentity
<1>20. ASSUME NEW seq \in Nat, AckSocketProtect(seq) PROVE TypeOK'
    BY <1>20 DEF AckSocketProtect
<1>21. ASSUME NEW seq \in Nat, AckServerIdentityTrusted(seq) PROVE TypeOK'
    BY <1>21 DEF AckServerIdentityTrusted
<1>22. ASSUME NEW seq \in Nat, AckServerIdentityRejected(seq) PROVE TypeOK'
    BY <1>22, EventTypes, PushType DEF AckServerIdentityRejected
<1>23. ASSUME NEW generation \in Nat, NEW update \in Nat, SubmitFirst(generation, update) PROVE TypeOK'
    BY <1>23, StartPathCandidateType DEF SubmitFirst, AcceptUpdate, SubmittedCandidate, QueuedPathCandidate
<1>24. ASSUME NEW generation \in Nat, NEW update \in Nat, SubmitBehind(generation, update) PROVE TypeOK'
    BY <1>24 DEF SubmitBehind, AcceptUpdate, SubmittedCandidate, QueuedPathCandidate
<1>25. ASSUME NEW generation \in Nat, NEW update \in Nat, SubmitReplacesUnseen(generation, update) PROVE TypeOK'
    <2>1. SubmittedCandidate(generation) \in QueuedPathCandidate
        BY DEF SubmittedCandidate, QueuedPathCandidate
    <2>2. WithoutCommand(events, pathCandidate.pending) \subseteq Event
        BY DEF WithoutCommand
    <2>3. /\ events' \subseteq Event /\ nextSequence' \in Nat \ {0}
          /\ pathCandidate' \in PathCandidate /\ roam' \in RoamCounters
        BY <1>25, <2>1, <2>2, StartPathCandidateType, FailureRecordedType DEF SubmitReplacesUnseen
    <2>4. pendingPathCommand' \subseteq Nat
        BY <1>25 DEF SubmitReplacesUnseen, WaitersWithoutPending
    <2>5. /\ lastPathUpdate' \in [generation : Nat, id : Nat, candidate : Nat]
          /\ nextPathCandidateId' \in Nat \ {0}
        BY <1>25 DEF SubmitReplacesUnseen, AcceptUpdate
    <2> QED
        BY <1>25, <2>3, <2>4, <2>5 DEF SubmitReplacesUnseen, AcceptUpdate
<1>26. ASSUME NEW generation \in Nat, NEW update \in Nat, SubmitSupersedes(generation, update) PROVE TypeOK'
    <2>1. SubmittedCandidate(generation) \in QueuedPathCandidate
        BY DEF SubmittedCandidate, QueuedPathCandidate
    <2>2. /\ events' \subseteq Event /\ nextSequence' \in Nat \ {0}
          /\ pathCandidate' \in PathCandidate /\ roam' \in RoamCounters
        BY <1>26, BeginPathAbortType DEF SubmitSupersedes
    <2>4. pendingPathCommand' \subseteq Nat
        BY <1>26 DEF SubmitSupersedes, WaitersWithoutPending
    <2>5. /\ lastPathUpdate' \in [generation : Nat, id : Nat, candidate : Nat]
          /\ nextPathCandidateId' \in Nat \ {0}
        BY <1>26 DEF SubmitSupersedes, AcceptUpdate
    <2> QED
        BY <1>26, <2>1, <2>2, <2>4, <2>5 DEF SubmitSupersedes, AcceptUpdate
<1>27. ASSUME NEW generation \in Nat, NEW update \in Nat, SubmitQueueFull(generation, update) PROVE TypeOK'
    BY <1>27 DEF SubmitQueueFull
<1>28. CASE RequestPathRefresh
    BY <1>28, EventTypes, PushType DEF RequestPathRefresh
<1>29. ASSUME NEW candidate \in Nat, RequestCandidateSocketBinding(candidate) PROVE TypeOK'
    BY <1>29, RequestCommandType DEF RequestCandidateSocketBinding
<1>30. ASSUME NEW candidate \in Nat, CandidatePathValidated(candidate) PROVE TypeOK'
    BY <1>30, RequestCommandType DEF CandidatePathValidated
<1>31. ASSUME NEW candidate \in Nat, AbortCandidatePath(candidate) PROVE TypeOK'
    BY <1>31, BeginPathAbortType DEF AbortCandidatePath, WaitersWithoutPending
<1>32. ASSUME NEW generation \in Nat, NEW candidate \in Nat, NEW seq \in Nat, AckAdvances(generation, candidate, seq) PROVE TypeOK'
    BY <1>32 DEF AckAdvances, AckFrame, PathCandidate, Phases, PendingPhases
<1>33. ASSUME NEW generation \in Nat, NEW candidate \in Nat, NEW seq \in Nat, AckCompletes(generation, candidate, seq) PROVE TypeOK'
    BY <1>33, StartPathCandidateType, NoneTypes DEF AckCompletes, AckFrame, RoamCounters
<1>34. ASSUME NEW generation \in Nat, NEW candidate \in Nat, NEW seq \in Nat, NEW outcome \in Outcomes, AckGivesUp(generation, candidate, seq, outcome) PROVE TypeOK'
    BY <1>34, NoneTypes, FailureRecordedType DEF AckGivesUp, AckFrame, RoamCounters, WithoutPathEvents
<1>35. ASSUME NEW generation \in Nat, NEW candidate \in Nat, NEW seq \in Nat, AckRollsBack(generation, candidate, seq) PROVE TypeOK'
    BY <1>35, BeginPathAbortType DEF AckRollsBack, AckFrame
<1>36. ASSUME NEW e \in events, PollEvent(e) PROVE TypeOK'
    BY <1>36 DEF PollEvent
<1>37. ASSUME NEW e \in events, PollPathEvent(e) PROVE TypeOK'
    BY <1>37 DEF PollPathEvent
<1>38. CASE UNCHANGED coreVars
    BY <1>38
<1> QED
    BY <1>1, <1>2, <1>3, <1>4, <1>5, <1>6, <1>7, <1>8, <1>9, <1>10, <1>11, <1>12, <1>13, <1>14, <1>15, <1>16, <1>17, <1>18, <1>19, <1>20, <1>21, <1>22, <1>23, <1>24, <1>25, <1>26, <1>27, <1>28, <1>29, <1>30, <1>31, <1>32, <1>33, <1>34, <1>35, <1>36, <1>37, <1>38 DEF AnyCall, Delivery, MethodCall, LifecycleCall, PlanCall, RequestCall, SubmitPathUpdate, TransportCall, AckPathCommand
-----------------------------------------------------------------------------
(* The queue never exceeds its capacity.                                   *)

\* Any part of the queue is finite and no longer than the queue.
LEMMA SubQueue ==
    ASSUME QueueWithinCapacity, NEW kept \in SUBSET events
    PROVE  /\ IsFiniteSet(kept)
           /\ Cardinality(kept) \in Nat
           /\ Cardinality(events) \in Nat
           /\ Cardinality(kept) <= Cardinality(events)
BY FS_Subset, FS_CardinalityType DEF QueueWithinCapacity

\* Adding an element lengthens a finite set by at most one.
LEMMA AddOne ==
    ASSUME NEW S, IsFiniteSet(S), NEW x
    PROVE  /\ IsFiniteSet(S \cup {x})
           /\ Cardinality(S) \in Nat
           /\ Cardinality(S \cup {x}) \in Nat
           /\ Cardinality(S \cup {x}) <= Cardinality(S) + 1
<1>1. IsFiniteSet(S \cup {x})
    BY FS_AddElement
<1>2. Cardinality(S) \in Nat /\ Cardinality(S \cup {x}) \in Nat
    BY <1>1, FS_CardinalityType
<1>3. \/ Cardinality(S \cup {x}) = Cardinality(S)
      \/ Cardinality(S \cup {x}) = Cardinality(S) + 1
    BY FS_AddElement
<1> QED
    BY <1>1, <1>2, <1>3

\* push_event after require_event_slots(1).
LEMMA PushOne ==
    ASSUME NEW kept, IsFiniteSet(kept), HasRoom(kept, 1), NEW e, NEW n,
           Push(kept, {e}, n)
    PROVE  QueueWithinCapacity'
BY AddOne, CapacityAssumption DEF HasRoom, Push, QueueWithinCapacity

\* Two pushes after require_event_slots(2).
LEMMA PushTwo ==
    ASSUME NEW kept, IsFiniteSet(kept), HasRoom(kept, 2), NEW e, NEW f, NEW n,
           Push(kept, {e, f}, n)
    PROVE  QueueWithinCapacity'
<1>1. kept \cup {e, f} = (kept \cup {e}) \cup {f}
    OBVIOUS
<1> DEFINE one == kept \cup {e}
           two == one \cup {f}
<1>2. /\ IsFiniteSet(one)
      /\ Cardinality(kept) \in Nat /\ Cardinality(one) \in Nat
      /\ Cardinality(one) <= Cardinality(kept) + 1
    BY AddOne
<1> HIDE DEF one
<1>3. /\ IsFiniteSet(two)
      /\ Cardinality(two) \in Nat
      /\ Cardinality(two) <= Cardinality(one) + 1
    BY <1>2, AddOne
<1>4. events' = two
    BY <1>1 DEF Push, one
<1> HIDE DEF two
<1>5. Cardinality(kept) + 2 <= EventCapacity
    BY DEF HasRoom
<1> QED
    BY <1>2, <1>3, <1>4, <1>5, CapacityAssumption DEF QueueWithinCapacity

\* Removing a command that is queued makes room for the one that replaces it.
LEMMA RemovalMakesRoom ==
    ASSUME QueueWithinCapacity, NEW seq, CommandQueued(seq)
    PROVE  HasRoom(WithoutCommand(events, seq), 1)
<1>1. PICK e \in events : e.kind = "PathCommand" /\ e.seq = seq
    BY DEF CommandQueued
<1>2. WithoutCommand(events, seq) \in SUBSET (events \ {e})
    BY <1>1 DEF WithoutCommand
<1>3. /\ IsFiniteSet(events \ {e})
      /\ Cardinality(events \ {e}) = Cardinality(events) - 1
    BY <1>1, FS_RemoveElement DEF QueueWithinCapacity
<1>4. Cardinality(WithoutCommand(events, seq)) <= Cardinality(events \ {e})
    BY <1>2, <1>3, FS_Subset
<1> QED
    BY <1>2, <1>3, <1>4, SubQueue, FS_Subset, FS_CardinalityType, CapacityAssumption
       DEF HasRoom, QueueWithinCapacity

\* Whatever submit_path_update reserved, superseding has room for ABORT.
LEMMA SupersedeHasRoom ==
    ASSUME QueueWithinCapacity, HasRoom(events, SubmitSlots),
           pathCandidate.phase \notin {"Aborting", "Committing"}
    PROVE  HasRoom(WithoutCommand(events, pathCandidate.pending), 1)
<1>1. CASE CommandQueued(pathCandidate.pending)
    BY <1>1, RemovalMakesRoom
<1>2. CASE ~CommandQueued(pathCandidate.pending)
    <2>1. HasRoom(events, 1)
        BY <1>2 DEF SubmitSlots, IsFinishing
    <2> QED
        BY <2>1, SubQueue, CapacityAssumption DEF HasRoom, WithoutCommand
<1> QED
    BY <1>1, <1>2

\* Every call leaves the queue within its capacity.
LEMMA QueueStep == QueueWithinCapacity /\ [AnyCall]_coreVars => QueueWithinCapacity'
<1> SUFFICES ASSUME QueueWithinCapacity, [AnyCall]_coreVars PROVE QueueWithinCapacity'
    OBVIOUS
<1>1. IsFiniteSet(events)
    BY DEF QueueWithinCapacity
<1>2. ASSUME events' \in SUBSET events PROVE QueueWithinCapacity'
    BY <1>2, SubQueue, CapacityAssumption DEF QueueWithinCapacity
<1>3. CASE Start
    BY <1>3, SubQueue, PushOne DEF Start, WithoutPathEvents
<1>4. CASE Stop
    BY <1>4, SubQueue, PushTwo DEF Stop, StopReports, WithoutPathEvents
<1>5. CASE FinishFailed
    <2>1. PICK kept \in SUBSET events :
             /\ IsNewest(kept, WithoutPathEvents(events), EventCapacity - 2)
             /\ Push(kept, {NewEvent(0, "Error", "Failed"),
                            NewEvent(1, "StateChanged", "Failed")}, 2)
        BY <1>5 DEF FinishFailed
    <2>2. Cardinality(kept) <= EventCapacity - 2
        <3>1. WithoutPathEvents(events) \in SUBSET events
            BY DEF WithoutPathEvents
        <3> QED
            BY <2>1, <3>1, SubQueue, CapacityAssumption DEF IsNewest
    <2> QED
        <3>1. IsFiniteSet(kept) /\ HasRoom(kept, 2)
            BY <2>2, SubQueue, CapacityAssumption DEF HasRoom
        <3> QED
            BY <2>1, <3>1, PushTwo
<1>6. CASE PublishKick
    <2>1. PICK kept \in SUBSET events :
             /\ IsNewest(kept, events, EventCapacity - 1)
             /\ Push(kept, {NewEvent(0, "Kick", state)}, 1)
        BY <1>6 DEF PublishKick
    <2>2. Cardinality(kept) <= EventCapacity - 1
        BY <2>1, SubQueue, CapacityAssumption DEF IsNewest
    <2> QED
        <3>1. IsFiniteSet(kept) /\ HasRoom(kept, 1)
            BY <2>2, SubQueue, CapacityAssumption DEF HasRoom
        <3> QED
            BY <2>1, <3>1, PushOne
<1>7. CASE PublishNotice \/ RequestSocketProtect \/ RequestServerIdentity \/ RequestPathRefresh
    BY <1>1, <1>7, PushOne
       DEF PublishNotice, RequestSocketProtect, RequestServerIdentity, RequestPathRefresh
<1>8. ASSUME NEW generation \in Nat \ {0}, PlanCall(generation)
      PROVE  QueueWithinCapacity'
    <2>1. CASE PublishNetworkPlan(generation) \/ AckNetworkPlanRejected(generation)
        BY <1>1, <2>1, PushTwo DEF PublishNetworkPlan, AckNetworkPlanRejected
    <2>2. CASE AckNetworkPlanApplied(generation)
        BY <1>1, <2>2, PushOne DEF AckNetworkPlanApplied
    <2>3. CASE \/ AttachTun(generation) \/ TakeAttachedTun(generation)
               \/ TakePacketTunPump(generation)
        BY <1>2, <2>3 DEF AttachTun, TakeAttachedTun, TakePacketTunPump
    <2> QED
        BY <1>8, <2>1, <2>2, <2>3 DEF PlanCall
<1>9. ASSUME NEW seq \in Nat, AckServerIdentityRejected(seq)
      PROVE  QueueWithinCapacity'
    BY <1>1, <1>9, PushTwo DEF AckServerIdentityRejected
<1>10. ASSUME NEW generation \in Nat, NEW update \in Nat,
              SubmitPathUpdate(generation, update)
       PROVE  QueueWithinCapacity'
    <2> DEFINE kept == WithoutCommand(events, pathCandidate.pending)
    <2>1. IsFiniteSet(kept)
        BY SubQueue DEF WithoutCommand
    <2>2. CASE SubmitFirst(generation, update)
        <3>1. SubmitSlots = 1
            BY <2>2 DEF SubmitFirst, SubmitSlots
        <3>2. HasRoom(events, 1)
            BY <2>2, <3>1 DEF SubmitFirst, AcceptUpdate
        <3> QED
            BY <1>1, <2>2, <3>2, PushOne DEF SubmitFirst, StartPathCandidate
    <2>3. CASE SubmitReplacesUnseen(generation, update)
        <3>1. HasRoom(kept, 1)
            BY <2>3, RemovalMakesRoom DEF SubmitReplacesUnseen, PrepareUnseen
        <3> QED
            BY <2>1, <2>3, <3>1, PushOne DEF SubmitReplacesUnseen, StartPathCandidate
    <2>4. CASE SubmitSupersedes(generation, update)
        <3>1. HasRoom(kept, 1)
            BY <2>4, SupersedeHasRoom DEF SubmitSupersedes, MustRollBack, AcceptUpdate
        <3> QED
            BY <2>1, <2>4, <3>1, PushOne DEF SubmitSupersedes, BeginPathAbort
    <2>5. CASE SubmitBehind(generation, update) \/ SubmitQueueFull(generation, update)
        BY <1>2, <2>5 DEF SubmitBehind, SubmitQueueFull
    <2> QED
        BY <1>10, <2>2, <2>3, <2>4, <2>5 DEF SubmitPathUpdate
<1>11. ASSUME NEW candidate, NEW from, NEW to, RequestCommand(candidate, from, to)
       PROVE  QueueWithinCapacity'
    BY <1>1, <1>11, PushOne DEF RequestCommand
<1>12. ASSUME BeginPathAbort, HasRoom(events, 1) PROVE QueueWithinCapacity'
    <2> DEFINE kept == WithoutCommand(events, pathCandidate.pending)
    <2>1. IsFiniteSet(kept) /\ HasRoom(kept, 1)
        BY <1>12, SubQueue, CapacityAssumption DEF HasRoom, WithoutCommand
    <2> QED
        BY <1>12, <2>1, PushOne DEF BeginPathAbort
<1>13. ASSUME NEW generation, NEW candidate, NEW seq, AckCompletes(generation, candidate, seq)
       PROVE  QueueWithinCapacity'
    <2>1. CASE queuedPathCandidate = NoQueued
        BY <1>2, <1>13, <2>1 DEF AckCompletes
    <2>2. CASE queuedPathCandidate # NoQueued
        BY <1>1, <1>13, <2>2, PushOne DEF AckCompletes, StartPathCandidate
    <2> QED
        BY <2>1, <2>2
<1>14. ASSUME NEW generation, NEW candidate, NEW seq, NEW outcome,
              AckPathCommand(generation, candidate, seq, outcome)
       PROVE  QueueWithinCapacity'
    <2>1. CASE AckAdvances(generation, candidate, seq)
        BY <1>2, <2>1 DEF AckAdvances
    <2>2. CASE AckGivesUp(generation, candidate, seq, outcome)
        BY <1>2, <2>2 DEF AckGivesUp, WithoutPathEvents
    <2>3. CASE AckRollsBack(generation, candidate, seq)
        BY <1>12, <2>3 DEF AckRollsBack
    <2> QED
        BY <1>13, <1>14, <2>1, <2>2, <2>3 DEF AckPathCommand
<1>15. CASE \/ SetDeviceId \/ StopQueueFull \/ RunAsync \/ EndAttempt \/ FinishCancelled
            \/ CancelKicked \/ UNCHANGED coreVars
            \/ \E e \in events : PollEvent(e) \/ PollPathEvent(e)
            \/ \E seq \in Nat : AckSocketProtect(seq) \/ AckServerIdentityTrusted(seq)
    BY <1>2, <1>15 DEF SetDeviceId, StopQueueFull, RunAsync, EndAttempt, FinishCancelled, CancelKicked,
       PollEvent, PollPathEvent, AckSocketProtect, AckServerIdentityTrusted, WithoutPathEvents
<1>16. ASSUME NEW candidate \in Nat, TransportCall(candidate)
       PROVE  QueueWithinCapacity'
    BY <1>7, <1>11, <1>12, <1>16
       DEF TransportCall, RequestCandidateSocketBinding, CandidatePathValidated,
           AbortCandidatePath
<1> QED
    BY <1>3, <1>4, <1>5, <1>6, <1>7, <1>8, <1>9, <1>10, <1>14, <1>15, <1>16
       DEF AnyCall, Delivery, MethodCall, LifecycleCall, RequestCall

\* The event queue stays within the capacity the platform configured, for every
\* capacity and every sequence of calls: the assertion of push_event and
\* push_path_event in the source.
THEOREM QueueBounded == Spec => []QueueWithinCapacity
<1>1. ASSUME NEW e, events = {e} PROVE QueueWithinCapacity
    <2>1. IsFiniteSet({e}) /\ Cardinality({e}) = 1
        BY FS_Singleton
    <2> QED
        BY <1>1, <2>1, CapacityAssumption DEF QueueWithinCapacity
<1>2. Init => QueueWithinCapacity
    BY <1>1 DEF Init
<1> QED
    BY <1>2, QueueStep, BoundedCalls, PTL DEF Spec

\* A core that ClientCore::new made has the declared types.
LEMMA InitType == ASSUME Init PROVE TypeOK
<1>1. [seq |-> 1, kind |-> "StateChanged", state |-> "Created",
       action |-> "None", subject |-> 0] \in Event
    BY DEF Event, States, LifecycleKinds
<1>2. /\ [attempts |-> 0, successes |-> 0, failures |-> 0, fallbacks |-> 0] \in RoamCounters
      /\ [generation |-> 0, id |-> 0, candidate |-> 0] \in [generation : Nat, id : Nat, candidate : Nat]
    BY DEF RoamCounters
<1>3. state \in States \ {"Stopping"} /\ events \subseteq Event
    BY <1>1 DEF Init, States
<1>4. /\ pathCandidate \in PathCandidate /\ queuedPathCandidate \in QueuedPathCandidate
      /\ packetTun \in [bridge : Nat, pump : Nat]
    BY NoneTypes DEF Init
<1>5. roam \in RoamCounters /\ lastPathUpdate \in [generation : Nat, id : Nat, candidate : Nat]
    BY <1>2 DEF Init
<1>6. /\ nextSequence \in Nat \ {0} /\ nextPathCandidateId \in Nat \ {0}
      /\ pendingPlan \in Nat /\ lastPlanGeneration \in Nat /\ attachedTun \in Nat
    BY DEF Init
<1>7. /\ pendingSocketProtect \subseteq Nat /\ pendingServerIdentity \subseteq Nat
      /\ pendingPathCommand \subseteq Nat
    BY DEF Init
<1>8. /\ deviceId \in BOOLEAN /\ runtimeCancel \in BOOLEAN /\ runtimeActive \in BOOLEAN
      /\ runner \in Runners /\ kicked \in BOOLEAN
    BY Zenon DEF Init, Runners
<1> QED
    BY <1>3, <1>4, <1>5, <1>6, <1>7, <1>8, Zenon DEF TypeOK

\* Type correctness for every value of the constants.
THEOREM TypeCorrect == Spec => []TypeOK
BY InitType, TypeStep, BoundedCalls, PTL DEF Spec

-----------------------------------------------------------------------------
(* The path transaction: commands, observations and counters.              *)

\* A failure is recorded when the rollback begins, and only then: the candidate
\* that is committed has not been counted as failed.
FailedMeansAborting == pathCandidate.failed <=> pathCandidate.phase = "Aborting"

\* Inductive: the order of the candidates' ids (NewestObservationWins) is what
\* makes a queued successor newer than the candidate it waits for, and the phase
\* tells whether the failure is counted already.  Sequence numbers start at 1, so
\* a candidate without a pending command has no waiter.
PathInv ==
    /\ TypeOK
    /\ CommandsAreCurrent
    /\ NewestObservationWins
    /\ FailedMeansAborting
    /\ RoamAccounting
    /\ 0 \notin pendingPathCommand

\* The candidate in progress has been allocated, and is older than the next id.
LEMMA CandidateIsAllocated ==
    ASSUME PathInv
    PROVE  pathCandidate.id < nextPathCandidateId
<1> USE DEF PathInv, TypeOK, PathCandidate, QueuedPathCandidate
<1>1. CASE ~Active
    BY <1>1 DEF Active
<1>2. CASE Active /\ queuedPathCandidate = NoQueued
    BY <1>2 DEF NewestObservationWins
<1>3. CASE queuedPathCandidate # NoQueued
    BY <1>3 DEF NewestObservationWins, CommandsAreCurrent, QueuedBehindTerminalPhase
<1> QED
    BY <1>1, <1>2, <1>3

\* Only a candidate in progress has a successor or a phase.
LEMMA PhaseMeansActive ==
    ASSUME PathInv
    PROVE  /\ pathCandidate.phase # "None" => Active
           /\ ~Active => queuedPathCandidate = NoQueued
           /\ pathCandidate.phase \notin {"Aborting", "Committing"} =>
                 queuedPathCandidate = NoQueued
BY DEF PathInv, CommandsAreCurrent, CandidateInGeneration, QueuedBehindTerminalPhase,
       NoCandidate

\* A call that leaves the transaction alone and queues no command.
LEMMA QuietStep ==
    ASSUME PathInv, TypeOK', UNCHANGED pathVars,
           \A e \in events' : e.kind = "PathCommand" => e \in events,
           nextSequence' >= nextSequence,
           Active => /\ state' \in {"Running", "Failed"}
                     /\ lastPlanGeneration' = lastPlanGeneration
    PROVE  PathInv'
<1> USE DEF PathInv, CommandsAreCurrent
<1>1. Active' <=> Active
    BY DEF Active
<1>2. QueuedCommandsAreCurrent'
    BY <1>1 DEF QueuedCommandsAreCurrent
<1>3. WaitersAreCurrent'
    BY <1>1 DEF WaitersAreCurrent
<1>4. CandidateInGeneration'
    BY <1>1 DEF CandidateInGeneration, TypeOK, PathCandidate
<1>5. QueuedBehindTerminalPhase'
    BY <1>1, PhaseMeansActive DEF QueuedBehindTerminalPhase
<1>6. NewestObservationWins'
    BY <1>1 DEF NewestObservationWins
<1>7. FailedMeansAborting' /\ RoamAccounting'
    BY <1>1 DEF FailedMeansAborting, RoamAccounting
<1> QED
    BY <1>2, <1>3, <1>4, <1>5, <1>6, <1>7

\* record_path_failure balances the counters of a candidate that goes away.
LEMMA FailureBalances ==
    ASSUME PathInv
    PROVE  /\ FailureRecorded.attempts = FailureRecorded.successes + FailureRecorded.failures
           /\ FailureRecorded \in RoamCounters
<1> USE DEF PathInv, TypeOK
<1>1. FailureRecorded \in RoamCounters
    BY FailureRecordedType
<1>2. CASE Active /\ ~pathCandidate.failed
    BY <1>2 DEF FailureRecorded, RoamAccounting, RoamCounters
<1>3. CASE ~(Active /\ ~pathCandidate.failed)
    BY <1>3 DEF FailureRecorded, RoamAccounting, RoamCounters
<1> QED
    BY <1>1, <1>2, <1>3

\* A call that ends the transaction and throws every path event away.
LEMMA EndingStep ==
    ASSUME PathInv, TypeOK',
           pathCandidate' = NoCandidate, queuedPathCandidate' = NoQueued,
           pendingPathCommand' = {},
           \A e \in events' : e.kind # "PathCommand",
           UNCHANGED <<lastPathUpdate, nextPathCandidateId>>,
           roam'.attempts = roam'.successes + roam'.failures
    PROVE  PathInv'
<1> USE DEF PathInv, TypeOK
<1>1. ~Active'
    BY DEF Active, NoCandidate
<1>2. /\ QueuedCommandsAreCurrent' /\ WaitersAreCurrent'
      /\ QueuedBehindTerminalPhase'
    BY DEF QueuedCommandsAreCurrent, WaitersAreCurrent, QueuedBehindTerminalPhase
<1>3. CandidateInGeneration'
    BY <1>1 DEF CandidateInGeneration, NoCandidate, PendingPhases
<1>4. NewestObservationWins'
    BY <1>1 DEF NewestObservationWins
<1>5. FailedMeansAborting'
    BY DEF FailedMeansAborting, NoCandidate
<1>6. RoamAccounting'
    BY <1>1 DEF RoamAccounting, RoamCounters
<1> QED
    BY <1>2, <1>3, <1>4, <1>5, <1>6 DEF CommandsAreCurrent

\* start_path_candidate with counters that balance, on a queue without commands.
LEMMA StartingStep ==
    ASSUME PathInv, TypeOK', NEW candidate \in QueuedPathCandidate, NEW kept,
           NEW counters \in RoamCounters,
           StartPathCandidate(candidate, kept, counters),
           \A e \in kept : e.kind # "PathCommand",
           counters.attempts = counters.successes + counters.failures,
           candidate.id # 0, candidate.generation = lastPlanGeneration,
           candidate.id = lastPathUpdate'.candidate,
           candidate.id < nextPathCandidateId',
           queuedPathCandidate' = NoQueued, pendingPathCommand' = {},
           state' = "Running", lastPlanGeneration' = lastPlanGeneration
    PROVE  PathInv'
<1> USE DEF PathInv, TypeOK, StartPathCandidate, QueuedPathCandidate
<1>1. /\ Active' /\ pathCandidate'.phase = "Preparing" /\ ~pathCandidate'.failed
      /\ pathCandidate'.id = candidate.id /\ pathCandidate'.pending = nextSequence
      /\ pathCandidate'.generation = lastPlanGeneration
      /\ nextSequence' = nextSequence + 1
    BY DEF Active, Push
<1>2. QueuedCommandsAreCurrent'
    BY <1>1 DEF QueuedCommandsAreCurrent, Push, CommandEvent, PhaseAction, PendingPhases
<1>3. WaitersAreCurrent' /\ QueuedBehindTerminalPhase'
    BY DEF WaitersAreCurrent, QueuedBehindTerminalPhase
<1>4. CandidateInGeneration'
    BY <1>1 DEF CandidateInGeneration, PendingPhases
<1>5. NewestObservationWins'
    BY <1>1 DEF NewestObservationWins
<1>6. FailedMeansAborting'
    BY <1>1 DEF FailedMeansAborting
<1>7. RoamAccounting'
    BY <1>1 DEF RoamAccounting, RoamCounters
<1> QED
    BY <1>2, <1>3, <1>4, <1>5, <1>6, <1>7 DEF CommandsAreCurrent

\* begin_path_abort, alone or with a new observation queued behind it.
LEMMA AbortingStep ==
    ASSUME PathInv, TypeOK', Active, state = "Running", BeginPathAbort,
           UNCHANGED <<state, lastPlanGeneration>>,
           pendingPathCommand' \subseteq {nextSequence},
           \/ UNCHANGED <<queuedPathCandidate, lastPathUpdate, nextPathCandidateId>>
           \/ /\ queuedPathCandidate' =
                    [id |-> nextPathCandidateId, generation |-> lastPlanGeneration]
              /\ lastPathUpdate'.candidate = nextPathCandidateId
              /\ nextPathCandidateId' = nextPathCandidateId + 1
    PROVE  PathInv'
<1> USE DEF PathInv, TypeOK, BeginPathAbort, CommandsAreCurrent
<1>1. /\ Active' /\ pathCandidate'.phase = "Aborting" /\ pathCandidate'.failed
      /\ pathCandidate'.id = pathCandidate.id /\ pathCandidate'.pending = nextSequence
      /\ pathCandidate'.generation = pathCandidate.generation
      /\ nextSequence' = nextSequence + 1
    BY DEF Active, Push, PathCandidate
<1>2. \A e \in WithoutCommand(events, pathCandidate.pending) : e.kind # "PathCommand"
    BY DEF WithoutCommand, QueuedCommandsAreCurrent
<1>3. QueuedCommandsAreCurrent'
    BY <1>1, <1>2 DEF QueuedCommandsAreCurrent, Push, CommandEvent, PhaseAction, PendingPhases
<1>4. WaitersAreCurrent'
    BY <1>1 DEF WaitersAreCurrent
<1>5. CandidateInGeneration'
    BY <1>1 DEF CandidateInGeneration, PendingPhases
<1>6. QueuedBehindTerminalPhase'
    BY <1>1, CandidateIsAllocated DEF QueuedBehindTerminalPhase, CandidateInGeneration, PathCandidate
<1>7. NewestObservationWins'
    BY <1>1 DEF NewestObservationWins, NoQueued
<1>8. FailedMeansAborting'
    BY <1>1 DEF FailedMeansAborting
<1>9. RoamAccounting'
    BY <1>1, FailureBalances DEF RoamAccounting, RoamCounters
<1> QED
    BY <1>3, <1>4, <1>5, <1>6, <1>7, <1>8, <1>9

\* An acknowledgement is for the pending command, which the platform has taken
\* out of the queue: no command is queued, and no other waiter exists.
LEMMA AckedQueue ==
    ASSUME PathInv, NEW generation, NEW candidate, NEW seq, Delivered(seq),
           AckMatches(generation, candidate, seq)
    PROVE  /\ \A e \in events : e.kind # "PathCommand"
           /\ pendingPathCommand \ {seq} = {}
           /\ Active /\ state = "Running" /\ pathCandidate.pending = seq
BY DEF PathInv, CommandsAreCurrent, QueuedCommandsAreCurrent, WaitersAreCurrent,
       AckMatches, Delivered, PathsEnabled

\* Every call preserves the invariant of the path transaction: one step per
\* group of operations that treat the candidate alike.
LEMMA PathStep == PathInv /\ [AnyCall]_coreVars => PathInv'
<1> SUFFICES ASSUME PathInv, [AnyCall]_coreVars PROVE PathInv'
    OBVIOUS
<1>1. TypeOK /\ TypeOK'
    BY TypeStep DEF PathInv
<1>2. Active => state \in {"Running", "Failed"}
    BY DEF PathInv, CommandsAreCurrent, CandidateInGeneration
<1>3. ASSUME \/ SetDeviceId \/ RunAsync \/ EndAttempt \/ FinishCancelled \/ CancelKicked
             \/ UNCHANGED coreVars
             \/ \E seq \in Nat : AckSocketProtect(seq) \/ AckServerIdentityTrusted(seq)
      PROVE  PathInv'
    <2>1. UNCHANGED <<pathVars, queueVars, state, lastPlanGeneration>>
        BY <1>3 DEF SetDeviceId, RunAsync, EndAttempt, FinishCancelled, CancelKicked,
           AckSocketProtect, AckServerIdentityTrusted
    <2> QED
        BY <1>1, <1>2, <2>1, QuietStep DEF TypeOK
<1>4. ASSUME NEW e \in events, PollEvent(e) \/ PollPathEvent(e) PROVE PathInv'
    BY <1>1, <1>2, <1>4, QuietStep DEF PollEvent, PollPathEvent, TypeOK
<1>5. ASSUME \/ PublishNotice \/ PublishKick \/ RequestSocketProtect \/ RequestServerIdentity
             \/ RequestPathRefresh
      PROVE  PathInv'
    <2>1. \E kept \in SUBSET events, kind \in LifecycleKinds \cup {"PathRefresh"} :
             \E new : Push(kept, {new}, 1) /\ new.kind = kind
        <3>1. CASE PublishKick
            <4>1. PICK kept \in SUBSET events : Push(kept, {NewEvent(0, "Kick", state)}, 1)
                BY <3>1 DEF PublishKick
            <4>2. NewEvent(0, "Kick", state).kind = "Kick"
                BY DEF NewEvent
            <4> QED
                BY <4>1, <4>2 DEF LifecycleKinds
        <3>2. CASE PublishNotice
            BY <3>2 DEF PublishNotice, NewEvent, LifecycleKinds
        <3>3. CASE RequestSocketProtect
            BY <3>3 DEF RequestSocketProtect, NewEvent, LifecycleKinds
        <3>4. CASE RequestServerIdentity
            BY <3>4 DEF RequestServerIdentity, NewEvent, LifecycleKinds
        <3>5. CASE RequestPathRefresh
            <4>1. RefreshEvent.kind = "PathRefresh"
                BY DEF RefreshEvent, NewEvent
            <4> QED
                BY <3>5, <4>1 DEF RequestPathRefresh
        <3> QED
            BY <1>5, <3>1, <3>2, <3>3, <3>4, <3>5
    <2>2. UNCHANGED <<pathVars, state, lastPlanGeneration>>
        BY <1>5 DEF PublishNotice, PublishKick, RequestSocketProtect, RequestServerIdentity,
           RequestPathRefresh
    <2>3. /\ \A e \in events' : e.kind = "PathCommand" => e \in events
          /\ nextSequence' >= nextSequence
        BY <1>1, <2>1 DEF Push, TypeOK, LifecycleKinds
    <2> QED
        BY <1>1, <1>2, <2>2, <2>3, QuietStep
<1>6. ASSUME NEW generation \in Nat \ {0}, PlanCall(generation) PROVE PathInv'
    <2>1. CASE AttachTun(generation) \/ TakeAttachedTun(generation) \/ TakePacketTunPump(generation)
        <3>1. UNCHANGED <<pathVars, queueVars, state, lastPlanGeneration>>
            BY <2>1 DEF AttachTun, TakeAttachedTun, TakePacketTunPump
        <3> QED
            BY <1>1, <1>2, <3>1, QuietStep DEF TypeOK
    <2>2. CASE \/ PublishNetworkPlan(generation) \/ AckNetworkPlanApplied(generation)
               \/ AckNetworkPlanRejected(generation)
        <3>1. ~Active /\ UNCHANGED pathVars
            BY <1>2, <2>2 DEF PublishNetworkPlan, AckNetworkPlanApplied,
               AckNetworkPlanRejected, PlanIsPending
        <3>2. /\ \A e \in events' : e.kind = "PathCommand" => e \in events
              /\ nextSequence' >= nextSequence
            BY <1>1, <2>2 DEF PublishNetworkPlan, AckNetworkPlanApplied,
               AckNetworkPlanRejected, Push, NewEvent, PlanEvent, TypeOK
        <3> QED
            BY <1>1, <3>1, <3>2, QuietStep
    <2> QED
        BY <1>6, <2>1, <2>2 DEF PlanCall
<1>7. ASSUME NEW seq, AckServerIdentityRejected(seq) PROVE PathInv'
    <2>1. /\ \A e \in events' : e.kind = "PathCommand" => e \in events
          /\ nextSequence' >= nextSequence
        BY <1>1, <1>7 DEF AckServerIdentityRejected, Push, NewEvent, TypeOK
    <2> QED
        BY <1>1, <1>7, <2>1, QuietStep DEF AckServerIdentityRejected
<1>8. CASE Start
    <2>1. /\ ~Active /\ pathCandidate' = NoCandidate /\ queuedPathCandidate' = NoQueued
          /\ pendingPathCommand' = {} /\ UNCHANGED <<lastPathUpdate, nextPathCandidateId, roam>>
        BY <1>2, <1>8 DEF Start, ClearSession, ClearPaths
    <2>2. \A e \in events' : e.kind # "PathCommand"
        BY <1>8 DEF Start, Push, NewEvent, WithoutPathEvents, PathKinds
    <2>3. roam'.attempts = roam'.successes + roam'.failures
        BY <1>1, <2>1 DEF PathInv, RoamAccounting, TypeOK, RoamCounters
    <2> QED
        BY <1>1, <2>1, <2>2, <2>3, EndingStep
<1>9. CASE Stop \/ FinishFailed
    <2>1. /\ pathCandidate' = NoCandidate /\ queuedPathCandidate' = NoQueued
          /\ pendingPathCommand' = {} /\ UNCHANGED <<lastPathUpdate, nextPathCandidateId>>
          /\ roam' = FailureRecorded
        BY <1>9 DEF Stop, FinishFailed, ClearSession, ClearPaths
    <2>2. \A e \in events' : e.kind # "PathCommand"
        <3>1. CASE Stop
            BY <3>1 DEF Stop, StopReports, Push, NewEvent, WithoutPathEvents, PathKinds
        <3>2. CASE FinishFailed
            <4>1. PICK kept \in SUBSET events :
                     /\ IsNewest(kept, WithoutPathEvents(events), EventCapacity - 2)
                     /\ Push(kept, {NewEvent(0, "Error", "Failed"),
                                    NewEvent(1, "StateChanged", "Failed")}, 2)
                BY <3>2 DEF FinishFailed
            <4> QED
                BY <4>1 DEF Push, NewEvent, WithoutPathEvents, PathKinds, IsNewest
        <3> QED
            BY <1>9, <3>1, <3>2
    <2> QED
        BY <1>1, <2>1, <2>2, FailureBalances, EndingStep
<1>10. CASE StopQueueFull
    <2>1. /\ UNCHANGED <<pathCandidate, queuedPathCandidate, lastPathUpdate, roam, state,
                         nextPathCandidateId, lastPlanGeneration, nextSequence>>
          /\ pendingPathCommand' = {}
          /\ \A e \in events' : e.kind # "PathCommand"
        BY <1>10 DEF StopQueueFull, WithoutPathEvents, PathKinds
    <2>2. Active' <=> Active
        BY <2>1 DEF Active
    <2> QED
        BY <1>1, <2>1, <2>2 DEF PathInv, CommandsAreCurrent, QueuedCommandsAreCurrent,
           WaitersAreCurrent, CandidateInGeneration, QueuedBehindTerminalPhase,
           NewestObservationWins, FailedMeansAborting, RoamAccounting
<1>11. ASSUME NEW generation \in Nat, NEW update \in Nat,
              SubmitPathUpdate(generation, update)
       PROVE  PathInv'
    <2> DEFINE submitted == SubmittedCandidate(generation)
    <2>1. CASE SubmitQueueFull(generation, update)
        <3>1. /\ UNCHANGED <<pathCandidate, queuedPathCandidate, lastPathUpdate, roam, state,
                             lastPlanGeneration, queueVars, pendingPathCommand>>
              /\ nextPathCandidateId' = nextPathCandidateId + 1
            BY <2>1 DEF SubmitQueueFull
        <3>2. Active' <=> Active
            BY <3>1 DEF Active
        <3>3. NewestObservationWins'
            BY <1>1, <3>1, <3>2 DEF PathInv, NewestObservationWins, TypeOK
        <3> QED
            BY <1>1, <3>1, <3>2, <3>3 DEF PathInv, CommandsAreCurrent,
               QueuedCommandsAreCurrent, WaitersAreCurrent, CandidateInGeneration,
               QueuedBehindTerminalPhase, FailedMeansAborting, RoamAccounting
    <2>2. ASSUME AcceptUpdate(generation, update)
          PROVE  /\ state = "Running" /\ UNCHANGED <<state, lastPlanGeneration>>
                 /\ generation = lastPlanGeneration
                 /\ submitted = [id |-> nextPathCandidateId, generation |-> lastPlanGeneration]
                 /\ submitted \in QueuedPathCandidate
                 /\ nextPathCandidateId' = nextPathCandidateId + 1
                 /\ lastPathUpdate'.candidate = nextPathCandidateId
        BY <1>1, <2>2 DEF AcceptUpdate, NewPathUpdate, PathsEnabled, SubmittedCandidate,
           TypeOK, QueuedPathCandidate
    <2>3. CASE SubmitFirst(generation, update)
        <3>1. /\ AcceptUpdate(generation, update)
              /\ StartPathCandidate(submitted, events, roam)
              /\ ~Active /\ UNCHANGED <<queuedPathCandidate, pendingPathCommand>>
            BY <2>3 DEF SubmitFirst
        <3>2. /\ \A e \in events : e.kind # "PathCommand"
              /\ pendingPathCommand = {} /\ queuedPathCandidate = NoQueued
            BY <3>1, PhaseMeansActive DEF PathInv, CommandsAreCurrent,
               QueuedCommandsAreCurrent, WaitersAreCurrent
        <3>3. roam \in RoamCounters /\ roam.attempts = roam.successes + roam.failures
            BY <1>1, <3>1 DEF PathInv, RoamAccounting, TypeOK, RoamCounters
        <3> HIDE DEF submitted
        <3>4. /\ submitted.id = lastPathUpdate'.candidate /\ submitted.id # 0
              /\ submitted.id < nextPathCandidateId'
              /\ submitted.generation = lastPlanGeneration
            BY <1>1, <2>2, <3>1 DEF TypeOK
        <3> QED
            BY <1>1, <2>2, <3>1, <3>2, <3>3, <3>4, StartingStep
    <2>4. CASE SubmitReplacesUnseen(generation, update)
        <3> DEFINE kept == WithoutCommand(events, pathCandidate.pending)
        <3>1. /\ AcceptUpdate(generation, update)
              /\ StartPathCandidate(submitted, kept, FailureRecorded)
              /\ pendingPathCommand' = WaitersWithoutPending
              /\ UNCHANGED queuedPathCandidate
              /\ pathCandidate.phase = "Preparing"
            BY <2>4 DEF SubmitReplacesUnseen, PrepareUnseen
        <3>2. /\ \A e \in kept : e.kind # "PathCommand"
              /\ pendingPathCommand' = {} /\ queuedPathCandidate' = NoQueued
            BY <3>1, PhaseMeansActive DEF PathInv, CommandsAreCurrent,
               QueuedCommandsAreCurrent, WaitersAreCurrent, WithoutCommand,
               WaitersWithoutPending
        <3> HIDE DEF submitted, kept
        <3>3. /\ submitted.id = lastPathUpdate'.candidate /\ submitted.id # 0
              /\ submitted.id < nextPathCandidateId'
              /\ submitted.generation = lastPlanGeneration
            BY <1>1, <2>2, <3>1 DEF TypeOK
        <3> QED
            BY <1>1, <2>2, <3>1, <3>2, <3>3, FailureBalances, StartingStep
    <2>5. CASE SubmitBehind(generation, update)
        <3>1. /\ AcceptUpdate(generation, update) /\ queuedPathCandidate' = submitted
              /\ UNCHANGED <<queueVars, pathCandidate, pendingPathCommand, roam>>
              /\ pathCandidate.phase \in {"Aborting", "Committing"}
            BY <2>5 DEF SubmitBehind, IsFinishing
        <3>2. (Active' <=> Active) /\ Active
            BY <3>1, PhaseMeansActive DEF Active
        <3>3. /\ queuedPathCandidate'.id = nextPathCandidateId
              /\ queuedPathCandidate'.generation = lastPlanGeneration'
            BY <2>2, <3>1
        <3>4. QueuedBehindTerminalPhase'
            BY <1>1, <3>1, <3>3, CandidateIsAllocated DEF QueuedBehindTerminalPhase, TypeOK,
               PathCandidate
        <3>5. NewestObservationWins'
            BY <1>1, <2>2, <3>1, <3>3 DEF NewestObservationWins, NoQueued, TypeOK
        <3> QED
            BY <1>1, <2>2, <3>1, <3>2, <3>4, <3>5 DEF PathInv, CommandsAreCurrent,
               QueuedCommandsAreCurrent, WaitersAreCurrent, CandidateInGeneration,
               FailedMeansAborting, RoamAccounting
    <2>6. CASE SubmitSupersedes(generation, update)
        <3>1. /\ AcceptUpdate(generation, update) /\ queuedPathCandidate' = submitted
              /\ BeginPathAbort /\ pendingPathCommand' = WaitersWithoutPending
              /\ Active
            BY <2>6, PhaseMeansActive DEF SubmitSupersedes, MustRollBack
        <3>2. pendingPathCommand' = {}
            BY <3>1 DEF PathInv, CommandsAreCurrent, WaitersAreCurrent, WaitersWithoutPending
        <3> HIDE DEF submitted
        <3> QED
            BY <1>1, <2>2, <3>1, <3>2, AbortingStep
    <2> QED
        BY <1>11, <2>1, <2>3, <2>4, <2>5, <2>6 DEF SubmitPathUpdate
<1>12. ASSUME NEW candidate \in Nat, AbortCandidatePath(candidate) PROVE PathInv'
    <2>1. /\ Active /\ state = "Running" /\ BeginPathAbort
          /\ UNCHANGED <<state, lastPlanGeneration>>
          /\ UNCHANGED <<queuedPathCandidate, lastPathUpdate, nextPathCandidateId>>
          /\ pendingPathCommand' = WaitersWithoutPending \cup {nextSequence}
        BY <1>12 DEF AbortCandidatePath, PathsEnabled
    <2>2. pendingPathCommand' \subseteq {nextSequence}
        BY <2>1 DEF PathInv, CommandsAreCurrent, WaitersAreCurrent, WaitersWithoutPending
    <2> QED
        BY <1>1, <2>1, <2>2, AbortingStep
<1>13. ASSUME NEW candidate \in Nat,
              NEW from \in {"Prepared", "Bound"}, NEW to \in {"Binding", "Committing"},
              RequestCommand(candidate, from, to)
       PROVE  PathInv'
    <2> USE DEF RequestCommand
    <2>1. /\ Active' /\ pathCandidate'.phase = to /\ pathCandidate'.pending = nextSequence
          /\ pathCandidate'.id = pathCandidate.id /\ pathCandidate'.failed = pathCandidate.failed
          /\ pathCandidate'.generation = pathCandidate.generation
          /\ nextSequence' = nextSequence + 1 /\ Active
        BY <1>1, <1>13 DEF Active, Push, TypeOK, PathCandidate
    <2>2. /\ \A e \in events : e.kind # "PathCommand"
          /\ pendingPathCommand = {}
          /\ queuedPathCandidate = NoQueued
        BY <1>13, PhaseMeansActive DEF PathInv, CommandsAreCurrent, QueuedCommandsAreCurrent,
           WaitersAreCurrent, PendingPhases
    <2>3. QueuedCommandsAreCurrent'
        BY <1>13, <2>1, <2>2 DEF QueuedCommandsAreCurrent, Push, CommandEvent, PhaseAction,
           PendingPhases
    <2>4. WaitersAreCurrent' /\ 0 \notin pendingPathCommand'
        BY <1>1, <1>13, <2>1, <2>2 DEF WaitersAreCurrent, TypeOK
    <2>5. CandidateInGeneration'
        BY <1>1, <1>13, <2>1 DEF CandidateInGeneration, PathsEnabled, TypeOK, PendingPhases
    <2>6. QueuedBehindTerminalPhase' /\ NewestObservationWins'
        BY <1>13, <2>1, <2>2 DEF QueuedBehindTerminalPhase, NewestObservationWins, PathInv
    <2>7. FailedMeansAborting' /\ RoamAccounting'
        BY <1>13, <2>1 DEF FailedMeansAborting, RoamAccounting, PathInv
    <2> QED
        BY <1>1, <2>3, <2>4, <2>5, <2>6, <2>7 DEF PathInv, CommandsAreCurrent
<1>14. ASSUME NEW generation \in Nat, NEW candidate \in Nat,
              NEW seq \in Nat, Delivered(seq), NEW outcome \in Outcomes,
              AckPathCommand(generation, candidate, seq, outcome)
       PROVE  PathInv'
    <2>1. AckMatches(generation, candidate, seq)
        BY <1>14 DEF AckPathCommand, AckAdvances, AckCompletes, AckGivesUp, AckRollsBack
    <2>2. /\ \A e \in events : e.kind # "PathCommand"
          /\ pendingPathCommand \ {seq} = {}
          /\ Active /\ state = "Running" /\ pathCandidate.pending = seq
        BY <1>14, <2>1, AckedQueue
    <2>3. CASE AckAdvances(generation, candidate, seq)
        <3>1. /\ pathCandidate.phase \in {"Preparing", "Binding"}
              /\ UNCHANGED <<queueVars, queuedPathCandidate, roam, state, lastPlanGeneration,
                             lastPathUpdate, nextPathCandidateId>>
              /\ pendingPathCommand' = {}
            BY <2>2, <2>3 DEF AckAdvances, AckFrame
        <3>2. /\ Active' /\ pathCandidate'.phase \in {"Prepared", "Bound"}
              /\ pathCandidate'.pending = 0
              /\ pathCandidate'.id = pathCandidate.id
              /\ pathCandidate'.failed = pathCandidate.failed
              /\ pathCandidate'.generation = pathCandidate.generation
            BY <1>1, <2>2, <2>3 DEF AckAdvances, Active, TypeOK, PathCandidate
        <3>3. queuedPathCandidate = NoQueued
            BY <3>1, PhaseMeansActive
        <3>4. CandidateInGeneration'
            BY <1>1, <2>2, <3>1, <3>2 DEF CandidateInGeneration, PathInv, CommandsAreCurrent,
               PendingPhases, TypeOK
        <3> QED
            BY <1>1, <2>2, <3>1, <3>2, <3>3, <3>4 DEF PathInv, CommandsAreCurrent,
               QueuedCommandsAreCurrent, WaitersAreCurrent, QueuedBehindTerminalPhase,
               NewestObservationWins, FailedMeansAborting, RoamAccounting
    <2>4. CASE AckCompletes(generation, candidate, seq)
        <3> DEFINE counters == IF pathCandidate.phase = "Committing"
                               THEN [roam EXCEPT !.successes = @ + 1] ELSE roam
        <3>1. /\ pathCandidate.phase \in {"Committing", "Aborting"}
              /\ UNCHANGED <<state, lastPlanGeneration, lastPathUpdate, nextPathCandidateId>>
              /\ pendingPathCommand' = {}
            BY <2>2, <2>4 DEF AckCompletes, AckFrame
        <3>2. /\ counters \in RoamCounters
              /\ counters.attempts = counters.successes + counters.failures
            BY <1>1, <2>2, <3>1 DEF PathInv, RoamAccounting, FailedMeansAborting, TypeOK,
               RoamCounters
        <3>3. CASE queuedPathCandidate = NoQueued
            <4>1. /\ pathCandidate' = NoCandidate /\ queuedPathCandidate' = NoQueued
                  /\ roam' = counters /\ UNCHANGED events
                BY <2>4, <3>3 DEF AckCompletes
            <4> HIDE DEF counters
            <4> QED
                BY <1>1, <2>2, <3>1, <3>2, <4>1, EndingStep
        <3>4. CASE queuedPathCandidate # NoQueued
            <4>1. /\ StartPathCandidate(queuedPathCandidate, events, counters)
                  /\ queuedPathCandidate' = NoQueued
                BY <2>4, <3>4 DEF AckCompletes
            <4>2. /\ queuedPathCandidate.id # 0
                  /\ queuedPathCandidate.generation = lastPlanGeneration
                  /\ queuedPathCandidate.id = lastPathUpdate.candidate
                  /\ queuedPathCandidate.id < nextPathCandidateId
                BY <1>1, <3>4 DEF PathInv, CommandsAreCurrent, QueuedBehindTerminalPhase,
                   NewestObservationWins, TypeOK, PathCandidate, QueuedPathCandidate
            <4>3. queuedPathCandidate \in QueuedPathCandidate
                BY <1>1 DEF TypeOK
            <4> HIDE DEF counters
            <4> QED
                BY <1>1, <2>2, <3>1, <3>2, <4>1, <4>2, <4>3, StartingStep
        <3> QED
            BY <3>3, <3>4
    <2>5. CASE AckGivesUp(generation, candidate, seq, outcome)
        <3>1. /\ pathCandidate' = NoCandidate /\ queuedPathCandidate' = NoQueued
              /\ pendingPathCommand' = {} /\ events' \subseteq events
              /\ UNCHANGED <<lastPathUpdate, nextPathCandidateId>>
              /\ roam' = [FailureRecorded EXCEPT !.fallbacks = @ + 1]
            BY <2>2, <2>5 DEF AckGivesUp, AckFrame, WithoutPathEvents
        <3>2. roam'.attempts = roam'.successes + roam'.failures
            BY <3>1, FailureBalances DEF RoamCounters
        <3> QED
            BY <1>1, <2>2, <3>1, <3>2, EndingStep
    <2>6. CASE AckRollsBack(generation, candidate, seq)
        <3>1. /\ BeginPathAbort /\ pendingPathCommand' = {}
              /\ UNCHANGED <<state, lastPlanGeneration>>
              /\ UNCHANGED <<queuedPathCandidate, lastPathUpdate, nextPathCandidateId>>
            BY <2>2, <2>6 DEF AckRollsBack, AckFrame
        <3> QED
            BY <1>1, <2>2, <3>1, AbortingStep
    <2> QED
        BY <1>14, <2>3, <2>4, <2>5, <2>6 DEF AckPathCommand
<1>15. ASSUME NEW candidate \in Nat, TransportCall(candidate) PROVE PathInv'
    BY <1>5, <1>12, <1>13, <1>15
       DEF TransportCall, RequestCandidateSocketBinding, CandidatePathValidated
<1> QED
    BY <1>3, <1>4, <1>5, <1>6, <1>7, <1>8, <1>9, <1>10, <1>11, <1>14, <1>15
       DEF AnyCall, Delivery, MethodCall, LifecycleCall, RequestCall

\* A new core has no transaction.
LEMMA InitPath == ASSUME Init PROVE PathInv
<1>1. TypeOK
    BY InitType
<1>2. /\ pathCandidate = NoCandidate /\ queuedPathCandidate = NoQueued /\ ~Active
      /\ pendingPathCommand = {} /\ \A e \in events : e.kind # "PathCommand"
    BY DEF Init, Active, NoCandidate
<1>3. CommandsAreCurrent
    BY <1>2 DEF CommandsAreCurrent, QueuedCommandsAreCurrent, WaitersAreCurrent,
       CandidateInGeneration, QueuedBehindTerminalPhase, NoCandidate, PendingPhases
<1>4. NewestObservationWins
    BY <1>2 DEF Init, NewestObservationWins
<1>5. FailedMeansAborting
    BY <1>2 DEF FailedMeansAborting, NoCandidate
<1>6. RoamAccounting
    BY <1>2 DEF Init, RoamAccounting
<1> QED
    BY <1>1, <1>2, <1>3, <1>4, <1>5, <1>6 DEF PathInv

\* The invariant of the path transaction holds in every reachable state.
LEMMA PathInvariant == Spec => []PathInv
BY InitPath, PathStep, BoundedCalls, PTL DEF Spec

\* However path updates, transport requests, acknowledgements, stops and failures
\* interleave, the platform is asked for, and waited for, the candidate in
\* progress only, and never receives the command of a superseded one.
THEOREM CurrentCommands == Spec => []CommandsAreCurrent
<1>1. PathInv => CommandsAreCurrent
    BY DEF PathInv
<1> QED
    BY <1>1, PathInvariant, PTL

\* submit_path_update: of any number of observations that arrive during a
\* transaction, the newest accepted one is what the core turns to next.
THEOREM NewestObservation == Spec => []NewestObservationWins
<1>1. PathInv => NewestObservationWins
    BY DEF PathInv
<1> QED
    BY <1>1, PathInvariant, PTL

\* The roaming statistics balance over every behaviour: no candidate is counted
\* twice (record_path_failure) and none is forgotten.
THEOREM RoamCountersBalance == Spec => []RoamAccounting
<1>1. PathInv => RoamAccounting
    BY DEF PathInv
<1> QED
    BY <1>1, PathInvariant, PTL

-----------------------------------------------------------------------------
(* Plans, tunnel device and requests belong to one generation.             *)

\* A device is only ever adopted under the capability that allows it.
TunNeedsCapability ==
    /\ "TUN_FD" \notin Capabilities => attachedTun = 0
    /\ "TUN_PACKET_BATCH" \notin Capabilities => packetTun = NoPacketTun

\* Inductive together with PathInv, which says that a core that waits for the
\* network has no candidate.
GenerationInv == GenerationsAreKeptApart /\ TunNeedsCapability

\* A call that touches neither the plan, the device nor the lifecycle, and can
\* add requests or path events only to a core that is not stopped.
LEMMA SameGenerationStep ==
    ASSUME PathInv, PathInv', GenerationInv,
           UNCHANGED <<state, pendingPlan, lastPlanGeneration, tunVars>>,
           \/ state \notin {"Created", "Stopped"}
           \/ /\ pendingSocketProtect' \subseteq pendingSocketProtect
              /\ pendingServerIdentity' \subseteq pendingServerIdentity
              /\ UNCHANGED <<pathCandidate, queuedPathCandidate>>
              /\ \A e \in events' : e.kind \in PathKinds => e \in events
    PROVE  GenerationInv'
<1> USE DEF GenerationInv, GenerationsAreKeptApart
<1>1. RunningOwnsCurrentTun' /\ TunNeedsCapability'
    BY DEF RunningOwnsCurrentTun, TunNeedsCapability
<1>2. PlanHandshake'
    BY DEF PlanHandshake, PathInv, CommandsAreCurrent, CandidateInGeneration
<1>3. StoppedOwnsNothing'
    BY DEF StoppedOwnsNothing
<1> QED
    BY <1>1, <1>2, <1>3

\* start, stop and a runner's failure leave the core without anything of the
\* generation that ends.
LEMMA ClearedStep ==
    ASSUME PathInv', ClearSession, state' \in {"Connecting", "Failed", "Stopped"},
           \A e \in events' : e.kind \notin PathKinds
    PROVE  GenerationInv'
BY DEF GenerationInv, GenerationsAreKeptApart, RunningOwnsCurrentTun, PlanHandshake,
       StoppedOwnsNothing, TunNeedsCapability, ClearSession, ClearPaths, ReleaseTun

\* Every call keeps the generations apart.
LEMMA GenerationStep == PathInv /\ GenerationInv /\ [AnyCall]_coreVars => GenerationInv'
<1> SUFFICES ASSUME PathInv, GenerationInv, [AnyCall]_coreVars PROVE GenerationInv'
    OBVIOUS
<1>1. PathInv'
    BY PathStep
<1>2. TypeOK /\ TypeOK'
    BY <1>1 DEF PathInv
<1>3. CASE Start \/ Stop
    <2>1. ClearSession /\ state' \in {"Connecting", "Stopped"}
        BY <1>3 DEF Start, Stop
    <2>2. \A e \in events' : e.kind \notin PathKinds
        BY <1>3 DEF Start, Stop, StopReports, Push, NewEvent, WithoutPathEvents, PathKinds
    <2> QED
        BY <1>1, <2>1, <2>2, ClearedStep
<1>4. CASE FinishFailed
    <2>1. ClearSession /\ state' = "Failed"
        BY <1>4 DEF FinishFailed
    <2>2. PICK kept \in SUBSET events :
             /\ IsNewest(kept, WithoutPathEvents(events), EventCapacity - 2)
             /\ Push(kept, {NewEvent(0, "Error", "Failed"),
                            NewEvent(1, "StateChanged", "Failed")}, 2)
        BY <1>4 DEF FinishFailed
    <2>3. \A e \in events' : e.kind \notin PathKinds
        BY <2>2 DEF Push, NewEvent, WithoutPathEvents, PathKinds, IsNewest
    <2> QED
        BY <1>1, <2>1, <2>3, ClearedStep
<1>5. CASE \/ SetDeviceId \/ RunAsync \/ EndAttempt \/ FinishCancelled \/ CancelKicked
           \/ StopQueueFull \/ UNCHANGED coreVars
           \/ \E e \in events : PollEvent(e) \/ PollPathEvent(e)
           \/ \E seq \in Nat : AckSocketProtect(seq) \/ AckServerIdentityTrusted(seq)
    <2>1. /\ UNCHANGED <<state, pendingPlan, lastPlanGeneration, tunVars, pathCandidate,
                         queuedPathCandidate>>
          /\ pendingSocketProtect' \subseteq pendingSocketProtect
          /\ pendingServerIdentity' \subseteq pendingServerIdentity
          /\ events' \subseteq events
        BY <1>5 DEF SetDeviceId, RunAsync, EndAttempt, FinishCancelled, CancelKicked,
           StopQueueFull, PollEvent, PollPathEvent, AckSocketProtect,
           AckServerIdentityTrusted, WithoutPathEvents
    <2> QED
        BY <1>1, <2>1, SameGenerationStep
<1>6. CASE PublishNotice \/ PublishKick
    <2>1. /\ UNCHANGED <<state, pendingPlan, lastPlanGeneration, tunVars, pathCandidate,
                         queuedPathCandidate, requestVars>>
        BY <1>6 DEF PublishNotice, PublishKick
    <2>2. \A e \in events' : e.kind \in PathKinds => e \in events
        BY <1>6 DEF PublishNotice, PublishKick, Push, NewEvent, PathKinds
    <2> QED
        BY <1>1, <2>1, <2>2, SameGenerationStep
<1>7. CASE RequestSocketProtect \/ RequestServerIdentity
    <2>1. /\ UNCHANGED <<state, pendingPlan, lastPlanGeneration, tunVars>>
          /\ state \notin {"Created", "Stopped"}
        BY <1>7 DEF RequestSocketProtect, RequestServerIdentity
    <2> QED
        BY <1>1, <2>1, SameGenerationStep
<1>8. ASSUME NEW generation \in Nat, NEW update \in Nat,
             SubmitPathUpdate(generation, update)
      PROVE  GenerationInv'
    <2>1. /\ UNCHANGED <<state, pendingPlan, lastPlanGeneration, tunVars>>
          /\ state = "Running"
        BY <1>8 DEF SubmitPathUpdate, SubmitFirst, SubmitBehind, SubmitReplacesUnseen,
           SubmitSupersedes, SubmitQueueFull, AcceptUpdate, NewPathUpdate, PathsEnabled
    <2> QED
        BY <1>1, <2>1, SameGenerationStep
<1>9. ASSUME NEW candidate \in Nat, TransportCall(candidate)
      PROVE  GenerationInv'
    <2>1. /\ UNCHANGED <<state, pendingPlan, lastPlanGeneration, tunVars>>
          /\ state = "Running"
        BY <1>9 DEF TransportCall, RequestPathRefresh, RequestCandidateSocketBinding,
           CandidatePathValidated, RequestCommand, AbortCandidatePath, PathsEnabled
    <2> QED
        BY <1>1, <2>1, SameGenerationStep
<1>10. ASSUME NEW generation, NEW candidate, NEW seq, NEW outcome,
              AckPathCommand(generation, candidate, seq, outcome)
       PROVE  GenerationInv'
    <2>1. /\ UNCHANGED <<state, pendingPlan, lastPlanGeneration, tunVars>>
          /\ state = "Running"
        BY <1>10 DEF AckPathCommand, AckAdvances, AckCompletes, AckGivesUp, AckRollsBack,
           AckFrame, AckMatches, PathsEnabled
    <2> QED
        BY <1>1, <2>1, SameGenerationStep
<1>11. ASSUME NEW seq, AckServerIdentityRejected(seq) PROVE GenerationInv'
    BY <1>1, <1>11 DEF AckServerIdentityRejected, GenerationInv, GenerationsAreKeptApart,
       RunningOwnsCurrentTun, PlanHandshake, StoppedOwnsNothing, TunNeedsCapability
<1>12. ASSUME NEW generation \in Nat \ {0}, PlanCall(generation)
       PROVE  GenerationInv'
    <2> USE DEF GenerationInv, GenerationsAreKeptApart
    <2>1. CASE PublishNetworkPlan(generation)
        BY <1>2, <2>1 DEF PublishNetworkPlan, NewerPlan, RunningOwnsCurrentTun, PlanHandshake,
           StoppedOwnsNothing, TunNeedsCapability, Active, TypeOK
    <2>2. CASE AttachTun(generation)
        BY <2>2 DEF AttachTun, RunningOwnsCurrentTun, PlanHandshake, StoppedOwnsNothing,
           TunNeedsCapability, Active
    <2>3. CASE AckNetworkPlanApplied(generation)
        BY <1>2, <2>3 DEF AckNetworkPlanApplied, PlanIsPending, TunIsAttached,
           RunningOwnsCurrentTun, PlanHandshake, StoppedOwnsNothing, TunNeedsCapability,
           NoPacketTun, TypeOK
    <2>4. CASE AckNetworkPlanRejected(generation)
        BY <1>2, <2>4 DEF AckNetworkPlanRejected, PlanIsPending, RunningOwnsCurrentTun,
           PlanHandshake, StoppedOwnsNothing, TunNeedsCapability, TypeOK
    <2>5. CASE TakeAttachedTun(generation)
        BY <2>5 DEF TakeAttachedTun, RunningOwnsCurrentTun, PlanHandshake,
           StoppedOwnsNothing, TunNeedsCapability
    <2>6. CASE TakePacketTunPump(generation)
        BY <1>2, <2>6 DEF TakePacketTunPump, RunningOwnsCurrentTun, PlanHandshake,
           StoppedOwnsNothing, TunNeedsCapability, NoPacketTun, TypeOK
    <2> QED
        BY <1>12, <2>1, <2>2, <2>3, <2>4, <2>5, <2>6 DEF PlanCall
<1> QED
    BY <1>3, <1>4, <1>5, <1>6, <1>7, <1>8, <1>9, <1>10, <1>11, <1>12
       DEF AnyCall, Delivery, MethodCall, LifecycleCall, RequestCall

\* A new core owns nothing.
LEMMA GenerationInit == ASSUME Init PROVE GenerationInv
BY DEF Init, GenerationInv, GenerationsAreKeptApart, RunningOwnsCurrentTun,
   PlanHandshake, StoppedOwnsNothing, TunNeedsCapability, PathKinds

\* Through every order of starts, stops, failures, plans and late answers, for
\* every set of platform capabilities: a running core has the tunnel device of the
\* plan acknowledged last, a pending plan is newer than all acknowledged ones, and
\* a stopped core owns nothing.
THEOREM SeparateGenerations == Spec => []GenerationsAreKeptApart
<1>1. Init => GenerationInv
    BY GenerationInit
<1>2. GenerationInv => GenerationsAreKeptApart
    BY DEF GenerationInv
<1> QED
    BY <1>1, <1>2, PathInvariant, GenerationStep, BoundedCalls, PTL DEF Spec

=============================================================================
