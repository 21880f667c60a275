------------------------- MODULE PlatformPathsProofs -------------------------
(***************************************************************************)
(* Proof that the core and the platform's sequential event pump stay in    *)
(* step (PlatformStaysInStep), for every capacity, set of capabilities and *)
(* bound.  The pump acts on events the core has forgotten: between the     *)
(* delivery of a command, its execution and its acknowledgement the core   *)
(* is stopped, superseded or kicked by other threads.                      *)
(***************************************************************************)
EXTENDS PlatformPaths, ClientCoreProofs

USE DEF coreVars, lifecycleVars, queueVars, requestVars, pathVars, tunVars,
        runtimeVars

-----------------------------------------------------------------------------
(* The inductive invariant.                                                *)

\* Sequence numbers are handed out once: what the pump holds is not queued any
\* more, and no two queued events have the same number.
SequencesAreUnique ==
    /\ held.seq < nextSequence
    /\ \A e \in events : e.seq # 0 /\ e.seq < nextSequence /\ e.seq # held.seq
    /\ \A e, f \in events : e.seq = f.seq => e = f

\* Only path commands ask for something, and the number the candidate waits for
\* is that of a path command.
PendingIsCommand ==
    \A e \in events :
        /\ e.action # "None" => e.kind = "PathCommand"
        /\ pathCandidate.pending # 0 /\ e.seq = pathCandidate.pending => e.kind = "PathCommand"

\* What the pump works on is a command for the candidate in progress or for one
\* that was given up under its hands, and it is the pending command if it has its
\* sequence number; a COMMIT stays pending until it is acknowledged.
HeldIsKnown ==
    /\ answer # "None" => held.kind = "PathCommand"
    /\ held.kind = "PathCommand" =>
          held.subject = pathCandidate.id \/ held.subject \in abandoned
    /\ pathCandidate.pending # 0 /\ held.seq = pathCandidate.pending =>
          /\ held.kind = "PathCommand"
          /\ held.subject = pathCandidate.id
          /\ held.action = PhaseAction[pathCandidate.phase]
    /\ held.kind = "PathCommand" /\ held.action = "COMMIT" /\ held.subject = pathCandidate.id =>
          /\ pathCandidate.phase = "Committing"
          /\ held.seq = pathCandidate.pending

\* The candidates the platform has ever heard of.
Heard == rules \cup committed \cup abandoned
         \cup (IF held.kind = "PathCommand" THEN {held.subject} ELSE {})

\* They are older than any candidate that has not been started, and a candidate
\* in progress has not been given up.
IdsAreFresh ==
    /\ \A x \in Heard : /\ x # 0 /\ x < nextPathCandidateId
                        /\ queuedPathCandidate # NoQueued => x < queuedPathCandidate.id
    /\ Active => pathCandidate.id \notin abandoned

\* A candidate whose PREPARE is still queued has left no trace on the platform.
UnseenLeavesNoTrace ==
    pathCandidate.phase = "Preparing" /\ CommandQueued(pathCandidate.pending) =>
        /\ pathCandidate.id \notin rules
        /\ held.kind = "PathCommand" => held.subject # pathCandidate.id

\* An accepted COMMIT or ABORT has removed the temporary rules.
AcceptedIsSettled ==
    answer = "Accepted" /\ held.action \in {"COMMIT", "ABORT"} => held.subject \notin rules

\* A candidate the platform has switched to is past the point of no return.
CommittedIsFinishing ==
    Active /\ pathCandidate.id \in committed =>
        /\ pathCandidate.phase = "Committing"
        /\ ~CommandQueued(pathCandidate.pending)
        /\ held.seq = pathCandidate.pending => answer \in {"Accepted", "PlatformStateUnknown"}

\* Only a platform that handles path commands is given any.
PathsNeedCapability == Active => "ROAMING_PATH" \in Capabilities

\* The part of the invariant that speaks of candidates and their commands.
CandidatesInStep ==
    /\ PendingIsCommand /\ HeldIsKnown /\ IdsAreFresh
    /\ UnseenLeavesNoTrace /\ AcceptedIsSettled /\ CommittedIsFinishing
    /\ PathsNeedCapability
    /\ NoOrphanRules /\ CommitIsFinal /\ PendingIsReachable

PlatformInv ==
    /\ PathInv /\ AdapterTypeOK /\ SequencesAreUnique
    /\ CandidatesInStep
    /\ StateReported

-----------------------------------------------------------------------------
(* What every call does to the queue.                                      *)

StateReports(queue) == {e \in queue : e.kind = "StateChanged"}

\* New events have new, distinct sequence numbers.
QueueGrows ==
    /\ nextSequence' \in Nat /\ nextSequence' >= nextSequence
    /\ \A e \in events' \ events : nextSequence <= e.seq /\ e.seq < nextSequence'
    /\ \A e, f \in events' \ events : e.seq = f.seq => e = f

\* A call that changes the state pushes a report of it that is newer than every
\* other; any other call leaves the reports alone, or is a KICK.
ReportsFollow ==
    \/ kicked'
    \/ /\ UNCHANGED <<state, kicked>>
       /\ StateReports(events') = StateReports(events)
    \/ \E e \in StateReports(events') :
          /\ e.state = state'
          /\ \A other \in StateReports(events') : other.seq <= e.seq

\* A call that leaves the queue alone.
LEMMA NothingPushed ==
    ASSUME TypeOK, events' \subseteq events, nextSequence' = nextSequence
    PROVE  QueueGrows
BY DEF TypeOK, QueueGrows

\* A call that pushes one event.
LEMMA OnePushed ==
    ASSUME TypeOK, NEW kept \in SUBSET events, NEW e, e.seq = nextSequence,
           Push(kept, {e}, 1)
    PROVE  QueueGrows
BY DEF TypeOK, QueueGrows, Push

\* A call that pushes two.
LEMMA TwoPushed ==
    ASSUME TypeOK, NEW kept \in SUBSET events, NEW e, NEW f,
           {e.seq, f.seq} = {nextSequence, nextSequence + 1}, Push(kept, {e, f}, 2)
    PROVE  QueueGrows
BY DEF TypeOK, QueueGrows, Push

\* The queue keeps its reports and gains something that is not one.
LEMMA SilentPush ==
    ASSUME TypeOK, NEW kept \in SUBSET events, StateReports(kept) = StateReports(events),
           NEW e, e.kind # "StateChanged", e.seq = nextSequence,
           Push(kept, {e}, 1), UNCHANGED <<state, kicked>>
    PROVE  QueueGrows /\ ReportsFollow
<1>1. StateReports(events') = StateReports(events)
    BY DEF Push, StateReports
<1> QED
    BY <1>1, OnePushed DEF ReportsFollow

\* A single report of the new state.
LEMMA ReportPush ==
    ASSUME TypeOK, \A e \in events : e.seq < nextSequence,
           NEW kept \in SUBSET events, NEW st, state' = st,
           Push(kept, {NewEvent(0, "StateChanged", st)}, 1)
    PROVE  QueueGrows /\ ReportsFollow
<1> DEFINE e == NewEvent(0, "StateChanged", st)
<1>1. e.seq = nextSequence /\ e.kind = "StateChanged" /\ e.state = st
    BY DEF NewEvent, TypeOK
<1> HIDE DEF e
<1>2. QueueGrows
    BY <1>1, OnePushed DEF e
<1>3. e \in StateReports(events') /\ \A other \in events' : other.seq <= e.seq
    BY <1>1 DEF Push, StateReports, TypeOK, Event, e
<1> QED
    BY <1>1, <1>2, <1>3 DEF ReportsFollow, StateReports

\* A report of the new state with another event before or after it.
LEMMA ReportTwoPush ==
    ASSUME TypeOK, \A e \in events : e.seq < nextSequence,
           NEW kept \in SUBSET events, NEW e, NEW f, Push(kept, {e, f}, 2),
           {e.seq, f.seq} = {nextSequence, nextSequence + 1},
           e.kind = "StateChanged", e.state = state',
           f.kind = "StateChanged" => f.seq < e.seq
    PROVE  QueueGrows /\ ReportsFollow
<1>1. e \in StateReports(events') /\ \A other \in StateReports(events') : other.seq <= e.seq
    BY DEF Push, StateReports, TypeOK, Event
<1> QED
    BY <1>1, TwoPushed DEF ReportsFollow

\* Every call into the core that is not a delivery numbers its events afresh and
\* reports the state it leaves.
LEMMA QueueStepShape ==
    ASSUME TypeOK, \A e \in events : e.seq < nextSequence, [MethodCall]_coreVars
    PROVE  QueueGrows /\ ReportsFollow
<1> DEFINE Goal == QueueGrows /\ ReportsFollow
<1>1. ASSUME UNCHANGED <<events, nextSequence, state, kicked>> PROVE Goal
    BY <1>1, NothingPushed DEF ReportsFollow, StateReports
<1>2. ASSUME events' = WithoutPathEvents(events), UNCHANGED <<nextSequence, state, kicked>>
      PROVE  Goal
    <2>1. StateReports(events') = StateReports(events)
        BY <1>2 DEF StateReports, WithoutPathEvents, PathKinds
    <2> QED
        BY <1>2, <2>1, NothingPushed DEF ReportsFollow, WithoutPathEvents
<1>4. /\ StateReports(WithoutCommand(events, pathCandidate.pending)) = StateReports(events)
      /\ WithoutCommand(events, pathCandidate.pending) \in SUBSET events
      /\ WithoutPathEvents(events) \in SUBSET events
    BY DEF StateReports, WithoutCommand, WithoutPathEvents
<1>5. ASSUME NEW action, NEW candidate
      PROVE  /\ CommandEvent(action, candidate).kind = "PathCommand"
             /\ CommandEvent(action, candidate).seq = nextSequence
    BY DEF CommandEvent
<1>6. ASSUME NEW kind, NEW st
      PROVE  /\ NewEvent(0, kind, st).kind = kind /\ NewEvent(0, kind, st).seq = nextSequence
             /\ NewEvent(1, kind, st).kind = kind /\ NewEvent(1, kind, st).seq = nextSequence + 1
             /\ NewEvent(0, kind, st).state = st /\ NewEvent(1, kind, st).state = st
    BY DEF NewEvent, TypeOK
<1>7. ASSUME BeginPathAbort, UNCHANGED <<state, kicked>> PROVE Goal
    BY <1>4, <1>5, <1>7, SilentPush DEF BeginPathAbort
<1>8. ASSUME NEW candidate, NEW counters, StartPathCandidate(candidate, events, counters),
             UNCHANGED <<state, kicked>>
      PROVE  Goal
    BY <1>5, <1>8, SilentPush DEF StartPathCandidate
<1>9. CASE LifecycleCall
    <2>1. CASE SetDeviceId \/ RunAsync \/ EndAttempt \/ FinishCancelled \/ CancelKicked
        BY <1>1, <2>1 DEF SetDeviceId, RunAsync, EndAttempt, FinishCancelled, CancelKicked
    <2>2. CASE Start
        BY <1>4, <2>2, ReportPush DEF Start
    <2>3. CASE Stop
        <3> DEFINE e == NewEvent(1, "StateChanged", "Stopped")
                   f == NewEvent(0, "StateChanged", "Stopping")
        <3>1. Push(WithoutPathEvents(events), {e, f}, 2) /\ state' = "Stopped"
            BY <2>3 DEF Stop, StopReports
        <3>2. /\ e.seq = nextSequence + 1 /\ f.seq = nextSequence /\ f.seq < e.seq
              /\ e.kind = "StateChanged" /\ e.state = "Stopped"
            BY <1>6 DEF TypeOK
        <3> HIDE DEF e, f
        <3> QED
            BY <1>4, <3>1, <3>2, ReportTwoPush
    <2>4. CASE StopQueueFull
        BY <1>2, <2>4 DEF StopQueueFull
    <2>5. CASE FinishFailed
        <3> DEFINE e == NewEvent(1, "StateChanged", "Failed")
                   f == NewEvent(0, "Error", "Failed")
        <3>1. PICK kept \in SUBSET events : Push(kept, {e, f}, 2)
            BY <2>5 DEF FinishFailed
        <3>2. /\ e.seq = nextSequence + 1 /\ f.seq = nextSequence
              /\ e.kind = "StateChanged" /\ e.state = "Failed" /\ f.kind = "Error"
              /\ state' = "Failed"
            BY <1>6, <2>5 DEF FinishFailed
        <3> HIDE DEF e, f
        <3> QED
            BY <3>1, <3>2, ReportTwoPush
    <2>6. CASE PublishNotice
        BY <1>6, <2>6, SilentPush DEF PublishNotice
    <2>7. CASE PublishKick
        <3>1. PICK kept \in SUBSET events : Push(kept, {NewEvent(0, "Kick", state)}, 1)
            BY <2>7 DEF PublishKick
        <3> QED
            BY <1>6, <2>7, <3>1, OnePushed DEF ReportsFollow, PublishKick
    <2> QED
        BY <1>9, <2>1, <2>2, <2>3, <2>4, <2>5, <2>6, <2>7 DEF LifecycleCall
<1>10. ASSUME NEW generation \in Nat \ {0}, PlanCall(generation) PROVE Goal
    <2>1. CASE AttachTun(generation) \/ TakeAttachedTun(generation) \/ TakePacketTunPump(generation)
        BY <1>1, <2>1 DEF AttachTun, TakeAttachedTun, TakePacketTunPump
    <2>2. CASE PublishNetworkPlan(generation)
        <3> DEFINE e == NewEvent(0, "StateChanged", "AwaitingNetwork")
                   f == PlanEvent(1, "AwaitingNetwork", generation)
        <3>1. Push(events, {e, f}, 2) /\ state' = "AwaitingNetwork"
            BY <2>2 DEF PublishNetworkPlan
        <3>2. /\ e.seq = nextSequence /\ f.seq = nextSequence + 1
              /\ e.kind = "StateChanged" /\ e.state = "AwaitingNetwork" /\ f.kind = "NetworkPlan"
            BY <1>6 DEF PlanEvent, NewEvent
        <3> HIDE DEF e, f
        <3> QED
            BY <3>1, <3>2, ReportTwoPush
    <2>3. CASE AckNetworkPlanApplied(generation)
        BY <2>3, ReportPush DEF AckNetworkPlanApplied
    <2>4. CASE AckNetworkPlanRejected(generation)
        <3> DEFINE e == NewEvent(1, "StateChanged", "Failed")
                   f == NewEvent(0, "Error", "Failed")
        <3>1. Push(events, {e, f}, 2) /\ state' = "Failed"
            BY <2>4 DEF AckNetworkPlanRejected
        <3>2. /\ e.seq = nextSequence + 1 /\ f.seq = nextSequence
              /\ e.kind = "StateChanged" /\ e.state = "Failed" /\ f.kind = "Error"
            BY <1>6
        <3> HIDE DEF e, f
        <3> QED
            BY <3>1, <3>2, ReportTwoPush
    <2> QED
        BY <1>10, <2>1, <2>2, <2>3, <2>4 DEF PlanCall
<1>11. ASSUME NEW seq \in Nat, RequestCall(seq) PROVE Goal
    <2>1. CASE AckSocketProtect(seq) \/ AckServerIdentityTrusted(seq)
        BY <1>1, <2>1 DEF AckSocketProtect, AckServerIdentityTrusted
    <2>2. CASE RequestSocketProtect
        BY <1>6, <2>2, SilentPush DEF RequestSocketProtect
    <2>3. CASE RequestServerIdentity
        BY <1>6, <2>3, SilentPush DEF RequestServerIdentity
    <2>4. CASE AckServerIdentityRejected(seq)
        <3> DEFINE e == NewEvent(1, "StateChanged", "Failed")
                   f == NewEvent(0, "Error", "Failed")
        <3>1. Push(events, {e, f}, 2) /\ state' = "Failed"
            BY <2>4 DEF AckServerIdentityRejected
        <3>2. /\ e.seq = nextSequence + 1 /\ f.seq = nextSequence
              /\ e.kind = "StateChanged" /\ e.state = "Failed" /\ f.kind = "Error"
            BY <1>6
        <3> HIDE DEF e, f
        <3> QED
            BY <3>1, <3>2, ReportTwoPush
    <2> QED
        BY <1>11, <2>1, <2>2, <2>3, <2>4 DEF RequestCall
<1>12. ASSUME NEW generation \in Nat, NEW update \in Nat, SubmitPathUpdate(generation, update)
       PROVE  Goal
    <2>1. CASE SubmitFirst(generation, update)
        BY <1>8, <2>1 DEF SubmitFirst, AcceptUpdate
    <2>2. CASE SubmitReplacesUnseen(generation, update)
        BY <1>4, <1>5, <2>2, SilentPush DEF SubmitReplacesUnseen, AcceptUpdate, StartPathCandidate
    <2>3. CASE SubmitSupersedes(generation, update)
        BY <1>7, <2>3 DEF SubmitSupersedes, AcceptUpdate
    <2>4. CASE SubmitBehind(generation, update) \/ SubmitQueueFull(generation, update)
        BY <1>1, <2>4 DEF SubmitBehind, SubmitQueueFull, AcceptUpdate
    <2> QED
        BY <1>12, <2>1, <2>2, <2>3, <2>4 DEF SubmitPathUpdate
<1>13. ASSUME NEW candidate \in Nat, TransportCall(candidate) PROVE Goal
    <2>1. CASE RequestPathRefresh
        <3>1. RefreshEvent.kind = "PathRefresh" /\ RefreshEvent.seq = nextSequence
            BY DEF RefreshEvent, NewEvent, TypeOK
        <3> QED
            BY <2>1, <3>1, SilentPush DEF RequestPathRefresh
    <2>2. ASSUME NEW from, NEW to, RequestCommand(candidate, from, to) PROVE Goal
        BY <1>5, <2>2, SilentPush DEF RequestCommand
    <2>3. CASE AbortCandidatePath(candidate)
        BY <1>7, <2>3 DEF AbortCandidatePath
    <2> QED
        BY <1>13, <2>1, <2>2, <2>3
           DEF TransportCall, RequestCandidateSocketBinding, CandidatePathValidated
<1>14. ASSUME NEW generation \in Nat, NEW candidate \in Nat, NEW seq \in Nat,
              NEW outcome \in Outcomes, AckPathCommand(generation, candidate, seq, outcome)
       PROVE  Goal
    <2>1. CASE AckAdvances(generation, candidate, seq)
        BY <1>1, <2>1 DEF AckAdvances, AckFrame
    <2>2. CASE AckCompletes(generation, candidate, seq)
        BY <1>1, <1>8, <2>2 DEF AckCompletes, AckFrame
    <2>3. CASE AckGivesUp(generation, candidate, seq, outcome)
        BY <1>1, <1>2, <2>3 DEF AckGivesUp, AckFrame
    <2>4. CASE AckRollsBack(generation, candidate, seq)
        BY <1>7, <2>4 DEF AckRollsBack, AckFrame
    <2> QED
        BY <1>14, <2>1, <2>2, <2>3, <2>4 DEF AckPathCommand
<1>15. CASE UNCHANGED coreVars
    BY <1>1, <1>15
<1> HIDE DEF Goal
<1> QED
    BY <1>9, <1>10, <1>11, <1>12, <1>13, <1>14, <1>15 DEF MethodCall, Goal

\* The numbers stay unique while the pump keeps or releases what it holds.
LEMMA UniqueStep ==
    ASSUME TypeOK, AdapterTypeOK, SequencesAreUnique, QueueGrows, held' \in {held, NoEvent}
    PROVE  SequencesAreUnique'
<1>1. held'.seq <= held.seq /\ held'.seq \in {0, held.seq} /\ held.seq \in Nat
    BY DEF NoEvent, AdapterTypeOK, Event
<1>2. held'.seq < nextSequence'
    BY <1>1 DEF SequencesAreUnique, QueueGrows, TypeOK, AdapterTypeOK
<1>3. ASSUME NEW e \in events' PROVE e.seq # 0 /\ e.seq < nextSequence' /\ e.seq # held'.seq
    <2>1. CASE e \in events
        <3>1. e.seq \in Nat
            BY <2>1 DEF TypeOK, Event
        <3> QED
            BY <1>1, <2>1, <3>1 DEF SequencesAreUnique, QueueGrows, TypeOK
    <2>2. CASE e \notin events
        BY <1>1, <1>3, <2>2 DEF SequencesAreUnique, QueueGrows, TypeOK
    <2> QED
        BY <2>1, <2>2
<1>4. ASSUME NEW e \in events', NEW f \in events', e.seq = f.seq PROVE e = f
    BY <1>4 DEF SequencesAreUnique, QueueGrows, TypeOK, Event
<1> QED
    BY <1>2, <1>3, <1>4 DEF SequencesAreUnique

\* A call that is not a delivery keeps the platform informed.
LEMMA ReportedStep ==
    ASSUME StateReported, ReportsFollow, observed' = observed
    PROVE  StateReported'
<1>1. CASE kicked'
    BY <1>1 DEF StateReported
<1>2. CASE UNCHANGED <<state, kicked>> /\ StateReports(events') = StateReports(events)
    BY <1>2 DEF StateReported, StateReports
<1>3. CASE \E e \in StateReports(events') :
             /\ e.state = state'
             /\ \A other \in StateReports(events') : other.seq <= e.seq
    BY <1>3 DEF StateReported, StateReports
<1> QED
    BY <1>1, <1>2, <1>3 DEF ReportsFollow

-----------------------------------------------------------------------------
(* What a step does to the candidates, by the kind of step.                *)

\* The pump keeps what it works on or is done with it.
KeepsOrReleases == UNCHANGED <<held, answer>> \/ Release

\* What the pump has heard of are sequence numbers.
LEMMA HeardAreNumbers == ASSUME AdapterTypeOK PROVE Heard \subseteq Nat
BY DEF AdapterTypeOK, Heard, Event, NoEvent

\* A step that leaves the candidate alone, with every path command still queued
\* unless the session is being ended; the pump gives up the pending command only
\* when its acknowledgement met a full queue.
LEMMA CandidateKept ==
    ASSUME PathInv, AdapterTypeOK, CandidatesInStep, KeepsOrReleases,
           UNCHANGED <<pathCandidate, rules, committed, abandoned>>,
           nextPathCandidateId' \in {nextPathCandidateId, nextPathCandidateId + 1},
           queuedPathCandidate' = queuedPathCandidate
              \/ queuedPathCandidate'.id = nextPathCandidateId,
           refused \subseteq refused',
           QueueGrows,
           \A e \in events' : e \in events \/ (e.kind # "PathCommand" /\ e.action = "None"),
           \/ ~Active
           \/ kicked' \/ runtimeCancel' \/ state' # "Running"
           \/ /\ state = "Running"
              /\ UNCHANGED <<kicked, runtimeCancel>>
              /\ \A e \in events : e.kind = "PathCommand" => e \in events'
              /\ \/ held' = held
                 \/ pathCandidate.pending # 0 => held.seq # pathCandidate.pending
                 \/ held.seq \in refused'
    PROVE  CandidatesInStep'
<1> USE DEF CandidatesInStep
<1>1. /\ PathInv /\ TypeOK /\ CandidateInGeneration
      /\ pathCandidate.id \in Nat /\ pathCandidate.pending \in Nat
    BY DEF PathInv, CommandsAreCurrent, TypeOK, PathCandidate
<1>2. /\ Active' <=> Active
      /\ CommandQueued(pathCandidate.pending)' => CommandQueued(pathCandidate.pending)
    BY DEF Active, CommandQueued
<1>3. \/ UNCHANGED <<held, answer>>
      \/ /\ held'.kind = "None" /\ held'.seq = 0 /\ held'.action = "None" /\ answer' = "None"
    BY DEF KeepsOrReleases, Release, NoEvent
<1>4. PendingIsCommand' /\ HeldIsKnown'
    <2>1. pathCandidate.pending # 0 => pathCandidate.pending < nextSequence
        BY <1>1 DEF CandidateInGeneration, NoCandidate
    <2>2. PendingIsCommand'
        BY <1>1, <2>1 DEF PendingIsCommand, QueueGrows, TypeOK
    <2> QED
        BY <1>1, <1>3, <2>2 DEF HeldIsKnown
<1>5. Heard' \subseteq Heard
    BY <1>3 DEF Heard
<1>6. IdsAreFresh'
    <2>1. \A x \in Heard : x < nextPathCandidateId /\ x < nextPathCandidateId'
        BY <1>1, HeardAreNumbers DEF IdsAreFresh, TypeOK
    <2> QED
        BY <1>2, <1>5, <2>1 DEF IdsAreFresh
<1>7. UnseenLeavesNoTrace' /\ AcceptedIsSettled'
    BY <1>2, <1>3 DEF UnseenLeavesNoTrace, AcceptedIsSettled
<1>8. CommittedIsFinishing'
    <2>1. pathCandidate.phase = "Committing" => pathCandidate.pending # 0
        BY <1>1 DEF CandidateInGeneration, PendingPhases
    <2> QED
        BY <1>2, <1>3, <2>1 DEF CommittedIsFinishing
<1>9. PathsNeedCapability' /\ NoOrphanRules'
    BY <1>2 DEF PathsNeedCapability, NoOrphanRules
<1>10. CommitIsFinal'
    BY <1>3 DEF CommitIsFinal
<1>11. PendingIsReachable'
    <2>1. CASE ~Active
        BY <1>1, <2>1 DEF PendingIsReachable, CandidateInGeneration, NoCandidate
    <2>2. CASE kicked' \/ runtimeCancel' \/ state' # "Running"
        BY <2>2 DEF PendingIsReachable
    <2>3. ASSUME /\ state = "Running"
                 /\ UNCHANGED <<kicked, runtimeCancel>>
                 /\ \A e \in events : e.kind = "PathCommand" => e \in events'
                 /\ \/ held' = held
                    \/ pathCandidate.pending # 0 => held.seq # pathCandidate.pending
                    \/ held.seq \in refused'
          PROVE  PendingIsReachable'
        BY <2>3 DEF PendingIsReachable, CommandQueued
    <2> QED
        BY <2>1, <2>2, <2>3
<1> QED
    BY <1>4, <1>6, <1>7, <1>8, <1>9, <1>10, <1>11

\* A step that ends the transaction: the candidate is left to the platform's
\* teardown, unless the platform has already settled it.
LEMMA CandidateEnded ==
    ASSUME PathInv, AdapterTypeOK, CandidatesInStep, KeepsOrReleases,
           pathCandidate' = NoCandidate, queuedPathCandidate' = NoQueued,
           UNCHANGED <<nextPathCandidateId, rules, committed>>,
           \A e \in events' : e.kind # "PathCommand" /\ e.action = "None",
           abandoned' \subseteq abandoned \cup {pathCandidate.id}, abandoned \subseteq abandoned',
           0 \notin abandoned',
           Active => \/ pathCandidate.id \in abandoned'
                     \/ Release /\ pathCandidate.id \notin rules
    PROVE  CandidatesInStep'
<1> USE DEF CandidatesInStep
<1>1. /\ pathCandidate.id \in Nat /\ pathCandidate'.id = 0 /\ pathCandidate'.pending = 0
      /\ pathCandidate'.phase = "None" /\ ~Active'
    BY DEF PathInv, TypeOK, PathCandidate, NoCandidate, Active
<1>2. \/ UNCHANGED <<held, answer>>
      \/ /\ held'.kind = "None" /\ held'.seq = 0 /\ held'.action = "None" /\ answer' = "None"
    BY DEF KeepsOrReleases, Release, NoEvent
<1>3. held'.kind = "PathCommand" => held' = held /\ held.subject \in abandoned'
    BY <1>2 DEF HeldIsKnown, IdsAreFresh, Heard, Active, Release, NoEvent
<1>4. PendingIsCommand' /\ HeldIsKnown'
    BY <1>1, <1>2, <1>3 DEF PendingIsCommand, HeldIsKnown, IdsAreFresh, Heard
<1>5. IdsAreFresh'
    <2>1. \A x \in Heard' : x \in Heard \/ (x = pathCandidate.id /\ x # 0)
        BY <1>2 DEF Heard
    <2> QED
        BY <1>1, <2>1, CandidateIsAllocated DEF IdsAreFresh
<1>6. UnseenLeavesNoTrace' /\ AcceptedIsSettled' /\ CommittedIsFinishing' /\ PathsNeedCapability'
    BY <1>1, <1>2 DEF UnseenLeavesNoTrace, AcceptedIsSettled, CommittedIsFinishing,
       PathsNeedCapability
<1>7. NoOrphanRules'
    BY <1>1 DEF NoOrphanRules, Active
<1>8. CommitIsFinal' /\ PendingIsReachable'
    BY <1>1, <1>2 DEF CommitIsFinal, PendingIsReachable
<1> QED
    BY <1>4, <1>5, <1>6, <1>7, <1>8

\* A step that starts a candidate: its predecessor has left nothing behind, and
\* the platform has not heard of it.
LEMMA CandidateStarted ==
    ASSUME PathInv, AdapterTypeOK, SequencesAreUnique, CandidatesInStep, KeepsOrReleases,
           NEW candidate \in QueuedPathCandidate, NEW kept \in SUBSET events, NEW counters,
           StartPathCandidate(candidate, kept, counters),
           \A e \in kept : e.kind # "PathCommand",
           PathsEnabled, queuedPathCandidate' = NoQueued,
           UNCHANGED <<rules, committed, abandoned>>,
           candidate.id # 0, nextPathCandidateId' \in Nat, candidate.id < nextPathCandidateId',
           \A x \in Heard : x < candidate.id,
           pathCandidate.id \notin rules,
           held'.kind = "PathCommand" => held.subject # pathCandidate.id
    PROVE  CandidatesInStep'
<1> USE DEF CandidatesInStep
<1>1. /\ pathCandidate'.id = candidate.id /\ pathCandidate'.pending = nextSequence
      /\ pathCandidate'.phase = "Preparing" /\ Active'
    BY DEF StartPathCandidate, Active, QueuedPathCandidate
<1>2. \/ UNCHANGED <<held, answer>>
      \/ /\ held'.kind = "None" /\ held'.seq = 0 /\ held'.action = "None" /\ answer' = "None"
    BY DEF KeepsOrReleases, Release, NoEvent
<1>3. candidate.id \notin Heard /\ candidate.id \in Nat /\ Heard \subseteq Nat
    BY HeardAreNumbers DEF QueuedPathCandidate
<1>4. held'.seq # nextSequence /\ nextSequence # 0 /\ nextSequence \in Nat
    BY <1>2 DEF SequencesAreUnique, PathInv, TypeOK, AdapterTypeOK, Event
<1>5. held'.kind = "PathCommand" =>
         /\ held' = held /\ held.subject \in abandoned /\ held.subject # candidate.id
    BY <1>2, <1>3 DEF HeldIsKnown, Heard
<1>6. HeldIsKnown'
    BY <1>1, <1>2, <1>4, <1>5 DEF HeldIsKnown
<1>14. PendingIsCommand'
    BY <1>1 DEF PendingIsCommand, StartPathCandidate, Push, CommandEvent, SequencesAreUnique,
       PathInv, TypeOK, Event
<1>7. Heard' \subseteq Heard
    BY <1>2 DEF Heard
<1>8. IdsAreFresh'
    <2>1. candidate.id \notin abandoned
        BY <1>3 DEF Heard
    <2>2. ASSUME NEW x \in Heard PROVE x < nextPathCandidateId'
        <3>1. x \in Nat /\ x < candidate.id
            BY <1>3
        <3> QED
            BY <1>3, <3>1
    <2> QED
        BY <1>1, <1>7, <2>1, <2>2 DEF IdsAreFresh
<1>9. UnseenLeavesNoTrace' /\ CommittedIsFinishing'
    BY <1>1, <1>3, <1>5 DEF UnseenLeavesNoTrace, CommittedIsFinishing, Heard
<1>10. AcceptedIsSettled' /\ PathsNeedCapability'
    BY <1>2 DEF AcceptedIsSettled, PathsNeedCapability, PathsEnabled
<1>11. NoOrphanRules'
    BY DEF NoOrphanRules
<1>12. CommitIsFinal'
    BY <1>2 DEF CommitIsFinal, StartPathCandidate, Push, CommandEvent
<1>13. PendingIsReachable'
    <2> DEFINE e == CommandEvent("PREPARE", candidate.id)
    <2>1. e \in events' /\ e.kind = "PathCommand" /\ e.seq = nextSequence
        BY DEF StartPathCandidate, Push, CommandEvent
    <2> QED
        BY <1>1, <2>1 DEF PendingIsReachable, CommandQueued
<1> QED
    BY <1>6, <1>8, <1>9, <1>10, <1>11, <1>12, <1>13, <1>14

\* A step that rolls a candidate back the platform has not switched to.
LEMMA CandidateAborted ==
    ASSUME PathInv, AdapterTypeOK, SequencesAreUnique, CandidatesInStep, KeepsOrReleases,
           BeginPathAbort, Active, pathCandidate.id \notin committed,
           Release \/ pathCandidate.phase # "Committing",
           UNCHANGED <<rules, committed, abandoned>>,
           \/ UNCHANGED <<queuedPathCandidate, nextPathCandidateId>>
           \/ /\ queuedPathCandidate'.id = nextPathCandidateId
              /\ nextPathCandidateId' = nextPathCandidateId + 1
    PROVE  CandidatesInStep'
<1> USE DEF CandidatesInStep
<1>1. /\ pathCandidate'.id = pathCandidate.id /\ pathCandidate'.pending = nextSequence
      /\ pathCandidate'.phase = "Aborting" /\ Active'
    BY DEF BeginPathAbort, Active, PathInv, TypeOK, PathCandidate
<1>2. \/ UNCHANGED <<held, answer>>
      \/ /\ held'.kind = "None" /\ held'.seq = 0 /\ held'.action = "None" /\ answer' = "None"
    BY DEF KeepsOrReleases, Release, NoEvent
<1>3. held'.seq # nextSequence /\ nextSequence # 0
    BY <1>2 DEF SequencesAreUnique, PathInv, TypeOK, AdapterTypeOK, Event
<1>4. HeldIsKnown'
    BY <1>1, <1>2, <1>3 DEF HeldIsKnown, Release, NoEvent
<1>11. PendingIsCommand'
    BY <1>1 DEF PendingIsCommand, BeginPathAbort, Push, CommandEvent, WithoutCommand,
       SequencesAreUnique, PathInv, TypeOK, Event
<1>5. Heard' \subseteq Heard
    BY <1>2 DEF Heard
<1>6. IdsAreFresh'
    <2>1. \A x \in Heard : x < nextPathCandidateId /\ x < nextPathCandidateId'
        BY HeardAreNumbers DEF IdsAreFresh, PathInv, TypeOK
    <2> QED
        BY <1>1, <1>5, <2>1 DEF IdsAreFresh, Active
<1>7. UnseenLeavesNoTrace' /\ CommittedIsFinishing'
    BY <1>1 DEF UnseenLeavesNoTrace, CommittedIsFinishing
<1>8. AcceptedIsSettled' /\ PathsNeedCapability' /\ NoOrphanRules'
    BY <1>1, <1>2 DEF AcceptedIsSettled, PathsNeedCapability, NoOrphanRules
<1>9. CommitIsFinal'
    BY <1>2 DEF CommitIsFinal, BeginPathAbort, Push, CommandEvent, WithoutCommand
<1>10. PendingIsReachable'
    <2> DEFINE e == CommandEvent("ABORT", pathCandidate.id)
    <2>1. e \in events' /\ e.kind = "PathCommand" /\ e.seq = nextSequence
        BY DEF BeginPathAbort, Push, CommandEvent
    <2> QED
        BY <1>1, <2>1 DEF PendingIsReachable, CommandQueued
<1> QED
    BY <1>4, <1>6, <1>7, <1>8, <1>9, <1>10, <1>11

\* The transport asks for BIND or COMMIT: the platform has not switched to the
\* candidate, and holds no COMMIT for it.
LEMMA CommandRequested ==
    ASSUME PathInv, AdapterTypeOK, SequencesAreUnique, CandidatesInStep,
           NEW candidate, NEW from \in {"Prepared", "Bound"}, NEW to \in {"Binding", "Committing"},
           RequestCommand(candidate, from, to), UNCHANGED adapterVars
    PROVE  CandidatesInStep'
<1> USE DEF CandidatesInStep, adapterVars
<1>1. /\ pathCandidate'.id = pathCandidate.id /\ pathCandidate'.pending = nextSequence
      /\ pathCandidate'.phase = to /\ (Active' <=> Active)
      /\ pathCandidate.phase = from /\ pathCandidate.id = candidate
      /\ UNCHANGED <<queuedPathCandidate, nextPathCandidateId>>
    BY DEF RequestCommand, Active, PathInv, TypeOK, PathCandidate
<1>2. held.seq # nextSequence /\ nextSequence # 0
    BY DEF SequencesAreUnique, PathInv, TypeOK, AdapterTypeOK, Event
<1>3. HeldIsKnown'
    BY <1>1, <1>2 DEF HeldIsKnown
<1>4. Heard' = Heard
    BY DEF Heard
<1>5. IdsAreFresh'
    BY <1>1, <1>4 DEF IdsAreFresh
<1>6. UnseenLeavesNoTrace' /\ AcceptedIsSettled'
    BY <1>1 DEF UnseenLeavesNoTrace, AcceptedIsSettled
<1>7. CommittedIsFinishing' /\ PathsNeedCapability' /\ NoOrphanRules'
    BY <1>1 DEF CommittedIsFinishing, PathsNeedCapability, NoOrphanRules
<1> DEFINE new == CommandEvent(PhaseAction[to], candidate)
<1>8. /\ events' = events \cup {new} /\ new.kind = "PathCommand" /\ new.seq = nextSequence
      /\ new.action # "ABORT"
    BY DEF RequestCommand, Push, CommandEvent, PhaseAction
<1>9. CommitIsFinal'
    BY <1>8 DEF CommitIsFinal
<1>10. PendingIsReachable'
    BY <1>1, <1>8 DEF PendingIsReachable, CommandQueued
<1>11. PendingIsCommand'
    BY <1>1, <1>8 DEF PendingIsCommand, SequencesAreUnique, PathInv, TypeOK, Event
<1> QED
    BY <1>3, <1>5, <1>6, <1>7, <1>9, <1>10, <1>11

\* PREPARE or BIND has been accepted.
LEMMA CandidateAdvanced ==
    ASSUME PathInv, AdapterTypeOK, CandidatesInStep, Release,
           NEW generation, NEW candidate, NEW seq, AckAdvances(generation, candidate, seq),
           UNCHANGED <<rules, committed, abandoned>>
    PROVE  CandidatesInStep'
<1> USE DEF CandidatesInStep
<1>1. /\ pathCandidate'.id = pathCandidate.id /\ pathCandidate'.pending = 0
      /\ pathCandidate'.phase \in {"Prepared", "Bound"} /\ (Active' <=> Active)
      /\ pathCandidate.phase # "Committing"
      /\ UNCHANGED <<events, queuedPathCandidate, nextPathCandidateId>>
    BY DEF AckAdvances, AckFrame, Active, PathInv, TypeOK, PathCandidate
<1>2. held'.kind = "None" /\ held'.seq = 0 /\ held'.action = "None" /\ answer' = "None"
    BY DEF Release, NoEvent
<1>3. PendingIsCommand' /\ HeldIsKnown'
    BY <1>1, <1>2 DEF PendingIsCommand, HeldIsKnown
<1>4. Heard' \subseteq Heard
    BY <1>2 DEF Heard
<1>5. IdsAreFresh'
    BY <1>1, <1>4 DEF IdsAreFresh
<1>6. UnseenLeavesNoTrace' /\ AcceptedIsSettled' /\ PendingIsReachable'
    BY <1>1, <1>2 DEF UnseenLeavesNoTrace, AcceptedIsSettled, PendingIsReachable
<1>7. CommittedIsFinishing' /\ PathsNeedCapability' /\ NoOrphanRules'
    BY <1>1 DEF CommittedIsFinishing, PathsNeedCapability, NoOrphanRules
<1>8. CommitIsFinal'
    BY <1>1, <1>2 DEF CommitIsFinal
<1> QED
    BY <1>3, <1>5, <1>6, <1>7, <1>8

\* The pump takes the oldest event.
LEMMA EventDispatched ==
    ASSUME PlatformInv, NEW e \in events, Dispatch(e)
    PROVE  SequencesAreUnique' /\ CandidatesInStep' /\ StateReported'
<1> USE DEF PlatformInv, CandidatesInStep
<1>1. /\ UNCHANGED <<answer, rules, committed, abandoned, refused, dropped>>
      /\ UNCHANGED <<state, nextSequence, pathCandidate, queuedPathCandidate,
                     nextPathCandidateId, kicked, runtimeCancel>>
      /\ events' = events \ {e} /\ held = NoEvent
      /\ \A other \in events : e.seq <= other.seq
    BY DEF Dispatch, PollEvent
<1>2. held'.kind = "PathCommand" => e.kind = "PathCommand" /\ held' = e
    BY DEF Dispatch, NoEvent
<1>3. (held' = e /\ e.kind \in {"PathCommand", "NetworkPlan", "Kick"}) \/ held' = NoEvent
    BY DEF Dispatch
<1>4. answer = "None"
    BY <1>1 DEF HeldIsKnown, NoEvent
<1>5. e \in Event /\ e.seq \in Nat /\ pathCandidate.id \in Nat /\ pathCandidate.pending \in Nat
    BY DEF PathInv, TypeOK, PathCandidate, Event
<1>6. SequencesAreUnique'
    BY <1>1, <1>3, <1>5 DEF SequencesAreUnique, NoEvent, PathInv, TypeOK
<1>7. e.kind = "PathCommand" =>
        /\ Active /\ e.seq = pathCandidate.pending /\ e.subject = pathCandidate.id
        /\ e.action = PhaseAction[pathCandidate.phase]
        /\ pathCandidate.phase \in PendingPhases
    BY DEF PathInv, CommandsAreCurrent, QueuedCommandsAreCurrent
<1>8. Active' <=> Active
    BY <1>1 DEF Active
<1>9. HeldIsKnown'
    <2>1. CASE e.kind = "PathCommand"
        BY <1>1, <1>3, <1>4, <1>7, <2>1 DEF HeldIsKnown, PhaseAction, PendingPhases, NoEvent
    <2>2. CASE e.kind # "PathCommand"
        <3>1. held'.kind # "PathCommand"
            BY <1>3, <2>2 DEF NoEvent
        <3>2. pathCandidate.pending # 0 => held'.seq # pathCandidate.pending
            BY <1>3, <2>2 DEF PendingIsCommand, NoEvent
        <3> QED
            BY <1>1, <1>4, <3>1, <3>2 DEF HeldIsKnown
    <2> QED
        BY <2>1, <2>2

<1>10. CommandQueued(pathCandidate.pending)' => CommandQueued(pathCandidate.pending)
    BY <1>1 DEF CommandQueued
<1>11. IdsAreFresh'
    <2>1. \A x \in Heard' : x \in Heard \/ (Active /\ x = pathCandidate.id)
        BY <1>1, <1>2, <1>7 DEF Heard
    <2>2. queuedPathCandidate # NoQueued => pathCandidate.id < queuedPathCandidate.id
        BY DEF PathInv, CommandsAreCurrent, QueuedBehindTerminalPhase, TypeOK, PathCandidate,
           QueuedPathCandidate
    <2> QED
        BY <1>1, <1>8, <2>1, <2>2, CandidateIsAllocated DEF IdsAreFresh, Active
<1>12. UnseenLeavesNoTrace'
    <2>1. CASE e.kind = "PathCommand"
        <3>1. ~CommandQueued(pathCandidate.pending)'
            BY <1>1, <1>7, <2>1 DEF CommandQueued, SequencesAreUnique
        <3> QED
            BY <3>1 DEF UnseenLeavesNoTrace
    <2>2. CASE e.kind # "PathCommand"
        BY <1>1, <1>2, <1>10, <2>2 DEF UnseenLeavesNoTrace
    <2> QED
        BY <2>1, <2>2
<1>13. AcceptedIsSettled'
    BY <1>1, <1>4 DEF AcceptedIsSettled
<1>14. CommittedIsFinishing'
    <2>1. CASE e.kind = "PathCommand"
        <3>1. CommandQueued(pathCandidate.pending)
            BY <1>7, <2>1 DEF CommandQueued
        <3> QED
            BY <1>1, <1>8, <3>1 DEF CommittedIsFinishing
    <2>2. CASE e.kind # "PathCommand"
        <3>1. pathCandidate.phase = "Committing" => held'.seq # pathCandidate.pending
            BY <1>3, <2>2 DEF PendingIsCommand, NoEvent, PathInv, CommandsAreCurrent,
               CandidateInGeneration, PendingPhases
        <3> QED
            BY <1>1, <1>8, <1>10, <3>1 DEF CommittedIsFinishing
    <2> QED
        BY <2>1, <2>2
<1>15. PathsNeedCapability' /\ NoOrphanRules' /\ PendingIsCommand'
    BY <1>1, <1>8 DEF PathsNeedCapability, NoOrphanRules, PendingIsCommand
<1>16. CommitIsFinal'
    BY <1>1, <1>3 DEF CommitIsFinal, NoEvent
<1>17. PendingIsReachable'
    <2>1. e.kind = "PathCommand" => held' = e
        BY DEF Dispatch
    <2> QED
        BY <1>1, <1>7, <2>1 DEF PendingIsReachable, CommandQueued, NoEvent
<1>18. StateReported'
    <2> DEFINE reports == StateReports(events)
    <2>1. StateReports(events') = reports \ {e}
        BY <1>1 DEF StateReports
    <2>2. CASE kicked
        BY <1>1, <2>2 DEF StateReported
    <2>3. CASE ~kicked /\ reports = {}
        <3>1. e.kind # "StateChanged" /\ observed = state
            BY <2>3 DEF StateReported, StateReports
        <3>2. observed' = state' /\ StateReports(events') = {}
            BY <1>1, <2>1, <2>3, <3>1 DEF Dispatch
        <3> QED
            BY <3>2 DEF StateReported, StateReports
    <2>4. CASE ~kicked /\ reports # {}
        <3>1. PICK r \in reports : r.state = state /\ \A other \in reports : other.seq <= r.seq
            BY <2>4 DEF StateReported, StateReports
        <3>2. CASE r # e
            <4>1. r \in StateReports(events')
                BY <2>1, <3>2
            <4> QED
                BY <1>1, <2>1, <3>1, <4>1 DEF StateReported, StateReports
        <3>3. CASE r = e
            <4>1. \A other \in reports : other = e
                <5>1. ASSUME NEW other \in reports PROVE other = e
                    <6>1. other \in events /\ other.seq <= e.seq /\ e.seq <= other.seq
                        BY <1>1, <3>1, <3>3 DEF StateReports
                    <6>2. other.seq \in Nat
                        BY <6>1 DEF PathInv, TypeOK, Event
                    <6> QED
                        BY <1>5, <6>1, <6>2 DEF SequencesAreUnique
                <5> QED
                    BY <5>1
            <4>2. StateReports(events') = {} /\ e.kind = "StateChanged" /\ e.state = state
                BY <2>1, <3>1, <3>3, <4>1 DEF StateReports
            <4>3. observed' = state'
                BY <1>1, <4>2 DEF Dispatch
            <4> QED
                BY <4>2, <4>3 DEF StateReported, StateReports
        <3> QED
            BY <3>2, <3>3
    <2> QED
        BY <2>2, <2>3, <2>4
<1> QED
    BY <1>6, <1>9, <1>11, <1>12, <1>13, <1>14, <1>15, <1>16, <1>17, <1>18

\* The pump executes the command it holds, whatever the core has done since.
LEMMA CommandExecuted ==
    ASSUME PlatformInv, NEW outcome \in Outcomes, Execute(outcome)
    PROVE  CandidatesInStep'
<1> USE DEF PlatformInv, CandidatesInStep
<1>1. /\ held.kind = "PathCommand" /\ answer = "None" /\ answer' = outcome
      /\ UNCHANGED coreVars /\ UNCHANGED <<held, abandoned, refused>>
    BY DEF Execute
<1>2. (Active' <=> Active) /\ CommandQueued(pathCandidate.pending)' = CommandQueued(pathCandidate.pending)
    BY <1>1 DEF Active, CommandQueued
<1>3. /\ rules' \subseteq rules \cup {held.subject}
      /\ committed' \subseteq committed \cup {held.subject}
      /\ committed' # committed => held.action = "COMMIT" /\ outcome # "Rejected"
      /\ outcome = "Accepted" /\ held.action \in {"COMMIT", "ABORT"} => held.subject \notin rules'
    BY DEF Execute, Effect
<1>4. HeldIsKnown' /\ PendingIsCommand'
    BY <1>1 DEF HeldIsKnown, PendingIsCommand
<1>5. IdsAreFresh'
    <2>1. Heard' \subseteq Heard
        BY <1>1, <1>3 DEF Heard
    <2> QED
        BY <1>1, <1>2, <2>1 DEF IdsAreFresh
<1>6. UnseenLeavesNoTrace'
    BY <1>1, <1>2, <1>3 DEF UnseenLeavesNoTrace
<1>7. AcceptedIsSettled'
    BY <1>1, <1>3 DEF AcceptedIsSettled
<1>8. CommittedIsFinishing'
    <2>1. CASE pathCandidate.id \in committed
        BY <1>1, <1>2, <2>1 DEF CommittedIsFinishing
    <2>2. CASE Active /\ pathCandidate.id \notin committed /\ pathCandidate.id \in committed'
        <3>1. held.subject = pathCandidate.id /\ held.action = "COMMIT" /\ outcome # "Rejected"
            BY <1>3, <2>2
        <3>2. pathCandidate.phase = "Committing" /\ held.seq = pathCandidate.pending
            BY <1>1, <3>1 DEF HeldIsKnown
        <3>3. ~CommandQueued(pathCandidate.pending)
            BY <3>2 DEF CommandQueued, SequencesAreUnique
        <3> QED
            BY <1>1, <1>2, <3>1, <3>2, <3>3 DEF CommittedIsFinishing, Outcomes
    <2> QED
        BY <1>1, <1>2, <2>1, <2>2 DEF CommittedIsFinishing
<1>9. PathsNeedCapability' /\ PendingIsReachable'
    BY <1>1, <1>2 DEF PathsNeedCapability, PendingIsReachable
<1>10. NoOrphanRules'
    BY <1>1, <1>3 DEF NoOrphanRules, HeldIsKnown
<1>11. CommitIsFinal'
    <2>1. CASE committed' = committed
        BY <1>1, <2>1 DEF CommitIsFinal
    <2>2. CASE committed' # committed
        <3>1. held.action = "COMMIT"
            BY <1>3, <2>2
        <3>2. ASSUME NEW e \in events, e.action = "ABORT" PROVE e.subject # held.subject
            <4>1. /\ e.kind = "PathCommand" /\ e.subject = pathCandidate.id
                  /\ Active /\ e.action = PhaseAction[pathCandidate.phase]
                BY <3>2 DEF PendingIsCommand, PathInv, CommandsAreCurrent,
                   QueuedCommandsAreCurrent
            <4>2. pathCandidate.phase # "Committing"
                BY <3>2, <4>1 DEF PhaseAction
            <4> QED
                BY <1>1, <3>1, <4>1, <4>2 DEF HeldIsKnown
        <3> QED
            BY <1>1, <1>3, <3>1, <3>2 DEF CommitIsFinal
    <2> QED
        BY <2>1, <2>2
<1> QED
    BY <1>4, <1>5, <1>6, <1>7, <1>8, <1>9, <1>10, <1>11

-----------------------------------------------------------------------------
(* Every step of the system.                                               *)

\* What the pump acknowledges has been delivered: it is not queued.
LEMMA HeldIsDelivered ==
    ASSUME PlatformInv
    PROVE  /\ Delivered(held.seq)
           /\ held.seq \in Nat /\ held.subject \in Nat /\ lastPlanGeneration \in Nat
           /\ answer # "None" => answer \in Outcomes
BY DEF PlatformInv, SequencesAreUnique, Delivered, AdapterTypeOK, Event, NoEvent, PathInv, TypeOK

\* The actors around the core only make calls any caller may make.
LEMMA CoreStep ==
    PlatformInv /\ [SystemNext]_vars =>
        (\E e \in events : Dispatch(e)) \/ [MethodCall]_coreVars
<1> SUFFICES ASSUME PlatformInv, SystemNext, ~\E e \in events : Dispatch(e)
             PROVE  [MethodCall]_coreVars
    BY DEF vars
<1>2. CASE \E outcome \in Outcomes : Execute(outcome)
    BY <1>2 DEF Execute
<1>3. CASE Acknowledge
    <2>1. CASE AckPathCommand(lastPlanGeneration, held.subject, held.seq, answer)
        <3>1. answer \in Outcomes
            BY <1>3, HeldIsDelivered DEF Acknowledge
        <3> QED
            BY <2>1, <3>1, HeldIsDelivered DEF MethodCall
    <2>2. CASE UNCHANGED coreVars
        BY <2>2
    <2> QED
        BY <1>3, <2>1, <2>2 DEF Acknowledge
<1>4. CASE AnswerPlan
    <2>1. CASE PlanIsPending(held.subject)
        <3>1. held.subject \in Nat \ {0}
            BY <2>1, HeldIsDelivered DEF PlanIsPending
        <3> QED
            BY <1>4, <3>1 DEF AnswerPlan, MethodCall, PlanCall
    <2>2. CASE UNCHANGED coreVars
        BY <2>2
    <2> QED
        BY <1>4, <2>1, <2>2 DEF AnswerPlan, AckNetworkPlanApplied, AckNetworkPlanRejected
<1>5. CASE AnswerKick \/ User \/ FinishCancelled
    BY <1>5 DEF AnswerKick, User, MethodCall, LifecycleCall
<1>6. CASE Runner
    <2>1. lastPlanGeneration + 1 \in Nat \ {0}
        BY HeldIsDelivered
    <2>2. CASE PublishNetworkPlan(lastPlanGeneration + 1)
        BY <2>1, <2>2 DEF MethodCall, PlanCall
    <2> QED
        BY <1>6, <2>2 DEF Runner, MethodCall, LifecycleCall
<1>7. CASE Transport
    <2>1. pathCandidate.id \in Nat
        BY DEF PlatformInv, PathInv, TypeOK, PathCandidate
    <2> QED
        BY <1>7, <2>1 DEF Transport, MethodCall, TransportCall
<1>8. CASE \E update \in 1..MaxUpdate : Monitor(update)
    <2>1. \A update \in 1..MaxUpdate : update \in Nat
        BY BoundAssumption
    <2> QED
        BY <1>8, <2>1, HeldIsDelivered DEF Monitor, MethodCall
<1> QED
    BY <1>2, <1>3, <1>4, <1>5, <1>6, <1>7, <1>8 DEF SystemNext, Pump

\* What the pump learned, and what the platform did, keep their types.
LEMMA AdapterTypeStep ==
    ASSUME PlatformInv, [SystemNext]_vars, TypeOK'
    PROVE  AdapterTypeOK'
<1> USE DEF AdapterTypeOK, PlatformInv
<1>1. pathCandidate.id \in Nat /\ held.subject \in Nat /\ held.seq \in Nat
    BY HeldIsDelivered DEF TypeOK, PathCandidate
<1>2. ASSUME UNCHANGED adapterVars PROVE AdapterTypeOK'
    BY <1>2 DEF adapterVars
<1>3. ASSUME Release,
             rules' \cup committed' \cup abandoned' \cup refused' \cup dropped' \subseteq Nat,
             observed' \in States
      PROVE  AdapterTypeOK'
    BY <1>3 DEF Release
<1>4. ASSUME UNCHANGED <<held, answer, rules, committed, refused, dropped, observed>>,
             abandoned' \subseteq abandoned \cup {pathCandidate.id}
      PROVE  AdapterTypeOK'
    BY <1>1, <1>4
<1>5. ASSUME NEW e \in events, Dispatch(e) PROVE AdapterTypeOK'
    <2>1. e \in Event /\ e.state \in States
        BY DEF TypeOK, Event
    <2> QED
        BY <1>5, <2>1 DEF Dispatch
<1>6. ASSUME NEW outcome \in Outcomes, Execute(outcome) PROVE AdapterTypeOK'
    BY <1>1, <1>6 DEF Execute, Effect
<1>7. CASE Acknowledge
    BY <1>1, <1>3, <1>7 DEF Acknowledge
<1>8. CASE AnswerPlan \/ AnswerKick
    BY <1>1, <1>3, <1>8 DEF AnswerPlan, AnswerKick, Abandon
<1>9. CASE User \/ Runner
    BY <1>4, <1>9 DEF User, Runner, Abandon
<1>10. CASE Transport
    BY <1>1, <1>2, <1>10 DEF Transport
<1>11. CASE (FinishCancelled /\ UNCHANGED adapterVars) \/ UNCHANGED vars
            \/ \E update \in 1..MaxUpdate : Monitor(update)
    BY <1>2, <1>11 DEF Monitor, vars, adapterVars
<1> QED
    BY <1>5, <1>6, <1>7, <1>8, <1>9, <1>10, <1>11 DEF SystemNext, Pump

\* A call that leaves the candidate alone and has not been made by the pump.
LEMMA CallAroundCandidate ==
    ASSUME PlatformInv, QueueGrows, UNCHANGED <<pathVars, adapterVars>>,
           \A e \in events' : e \in events \/ (e.kind # "PathCommand" /\ e.action = "None"),
           \/ ~Active
           \/ kicked' \/ runtimeCancel' \/ state' # "Running"
           \/ /\ state = "Running"
              /\ UNCHANGED <<kicked, runtimeCancel>>
              /\ \A e \in events : e.kind = "PathCommand" => e \in events'
    PROVE  CandidatesInStep'
BY CandidateKept DEF PlatformInv, adapterVars, KeepsOrReleases

\* The calls of the user and of the runner.
LEMMA LifecycleCandidates ==
    ASSUME PlatformInv, QueueGrows, User \/ Runner \/ (FinishCancelled /\ UNCHANGED adapterVars)
    PROVE  CandidatesInStep'
<1> USE DEF adapterVars
<1>1. /\ TypeOK /\ PathInv /\ AdapterTypeOK /\ CandidatesInStep /\ 0 \notin abandoned
      /\ (Active => state \in {"Running", "Failed"})
    BY DEF PlatformInv, PathInv, CommandsAreCurrent, CandidateInGeneration, CandidatesInStep,
       IdsAreFresh, Heard
<1>2. ASSUME NEW n \in {0, 1}, NEW kind \in LifecycleKinds, NEW st
      PROVE  NewEvent(n, kind, st).kind # "PathCommand" /\ NewEvent(n, kind, st).action = "None"
    BY DEF NewEvent, LifecycleKinds
<1>3. ASSUME NEW e \in WithoutPathEvents(events)
      PROVE  e \in events /\ e.kind # "PathCommand" /\ e.action = "None"
    BY <1>1, <1>3 DEF WithoutPathEvents, PathKinds, CandidatesInStep, PendingIsCommand
<1>4. CASE /\ SetDeviceId \/ RunAsync \/ EndAttempt \/ FinishCancelled \/ CancelKicked
           /\ UNCHANGED adapterVars
    <2>1. UNCHANGED <<pathVars, events, state, kicked>> /\ (runtimeCancel' = runtimeCancel \/ runtimeCancel')
        BY <1>4 DEF SetDeviceId, RunAsync, EndAttempt, FinishCancelled, CancelKicked
    <2> QED
        BY <1>4, <2>1, CallAroundCandidate
<1>5. CASE StopQueueFull /\ UNCHANGED adapterVars
    BY <1>1, <1>3, <1>5, CandidateKept DEF StopQueueFull, KeepsOrReleases
<1>6. CASE (PublishNotice \/ PublishKick) /\ UNCHANGED adapterVars
    <2>1. CASE PublishNotice
        BY <1>2, <1>6, <2>1, CallAroundCandidate DEF PublishNotice, Push, LifecycleKinds
    <2>2. CASE PublishKick
        <3>1. PICK kept \in SUBSET events : Push(kept, {NewEvent(0, "Kick", state)}, 1)
            BY <2>2 DEF PublishKick
        <3>2. UNCHANGED pathVars /\ kicked'
            BY <2>2 DEF PublishKick
        <3> QED
            BY <1>2, <1>6, <3>1, <3>2, CallAroundCandidate DEF Push, LifecycleKinds
    <2> QED
        BY <1>6, <2>1, <2>2
<1>7. CASE PublishNetworkPlan(lastPlanGeneration + 1) /\ UNCHANGED adapterVars
    <2>1. /\ PlanEvent(1, "AwaitingNetwork", lastPlanGeneration + 1).kind = "NetworkPlan"
          /\ PlanEvent(1, "AwaitingNetwork", lastPlanGeneration + 1).action = "None"
        BY DEF PlanEvent, NewEvent
    <2> QED
        BY <1>2, <1>7, <2>1, CallAroundCandidate DEF PublishNetworkPlan, Push, LifecycleKinds
<1>8. CASE Start /\ UNCHANGED adapterVars
    <2>1. /\ ~Active /\ pathCandidate' = NoCandidate /\ queuedPathCandidate' = NoQueued
          /\ UNCHANGED nextPathCandidateId
          /\ Push(WithoutPathEvents(events), {NewEvent(0, "StateChanged", "Connecting")}, 1)
        BY <1>1, <1>8 DEF Start, ClearSession, ClearPaths
    <2>2. \A e \in events' : e.kind # "PathCommand" /\ e.action = "None"
        BY <1>2, <1>3, <2>1 DEF Push, LifecycleKinds
    <2> QED
        BY <1>1, <1>8, <2>1, <2>2, CandidateEnded DEF KeepsOrReleases
<1>9. CASE /\ Stop \/ FinishFailed
           /\ Abandon /\ UNCHANGED <<held, answer, rules, committed, refused, dropped, observed>>
    <2>1. /\ pathCandidate' = NoCandidate /\ queuedPathCandidate' = NoQueued
          /\ UNCHANGED nextPathCandidateId
        BY <1>9 DEF Stop, FinishFailed, ClearSession, ClearPaths
    <2>2. \A e \in events' : e.kind # "PathCommand" /\ e.action = "None"
        <3>1. CASE Stop
            BY <1>2, <1>3, <3>1 DEF Stop, StopReports, Push, LifecycleKinds
        <3>2. CASE FinishFailed
            <4>1. PICK kept \in SUBSET events :
                     /\ IsNewest(kept, WithoutPathEvents(events), EventCapacity - 2)
                     /\ Push(kept, {NewEvent(0, "Error", "Failed"),
                                    NewEvent(1, "StateChanged", "Failed")}, 2)
                BY <3>2 DEF FinishFailed
            <4> QED
                BY <1>2, <1>3, <4>1 DEF Push, IsNewest, LifecycleKinds
        <3> QED
            BY <1>9, <3>1, <3>2
    <2> QED
        BY <1>1, <1>9, <2>1, <2>2, CandidateEnded DEF KeepsOrReleases, Abandon, Active
<1> QED
    BY <1>4, <1>5, <1>6, <1>7, <1>8, <1>9 DEF User, Runner

\* The pump's answers to a plan and to a KICK.
LEMMA AnswerCandidates ==
    ASSUME PlatformInv, QueueGrows, AnswerPlan \/ AnswerKick
    PROVE  CandidatesInStep'
<1>1. /\ TypeOK /\ PathInv /\ AdapterTypeOK /\ CandidatesInStep /\ 0 \notin abandoned
      /\ (Active => state \in {"Running", "Failed"})
    BY DEF PlatformInv, PathInv, CommandsAreCurrent, CandidateInGeneration, CandidatesInStep,
       IdsAreFresh, Heard
<1>2. /\ Release /\ UNCHANGED <<rules, committed, refused>>
      /\ (pathCandidate.pending # 0 => held.seq # pathCandidate.pending)
    BY <1>1 DEF AnswerPlan, AnswerKick, CandidatesInStep, HeldIsKnown
<1>3. ASSUME NEW n \in {0, 1}, NEW kind \in LifecycleKinds, NEW st
      PROVE  NewEvent(n, kind, st).kind # "PathCommand" /\ NewEvent(n, kind, st).action = "None"
    BY DEF NewEvent, LifecycleKinds
<1>4. ASSUME NEW e \in WithoutPathEvents(events)
      PROVE  e \in events /\ e.kind # "PathCommand" /\ e.action = "None"
    BY <1>1, <1>4 DEF WithoutPathEvents, PathKinds, CandidatesInStep, PendingIsCommand
<1>5. ASSUME UNCHANGED coreVars, UNCHANGED abandoned PROVE CandidatesInStep'
    BY <1>1, <1>2, <1>5, CandidateKept DEF KeepsOrReleases
<1>6. CASE AnswerPlan
    <2>1. UNCHANGED abandoned
        BY <1>6 DEF AnswerPlan
    <2>2. CASE AckNetworkPlanApplied(held.subject) \/ AckNetworkPlanRejected(held.subject)
        <3>1. ~Active /\ UNCHANGED pathVars
            BY <1>1, <2>2 DEF AckNetworkPlanApplied, AckNetworkPlanRejected, PlanIsPending
        <3>2. \A e \in events' : e \in events \/ (e.kind # "PathCommand" /\ e.action = "None")
            BY <1>3, <2>2 DEF AckNetworkPlanApplied, AckNetworkPlanRejected, Push, LifecycleKinds
        <3> QED
            BY <1>1, <1>2, <2>1, <3>1, <3>2, CandidateKept DEF KeepsOrReleases
    <2> QED
        BY <1>5, <1>6, <2>1, <2>2 DEF AnswerPlan
<1>7. CASE AnswerKick
    <2>1. CASE Stop /\ Abandon
        <3>1. /\ pathCandidate' = NoCandidate /\ queuedPathCandidate' = NoQueued
              /\ UNCHANGED nextPathCandidateId
            BY <2>1 DEF Stop, ClearSession, ClearPaths
        <3>2. \A e \in events' : e.kind # "PathCommand" /\ e.action = "None"
            BY <1>3, <1>4, <2>1 DEF Stop, StopReports, Push, LifecycleKinds
        <3> QED
            BY <1>1, <1>2, <2>1, <3>1, <3>2, CandidateEnded DEF KeepsOrReleases, Abandon, Active
    <2>2. CASE StopQueueFull /\ UNCHANGED abandoned
        BY <1>1, <1>2, <1>4, <2>2, CandidateKept DEF StopQueueFull, KeepsOrReleases
    <2> QED
        BY <1>5, <1>7, <2>1, <2>2 DEF AnswerKick
<1> QED
    BY <1>6, <1>7

\* The network monitor submits an observation.
LEMMA MonitorCandidates ==
    ASSUME PlatformInv, TypeOK', QueueGrows, NEW update \in Nat, Monitor(update)
    PROVE  CandidatesInStep'
<1> USE DEF adapterVars
<1>1. /\ TypeOK /\ PathInv /\ AdapterTypeOK /\ CandidatesInStep /\ SequencesAreUnique
      /\ lastPlanGeneration \in Nat
    BY DEF PlatformInv, PathInv, TypeOK
<1>2. UNCHANGED adapterVars /\ KeepsOrReleases
    BY DEF Monitor, KeepsOrReleases
<1> DEFINE submitted == SubmittedCandidate(lastPlanGeneration)
<1>3. ASSUME AcceptUpdate(lastPlanGeneration, update)
      PROVE  /\ submitted.id = nextPathCandidateId /\ submitted \in QueuedPathCandidate
             /\ submitted.id # 0 /\ nextPathCandidateId' = nextPathCandidateId + 1
             /\ submitted.id < nextPathCandidateId' /\ nextPathCandidateId' \in Nat
             /\ UNCHANGED <<state, kicked, runtimeCancel>> /\ PathsEnabled
    BY <1>1, <1>3 DEF AcceptUpdate, NewPathUpdate, SubmittedCandidate, QueuedPathCandidate, TypeOK
<1>4. \A x \in Heard : x < nextPathCandidateId
    BY <1>1 DEF CandidatesInStep, IdsAreFresh
<1>5. CASE SubmitFirst(lastPlanGeneration, update)
    <2>1. /\ AcceptUpdate(lastPlanGeneration, update) /\ StartPathCandidate(submitted, events, roam)
          /\ ~Active /\ UNCHANGED queuedPathCandidate
        BY <1>5 DEF SubmitFirst
    <2>2. queuedPathCandidate' = NoQueued /\ \A e \in events : e.kind # "PathCommand"
        BY <1>1, <2>1, PhaseMeansActive DEF PathInv, CommandsAreCurrent, QueuedCommandsAreCurrent
    <2>3. /\ pathCandidate.id \notin rules
          /\ held.kind = "PathCommand" => held.subject # pathCandidate.id
        BY <1>1, <2>1 DEF CandidatesInStep, IdsAreFresh, Heard, Active
    <2> HIDE DEF submitted
    <2> QED
        BY <1>1, <1>2, <1>3, <1>4, <2>1, <2>2, <2>3, CandidateStarted
<1>6. CASE SubmitReplacesUnseen(lastPlanGeneration, update)
    <2> DEFINE kept == WithoutCommand(events, pathCandidate.pending)
    <2>1. /\ AcceptUpdate(lastPlanGeneration, update)
          /\ StartPathCandidate(submitted, kept, FailureRecorded)
          /\ UNCHANGED queuedPathCandidate
          /\ pathCandidate.phase = "Preparing" /\ CommandQueued(pathCandidate.pending)
        BY <1>6 DEF SubmitReplacesUnseen, PrepareUnseen
    <2>2. /\ queuedPathCandidate' = NoQueued /\ kept \in SUBSET events
          /\ \A e \in kept : e.kind # "PathCommand"
        BY <1>1, <2>1, PhaseMeansActive DEF PathInv, CommandsAreCurrent, QueuedCommandsAreCurrent,
           WithoutCommand
    <2>3. /\ pathCandidate.id \notin rules
          /\ held.kind = "PathCommand" => held.subject # pathCandidate.id
        BY <1>1, <2>1 DEF CandidatesInStep, UnseenLeavesNoTrace
    <2> HIDE DEF submitted, kept
    <2> QED
        BY <1>1, <1>2, <1>3, <1>4, <2>1, <2>2, <2>3, CandidateStarted
<1>7. CASE SubmitBehind(lastPlanGeneration, update)
    <2>1. /\ AcceptUpdate(lastPlanGeneration, update) /\ queuedPathCandidate' = submitted
          /\ UNCHANGED <<queueVars, pathCandidate>>
        BY <1>7 DEF SubmitBehind
    <2> HIDE DEF submitted
    <2>2. queuedPathCandidate'.id = nextPathCandidateId
        BY <1>3, <2>1
    <2> QED
        BY <1>1, <1>2, <1>3, <2>1, <2>2, CandidateKept DEF PathsEnabled
<1>8. CASE SubmitSupersedes(lastPlanGeneration, update)
    <2>1. /\ AcceptUpdate(lastPlanGeneration, update) /\ queuedPathCandidate' = submitted
          /\ BeginPathAbort /\ Active
          /\ pathCandidate.phase \notin {"Committing", "Aborting"}
        BY <1>1, <1>8, PhaseMeansActive DEF SubmitSupersedes, MustRollBack
    <2>2. pathCandidate.id \notin committed
        BY <1>1, <2>1 DEF CandidatesInStep, CommittedIsFinishing
    <2> HIDE DEF submitted
    <2> QED
        BY <1>1, <1>2, <1>3, <2>1, <2>2, CandidateAborted
<1>9. CASE SubmitQueueFull(lastPlanGeneration, update)
    <2>1. /\ UNCHANGED <<queueVars, pathCandidate, queuedPathCandidate, state, kicked, runtimeCancel>>
          /\ nextPathCandidateId' = nextPathCandidateId + 1 /\ state = "Running"
        BY <1>9 DEF SubmitQueueFull, NewPathUpdate, PathsEnabled
    <2> QED
        BY <1>1, <1>2, <2>1, CandidateKept
<1> QED
    BY <1>5, <1>6, <1>7, <1>8, <1>9 DEF Monitor, SubmitPathUpdate

\* The transport takes a candidate forward or gives it up.
LEMMA TransportCandidates ==
    ASSUME PlatformInv, QueueGrows, Transport
    PROVE  CandidatesInStep'
<1> USE DEF adapterVars
<1>1. /\ TypeOK /\ PathInv /\ AdapterTypeOK /\ CandidatesInStep /\ SequencesAreUnique
    BY DEF PlatformInv, PathInv
<1>2. ASSUME NEW from \in {"Prepared", "Bound"}, NEW to \in {"Binding", "Committing"},
             RequestCommand(pathCandidate.id, from, to), UNCHANGED adapterVars
      PROVE  CandidatesInStep'
    BY <1>1, <1>2, CommandRequested
<1>3. CASE /\ pathCandidate.phase \in {"Prepared", "Binding", "Bound"}
           /\ AbortCandidatePath(pathCandidate.id) /\ UNCHANGED adapterVars
    <2>1. /\ BeginPathAbort /\ Active /\ UNCHANGED <<queuedPathCandidate, nextPathCandidateId>>
          /\ pathCandidate.id \notin committed
        BY <1>1, <1>3 DEF AbortCandidatePath, CandidatesInStep, CommittedIsFinishing
    <2> QED
        BY <1>1, <1>3, <2>1, CandidateAborted DEF KeepsOrReleases
<1>4. CASE UNCHANGED <<coreVars, held, answer, rules, committed, abandoned, refused>>
    BY <1>1, <1>4, CandidateKept DEF KeepsOrReleases
<1> QED
    BY <1>2, <1>3, <1>4 DEF Transport, RequestCandidateSocketBinding, CandidatePathValidated

\* The acknowledgement of an executed command.  A stale one is for a command the
\* candidate does not wait for: the correlation check of ack_path_command.
LEMMA AcknowledgeCandidates ==
    ASSUME PlatformInv, TypeOK', QueueGrows, Acknowledge
    PROVE  CandidatesInStep'
<1>1. /\ TypeOK /\ PathInv /\ AdapterTypeOK /\ CandidatesInStep /\ SequencesAreUnique
      /\ answer \in Outcomes /\ held.kind = "PathCommand" /\ 0 \notin abandoned
      /\ pathCandidate.id \in Nat
    BY DEF PlatformInv, PathInv, Acknowledge, AdapterTypeOK, CandidatesInStep, HeldIsKnown,
       IdsAreFresh, Heard, TypeOK, PathCandidate
<1>2. Release /\ KeepsOrReleases /\ UNCHANGED <<rules, committed>>
    BY DEF Acknowledge, KeepsOrReleases
<1> DEFINE matches == AckMatches(lastPlanGeneration, held.subject, held.seq)
<1>3. ASSUME matches
      PROVE  /\ \A e \in events : e.kind # "PathCommand" /\ e.action = "None"
             /\ Active /\ PathsEnabled /\ held.subject = pathCandidate.id
             /\ held.seq = pathCandidate.pending
    <2>1. /\ \A e \in events : e.kind # "PathCommand"
          /\ Active /\ state = "Running" /\ pathCandidate.pending = held.seq
        BY <1>1, <1>3, AckedQueue, HeldIsDelivered
    <2> QED
        BY <1>1, <1>3, <2>1 DEF AckMatches, CandidatesInStep, PendingIsCommand
<1>4. ASSUME matches, pathCandidate.phase \in PendingPhases
      PROVE  held.action = PhaseAction[pathCandidate.phase]
    BY <1>1, <1>3, <1>4 DEF CandidatesInStep, HeldIsKnown, PathInv, CommandsAreCurrent,
       CandidateInGeneration
<1>5. CASE /\ AckPathCommand(lastPlanGeneration, held.subject, held.seq, answer)
           /\ abandoned' = IF roam'.fallbacks # roam.fallbacks
                           THEN abandoned \cup {held.subject} ELSE abandoned
    <2>1. matches
        BY <1>5 DEF AckPathCommand, AckAdvances, AckCompletes, AckGivesUp, AckRollsBack
    <2>2. FailureRecorded \in RoamCounters /\ FailureRecorded.fallbacks = roam.fallbacks
        BY <1>1, FailureRecordedType DEF FailureRecorded, TypeOK, RoamCounters
    <2>3. CASE AckAdvances(lastPlanGeneration, held.subject, held.seq)
        <3>1. UNCHANGED abandoned
            BY <1>5, <2>3 DEF AckAdvances
        <3> QED
            BY <1>1, <1>2, <2>3, <3>1, CandidateAdvanced
    <2>4. CASE answer = "Accepted" /\ AckCompletes(lastPlanGeneration, held.subject, held.seq)
        <3>1. pathCandidate.phase \in {"Committing", "Aborting"} /\ UNCHANGED nextPathCandidateId
            BY <2>4 DEF AckCompletes, AckFrame
        <3>2. pathCandidate.id \notin rules
            <4>1. held.action \in {"COMMIT", "ABORT"}
                BY <1>4, <2>1, <3>1 DEF PhaseAction, PendingPhases
            <4> QED
                BY <1>1, <1>3, <2>1, <2>4, <4>1 DEF CandidatesInStep, AcceptedIsSettled
        <3>3. UNCHANGED abandoned
            BY <1>1, <1>5, <2>4 DEF AckCompletes, StartPathCandidate, TypeOK, RoamCounters
        <3>4. CASE queuedPathCandidate = NoQueued
            <4>1. pathCandidate' = NoCandidate /\ queuedPathCandidate' = NoQueued /\ events' = events
                BY <2>4, <3>4 DEF AckCompletes
            <4> QED
                BY <1>1, <1>2, <1>3, <2>1, <3>1, <3>2, <3>3, <4>1, CandidateEnded
        <3>5. CASE queuedPathCandidate # NoQueued
            <4>1. PICK counters : StartPathCandidate(queuedPathCandidate, events, counters)
                BY <2>4, <3>5 DEF AckCompletes
            <4>2. /\ queuedPathCandidate' = NoQueued /\ queuedPathCandidate \in QueuedPathCandidate
                  /\ nextPathCandidateId' \in Nat
                BY <1>1, <2>4, <3>1, <3>5 DEF AckCompletes, TypeOK
            <4>3. queuedPathCandidate.id # 0 /\ queuedPathCandidate.id < nextPathCandidateId'
                BY <1>1, <3>1, <3>5, <4>2 DEF PathInv, CommandsAreCurrent, QueuedBehindTerminalPhase,
                   NewestObservationWins, QueuedPathCandidate
            <4>4. \A x \in Heard : x < queuedPathCandidate.id
                BY <1>1, <3>5 DEF CandidatesInStep, IdsAreFresh
            <4>5. held'.kind # "PathCommand"
                BY <1>2 DEF Release, NoEvent
            <4> QED
                BY <1>1, <1>2, <1>3, <2>1, <3>2, <3>3, <4>1, <4>2, <4>3, <4>4, <4>5, CandidateStarted
        <3> QED
            BY <3>4, <3>5
    <2>5. CASE AckGivesUp(lastPlanGeneration, held.subject, held.seq, answer)
        <3>1. /\ pathCandidate' = NoCandidate /\ queuedPathCandidate' = NoQueued
              /\ events' \subseteq events /\ UNCHANGED nextPathCandidateId
            BY <2>5 DEF AckGivesUp, AckFrame, WithoutPathEvents
        <3>2. roam'.fallbacks = roam.fallbacks + 1 /\ roam.fallbacks \in Nat
            BY <1>1, <2>2, <2>5 DEF AckGivesUp, TypeOK, RoamCounters
        <3>3. abandoned' = abandoned \cup {pathCandidate.id} /\ pathCandidate.id # 0
            BY <1>3, <1>5, <2>1, <3>2 DEF Active
        <3> QED
            BY <1>1, <1>2, <1>3, <2>1, <3>1, <3>3, CandidateEnded
    <2>6. CASE answer = "Rejected" /\ AckRollsBack(lastPlanGeneration, held.subject, held.seq)
        <3>1. BeginPathAbort /\ UNCHANGED <<queuedPathCandidate, nextPathCandidateId>>
            BY <2>6 DEF AckRollsBack, AckFrame
        <3>2. UNCHANGED abandoned
            BY <1>5, <2>2, <3>1 DEF BeginPathAbort
        <3>3. pathCandidate.id \notin committed
            BY <1>1, <1>3, <2>1, <2>6 DEF CandidatesInStep, CommittedIsFinishing
        <3> QED
            BY <1>1, <1>2, <1>3, <2>1, <3>1, <3>2, <3>3, CandidateAborted
    <2> QED
        BY <1>5, <2>3, <2>4, <2>5, <2>6 DEF AckPathCommand
<1>6. CASE /\ AckQueueFull(lastPlanGeneration, held.subject, held.seq, answer)
           /\ refused' = refused \cup {held.seq} /\ UNCHANGED <<coreVars, abandoned>>
    BY <1>1, <1>2, <1>6, CandidateKept
<1>7. CASE ~matches /\ UNCHANGED <<coreVars, abandoned, refused>>
    <2>1. \/ state # "Running"
          \/ pathCandidate.pending # 0 => held.seq # pathCandidate.pending
        <3> SUFFICES ASSUME state = "Running", pathCandidate.pending # 0,
                            held.seq = pathCandidate.pending
                     PROVE  FALSE
            OBVIOUS
        <3>1. Active /\ pathCandidate.generation = lastPlanGeneration
            BY <1>1 DEF PathInv, CommandsAreCurrent, CandidateInGeneration, NoCandidate
        <3>2. held.subject = pathCandidate.id /\ PathsEnabled
            BY <1>1, <3>1 DEF CandidatesInStep, HeldIsKnown, PathsNeedCapability, PathsEnabled
        <3> QED
            BY <1>7, <3>1, <3>2 DEF AckMatches
    <2> QED
        BY <1>1, <1>2, <1>7, <2>1, CandidateKept
<1> QED
    BY <1>5, <1>6, <1>7 DEF Acknowledge

\* Every step keeps the candidates of core and platform in step.
LEMMA CandidatesStep ==
    ASSUME PlatformInv, TypeOK', QueueGrows, [SystemNext]_vars
    PROVE  CandidatesInStep'
<1>1. CASE UNCHANGED vars
    BY <1>1, CallAroundCandidate DEF vars, PlatformInv
<1>2. \A update \in 1..MaxUpdate : update \in Nat
    BY BoundAssumption
<1> QED
    BY <1>1, <1>2, EventDispatched, CommandExecuted, AcknowledgeCandidates, AnswerCandidates,
       LifecycleCandidates, TransportCandidates, MonitorCandidates DEF SystemNext, Pump

\* Every step of the system preserves the invariant.
LEMMA PlatformStep == PlatformInv /\ [SystemNext]_vars => PlatformInv'
<1> SUFFICES ASSUME PlatformInv, [SystemNext]_vars PROVE PlatformInv'
    OBVIOUS
<1>1. CASE \E e \in events : Dispatch(e)
    <2>1. PICK e \in events : Dispatch(e)
        BY <1>1
    <2>2. [AnyCall]_coreVars /\ QueueGrows
        BY <2>1, NothingPushed DEF Dispatch, AnyCall, Delivery, PollEvent, PlatformInv, PathInv
    <2>3. PathInv' /\ TypeOK'
        BY <2>2, PathStep DEF PlatformInv, PathInv
    <2> QED
        BY <2>1, <2>2, <2>3, AdapterTypeStep, EventDispatched DEF PlatformInv
<1>2. CASE ~\E e \in events : Dispatch(e)
    <2>1. [MethodCall]_coreVars
        BY <1>2, CoreStep
    <2>2. PathInv' /\ TypeOK'
        BY <2>1, PathStep DEF PlatformInv, PathInv, AnyCall
    <2>3. QueueGrows /\ ReportsFollow
        BY <2>1, QueueStepShape DEF PlatformInv, PathInv, SequencesAreUnique
    <2>4. AdapterTypeOK' /\ CandidatesInStep'
        BY <2>2, <2>3, AdapterTypeStep, CandidatesStep
    <2>5. held' \in {held, NoEvent} /\ observed' = observed
        BY <1>2 DEF SystemNext, Pump, Execute, Acknowledge, AnswerPlan, AnswerKick, Release,
           User, Runner, Transport, Monitor, adapterVars, vars
    <2>6. SequencesAreUnique' /\ StateReported'
        BY <2>3, <2>5, UniqueStep, ReportedStep DEF PlatformInv, PathInv
    <2> QED
        BY <2>2, <2>4, <2>6 DEF PlatformInv
<1> QED
    BY <1>1, <1>2

\* A new core and a platform that has not heard of it.
LEMMA PlatformInit == SystemInit => PlatformInv
<1> SUFFICES ASSUME SystemInit PROVE PlatformInv
    OBVIOUS
<1>1. Init /\ TypeOK
    BY InitType DEF SystemInit
<1>2. PathInv
    BY <1>1, InitPath
<1>3. AdapterTypeOK
    BY <1>1 DEF SystemInit, AdapterTypeOK, States
<1>4. /\ pathCandidate.id = 0 /\ pathCandidate.pending = 0 /\ pathCandidate.phase = "None"
      /\ ~Active /\ nextSequence = 2
      /\ held.kind = "None" /\ held.seq = 0 /\ held.action = "None" /\ answer = "None"
    BY <1>1 DEF SystemInit, Init, NoCandidate, NoEvent, Active
<1>5. \A e \in events : e.seq = 1 /\ e.kind = "StateChanged" /\ e.state = state /\ e.action = "None"
    BY <1>1 DEF Init
<1>6. events # {} /\ \A e, f \in events : e = f
    BY <1>1 DEF Init
<1>7. SequencesAreUnique
    BY <1>4, <1>5, <1>6 DEF SequencesAreUnique
<1>8. Heard = {}
    BY <1>4 DEF SystemInit, Heard
<1>9. CandidatesInStep
    BY <1>4, <1>5, <1>8 DEF SystemInit, CandidatesInStep, PendingIsCommand, HeldIsKnown, IdsAreFresh,
       UnseenLeavesNoTrace, AcceptedIsSettled, CommittedIsFinishing, PathsNeedCapability,
       NoOrphanRules, CommitIsFinal, PendingIsReachable
<1>10. StateReported
    BY <1>5, <1>6 DEF StateReported
<1> QED
    BY <1>2, <1>3, <1>7, <1>9, <1>10 DEF PlatformInv

\* Core and platform stay in step, whatever the user, the runner, the network
\* monitor, the transport and the pump do in whatever order: no temporary rule
\* without a candidate in progress or given up (NoOrphanRules), no rollback of a
\* path the platform has switched to (CommitIsFinal), no pending command nobody
\* can answer (PendingIsReachable), and no state the platform does not know or
\* is not about to learn (StateReported).
THEOREM PlatformInStep == SystemSpec => []PlatformStaysInStep
<1>1. PlatformInv => PlatformStaysInStep
    BY DEF PlatformInv, CandidatesInStep, PlatformStaysInStep
<1> QED
    BY <1>1, PlatformInit, PlatformStep, PTL DEF SystemSpec

=============================================================================
