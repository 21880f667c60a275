--------------------------- MODULE PlatformPaths ---------------------------
(***************************************************************************)
(* The client core composed with the actors around it in a running VPN     *)
(* client:                                                                 *)
(*   - the platform's event pump, a sequential loop that takes one event,  *)
(*     executes it and acknowledges it (QeliService.kt                     *)
(*     launchTransportCoreEventPump, VpnTunnelBase.cs, QeliNativeTunnel-   *)
(*     Engine.swift, and the Linux dispatcher of client/mod.rs);           *)
(*   - the platform's network monitor, which submits path observations     *)
(*     from a thread of its own;                                           *)
(*   - the transport, which binds, validates and commits the candidate or  *)
(*     aborts it, each with a timeout;                                     *)
(*   - the runner that brackets the transport, and the user's start/stop.  *)
(* Each call into the core is one action of ClientCore; the core changes   *)
(* between an event's delivery, its execution and its acknowledgement.     *)
(***************************************************************************)
EXTENDS ClientCore

VARIABLES
    held,       \* the event the pump is working on, or NoEvent
    answer,     \* outcome of the executed path command, or "None"
    rules,      \* candidates for which the platform holds temporary state
    committed,  \* candidates the platform has switched to
    abandoned,  \* candidates the core gave up without a confirmed rollback
    refused,    \* sequences whose acknowledgement met a full queue
    dropped,    \* candidates whose abort by the transport met a full queue
    observed    \* the last state a StateChanged event told the platform

adapterVars == <<held, answer, rules, committed, abandoned, refused, dropped, observed>>
vars == <<coreVars, adapterVars>>

NoEvent == [seq |-> 0, kind |-> "None", state |-> "Created", action |-> "None",
            subject |-> 0]

SystemInit ==
    /\ Init
    /\ held = NoEvent
    /\ answer = "None"
    /\ rules = {}
    /\ committed = {}
    /\ abandoned = {}
    /\ refused = {}
    /\ dropped = {}
    /\ observed = "Created"

\* Named bounds on the calls that create events and candidates.
Exhausted == nextSequence > MaxSequence \/ nextPathCandidateId > MaxCandidate

-----------------------------------------------------------------------------
(* The event pump.                                                         *)

\* Events that need an answer are held; a state change is only observed.
Dispatch(e) ==
    /\ held = NoEvent
    /\ PollEvent(e)
    /\ held' = IF e.kind \in {"PathCommand", "NetworkPlan", "Kick"} THEN e ELSE NoEvent
    /\ observed' = IF e.kind = "StateChanged" THEN e.state ELSE observed
    /\ UNCHANGED <<answer, rules, committed, abandoned, refused, dropped>>

\* The platform's temporary and committed state once a command has had its
\* effect, and what an outcome means (PathCommandOutcome): a rejected command
\* has had none, a command that leaves the platform's state unknown may have.
Effect(action, candidate) ==
    /\ rules' = CASE action = "PREPARE" -> rules \cup {candidate}
                  [] action \in {"COMMIT", "ABORT"} -> rules \ {candidate}
                  [] OTHER -> rules
    /\ committed' = IF action = "COMMIT" THEN committed \cup {candidate} ELSE committed

Execute(outcome) ==
    /\ held.kind = "PathCommand"
    /\ answer = "None"
    /\ answer' = outcome
    /\ \/ /\ outcome # "Rejected"
          /\ Effect(held.action, held.subject)
       \/ /\ outcome # "Accepted"
          /\ UNCHANGED <<rules, committed>>
    /\ UNCHANGED <<coreVars, held, abandoned, refused, dropped, observed>>

Release == held' = NoEvent /\ answer' = "None"

\* The acknowledgement of the executed command is accepted, is stale because the
\* core has moved on, or is refused by a full queue; no adapter repeats it.
\* Candidate ids are never reused, so the generation in the event adds nothing
\* to the correlation and the current one stands for it.  On Android a COMMIT that was
\* applied and whose acknowledgement fails also ends the generation (QeliService.kt,
\* core.stop); the user's Stop, which may come at any time, stands for it.
Acknowledge ==
    /\ answer # "None"
    /\ LET call(A(_, _, _, _)) == A(lastPlanGeneration, held.subject, held.seq, answer)
       IN  \/ /\ call(AckPathCommand)
              /\ abandoned' = IF roam'.fallbacks # roam.fallbacks
                              THEN abandoned \cup {held.subject} ELSE abandoned
              /\ UNCHANGED refused
           \/ /\ call(AckQueueFull)
              /\ refused' = refused \cup {held.seq}
              /\ UNCHANGED <<coreVars, abandoned>>
           \/ /\ ~AckMatches(lastPlanGeneration, held.subject, held.seq)
              /\ UNCHANGED <<coreVars, abandoned, refused>>
    /\ Release
    /\ UNCHANGED <<rules, committed, dropped, observed>>

\* A network plan is applied or rejected; a stale or refused answer is dropped.
AnswerPlan ==
    /\ held.kind = "NetworkPlan"
    /\ \/ AckNetworkPlanApplied(held.subject)
       \/ AckNetworkPlanRejected(held.subject)
       \/ /\ ~(state = "AwaitingNetwork" /\ pendingPlan = held.subject /\ HasRoom(events, 2))
          /\ UNCHANGED coreVars
    /\ Release
    /\ UNCHANGED <<rules, committed, abandoned, refused, dropped, observed>>

\* The candidate a call that ends the session leaves to the platform's teardown.
Abandon == abandoned' = abandoned \cup ({pathCandidate.id} \ {0})

\* Every pump answers KICK with stop.
AnswerKick ==
    /\ held.kind = "Kick"
    /\ \/ Stop /\ Abandon
       \/ StopQueueFull /\ UNCHANGED abandoned
       \/ state = "Stopped" /\ UNCHANGED <<coreVars, abandoned>>
    /\ Release
    /\ UNCHANGED <<rules, committed, refused, dropped, observed>>

-----------------------------------------------------------------------------
(* The other actors.                                                       *)

User ==
    /\ \/ SetDeviceId /\ ~deviceId /\ UNCHANGED abandoned
       \/ Start /\ UNCHANGED abandoned
       \/ Stop /\ Abandon
       \/ StopQueueFull /\ UNCHANGED abandoned
    /\ UNCHANGED <<held, answer, rules, committed, refused, dropped, observed>>

\* prepare_tunnel publishes next_generation() and nothing else.
Runner ==
    /\ \/ RunAsync /\ UNCHANGED abandoned
       \/ runner = "Active" /\ state = "Connecting"
             /\ lastPlanGeneration < MaxGeneration
             /\ PublishNetworkPlan(lastPlanGeneration + 1) /\ UNCHANGED abandoned
       \/ PublishNotice /\ UNCHANGED abandoned
       \/ PublishKick /\ UNCHANGED abandoned
       \/ CancelKicked /\ UNCHANGED abandoned
       \/ FinishFailed /\ Abandon
       \/ EndAttempt /\ UNCHANGED abandoned
    /\ UNCHANGED <<held, answer, rules, committed, refused, dropped, observed>>

Monitor(update) ==
    /\ SubmitPathUpdate(lastPlanGeneration, update)
    /\ UNCHANGED adapterVars

\* The transport takes a prepared candidate forward or gives it up: after a
\* failed or timed-out step it aborts, but never once COMMIT has been issued
\* (tcp_handover_failure_action; the UDP actor leaves its loop instead).  It
\* looks only for prepared candidates, so an abort that meets a full queue is
\* not repeated for a candidate that is past that phase.
Transport ==
    \/ /\ \/ RequestCandidateSocketBinding(pathCandidate.id)
          \/ /\ pathCandidate.id \notin dropped
             /\ CandidatePathValidated(pathCandidate.id)
          \/ /\ pathCandidate.phase \in {"Prepared", "Binding", "Bound"}
             /\ pathCandidate.id \notin dropped
             /\ AbortCandidatePath(pathCandidate.id)
       /\ UNCHANGED adapterVars
    \/ /\ PathsEnabled
       /\ pathCandidate.phase \in {"Binding", "Bound"}
       /\ pathCandidate.id \notin dropped
       /\ ~HasRoom(events, 1)
       /\ dropped' = dropped \cup {pathCandidate.id}
       /\ UNCHANGED <<coreVars, held, answer, rules, committed, abandoned, refused, observed>>

Pump ==
    \/ \E e \in events : Dispatch(e)
    \/ \E outcome \in Outcomes : Execute(outcome)
    \/ Acknowledge
    \/ AnswerPlan
    \/ AnswerKick

SystemNext ==
    \/ Pump
    \/ FinishCancelled /\ UNCHANGED adapterVars
    \/ /\ ~Exhausted
       /\ \/ User
          \/ Runner
          \/ Transport
          \/ \E update \in 1..MaxUpdate : Monitor(update)

SystemSpec == SystemInit /\ [][SystemNext]_vars

\* The pump is a loop that never blocks on the core, and every step of the
\* transport is bounded by a timeout; nobody has to observe a new path, publish
\* a plan, or start or stop the client.
Fairness ==
    /\ WF_vars(\E e \in events : Dispatch(e))
    /\ WF_vars(\E outcome \in Outcomes : Execute(outcome))
    /\ WF_vars(Acknowledge)
    /\ WF_vars(AnswerPlan)
    /\ WF_vars(AnswerKick)
    /\ WF_vars(~Exhausted /\ Transport)

FairSpec == SystemSpec /\ Fairness

-----------------------------------------------------------------------------
(* Properties.                                                             *)

\* Types of the adapter's own state; the core's are ClientCore!TypeOK.
AdapterTypeOK ==
    /\ TypeOK
    /\ held \in Event \cup {NoEvent}
    /\ answer \in Outcomes \cup {"None"}
    /\ rules \cup committed \cup abandoned \cup refused \cup dropped \subseteq Nat
    /\ observed \in States

\* Make-before-break never leaks: whatever temporary route, filter or binding
\* the platform holds belongs to the candidate in progress, or to one the core
\* explicitly gave up when it stopped, failed or counted a reconnect fallback.
\* A replacement therefore never starts beside its predecessor's rules.
NoOrphanRules == rules \subseteq {pathCandidate.id} \cup abandoned

\* COMMIT is the transaction's linearization point: once the platform has
\* switched to a candidate nobody asks it to roll that candidate back, neither a
\* newer observation nor a transport that ran out of time.
CommitIsFinal ==
    \A e \in events \cup {held} : e.action = "ABORT" => e.subject \notin committed

\* A pending path command can still be answered: it is queued or in the pump's
\* hands, unless the session is being cancelled or the platform's one answer
\* met a full queue.
PendingIsReachable ==
    state = "Running" /\ pathCandidate.pending # 0 =>
        \/ CommandQueued(pathCandidate.pending)
        \/ held.seq = pathCandidate.pending
        \/ pathCandidate.pending \in refused
        \/ runtimeCancel
        \/ kicked

\* Until a KICK preempts the queue, the platform always knows or is about to
\* learn the state of the core: the newest StateChanged it has not yet taken,
\* or else the last one it took, carries the current state.
StateReported ==
    LET reports == {e \in events : e.kind = "StateChanged"}
    IN  kicked \/ IF reports = {} THEN observed = state
                  ELSE \E e \in reports : /\ e.state = state
                                          /\ \A other \in reports : other.seq <= e.seq

\* Together: core and platform stay in step.
PlatformStaysInStep ==
    AdapterTypeOK /\ NoOrphanRules /\ CommitIsFinal /\ PendingIsReachable /\ StateReported

\* Every path candidate is resolved: committed, rolled back, or given up with
\* its session.  The exceptions are the two places where nobody repeats a call
\* that met a full queue (the candidate then waits for the next observation),
\* a session being cancelled, and the bounds of the model.
CandidateResolves ==
    Active ~> \/ ~Active
              \/ pathCandidate.pending \in refused
              \/ pathCandidate.id \in dropped
              \/ runtimeCancel \/ kicked \/ state = "Failed"
              \/ Exhausted

-----------------------------------------------------------------------------
(* What the documentation says and the code does not do.                   *)

\* "The event queue is bounded and applies backpressure without leaving a
\* partially completed request-driven state transition": short of a KICK, a
\* running core keeps its pending command answerable.  stop() meeting a full
\* queue has already discarded it.
BackpressureIsAtomic ==
    state = "Running" /\ pathCandidate.pending # 0 =>
        \/ CommandQueued(pathCandidate.pending)
        \/ held.seq = pathCandidate.pending
        \/ pathCandidate.pending \in refused
        \/ kicked

=============================================================================
