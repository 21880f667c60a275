---------------------------- MODULE NativeRuntime ----------------------------
(***************************************************************************)
(* The native runner of a client (transport_core/runtime.rs) over several  *)
(* starts of one core.  run_async blocks a platform thread; stop cancels   *)
(* it through a token and returns at once, so the user may start again     *)
(* while the cancelled runner is still unwinding.  Runners share the core: *)
(* what a stale one may still do to the next session is the subject here.  *)
(* The core is reduced to what runners read and write; its bounded queue   *)
(* and its path transactions are the subject of ClientCore.                *)
(*                                                                         *)
(* A start is known by its number, and stands for its cancellation token   *)
(* (start gives every session a token of its own).                         *)
(*                                                                         *)
(* An operator named Bug... is no part of the specification: it is the     *)
(* definition after it with one plausible programming error.               *)
(***************************************************************************)
EXTENDS Naturals

CONSTANTS
    MaxRunner,      \* bound: calls of run_async
    MaxStart        \* bound: starts of the core

Runners == 1..MaxRunner

VARIABLES
    state,          \* ClientState
    start,          \* number of starts so far: the current token
    cancelled,      \* tokens that are set
    active,         \* runtime_active
    counters,       \* the runner whose counters are attached, or 0
    pendingPlan,    \* generation of the unacknowledged plan, or 0
    lastGeneration, \* last_plan_generation
    tun,            \* the adopted device: the plan it was set up for, or NoPlan
    waiters,        \* runners with a live oneshot sender in the core
    pc,             \* where each runner is
    token,          \* the start each runner belongs to
    gen,            \* the generation each runner gave its plan
    flag,           \* what each runner read from its token at the end
    device,         \* the device each runner took
    offered         \* NetworkPlan events the platform has not answered

core == <<state, active, counters, pendingPlan, lastGeneration, tun, waiters>>
runners == <<pc, token, gen, flag, device>>
vars == <<core, start, cancelled, runners, offered>>

NoPlan == [generation |-> 0, runner |-> 0]

\* Where a runner awaits, and the select of run_async may drop its attempt.
Awaiting == {"connecting", "protecting", "dialing", "handshake", "trusting",
             "awaiting", "tunnel"}
Places == Awaiting \cup {"idle", "authenticated", "planning", "checked", "ended",
                         "finishing", "done"}
Live(r) == pc[r] \notin {"idle", "done"}
Cancelled(r) == token[r] \in cancelled

Go(r, place) == pc' = [pc EXCEPT ![r] = place]

Init ==
    /\ state = "Stopped"
    /\ start = 0
    /\ cancelled = {}
    /\ active = FALSE
    /\ counters = 0
    /\ pendingPlan = 0
    /\ lastGeneration = 0
    /\ tun = NoPlan
    /\ waiters = {}
    /\ pc = [r \in Runners |-> "idle"]
    /\ token = [r \in Runners |-> 0]
    /\ gen = [r \in Runners |-> 0]
    /\ flag = [r \in Runners |-> FALSE]
    /\ device = [r \in Runners |-> NoPlan]
    /\ offered = {}

-----------------------------------------------------------------------------
(* The user.                                                               *)

ClearSession == pendingPlan' = 0 /\ tun' = NoPlan /\ waiters' = {}

BugKeepCounters ==
    /\ state = "Stopped"
    /\ start < MaxStart
    /\ state' = "Connecting"
    /\ start' = start + 1
    /\ active' = FALSE
    /\ ClearSession
    /\ UNCHANGED <<cancelled, counters, lastGeneration, runners, offered>>
Start ==
    /\ state = "Stopped"
    /\ start < MaxStart
    /\ state' = "Connecting"
    /\ start' = start + 1
    /\ active' = FALSE
    /\ counters' = 0
    /\ ClearSession
    /\ UNCHANGED <<cancelled, lastGeneration, runners, offered>>

Stop ==
    /\ state # "Stopped"
    /\ state' = "Stopped"
    /\ cancelled' = cancelled \cup {start}
    /\ active' = FALSE
    /\ ClearSession
    /\ UNCHANGED <<start, counters, lastGeneration, runners, offered>>

\* stop on a full queue cancels the runner and fails.
StopQueueFull ==
    /\ state # "Stopped"
    /\ cancelled' = cancelled \cup {start}
    /\ UNCHANGED <<core, start, runners, offered>>

-----------------------------------------------------------------------------
(* A runner.                                                               *)

MayRun(r) == state = "Connecting" /\ ~active

RunAsync(r) ==
    /\ pc[r] = "idle"
    /\ MayRun(r)
    /\ active' = TRUE
    /\ counters' = r
    /\ token' = [token EXCEPT ![r] = start]
    /\ Go(r, "connecting")
    /\ UNCHANGED <<state, start, cancelled, pendingPlan, lastGeneration, tun,
                   waiters, gen, flag, device, offered>>

\* The attempt returns an error, or is dropped by the select on the token.
Ended(r) ==
    /\ Go(r, "ended")
    /\ UNCHANGED <<core, start, cancelled, token, gen, flag, device, offered>>

DropAttempt(r) == pc[r] \in Awaiting /\ Cancelled(r) /\ Ended(r)

Step(r, from, to) ==
    /\ pc[r] = from
    /\ Go(r, to)
    /\ UNCHANGED <<core, start, cancelled, token, gen, flag, device, offered>>

\* A request to the platform through the core: protect_socket (request_socket_protect)
\* and the identity verifier (request_server_identity).
Request(r, from, to) ==
    /\ pc[r] = from
    /\ \/ /\ state \in {"Connecting", "Running"}
          /\ waiters' = waiters \cup {r}
          /\ Go(r, to)
          /\ UNCHANGED <<state, active, counters, pendingPlan, lastGeneration, tun,
                         start, cancelled, token, gen, flag, device, offered>>
       \/ state \notin {"Connecting", "Running"} /\ Ended(r)

\* A sender the core dropped ends the wait with an error.
WaiterDropped(r) ==
    /\ pc[r] \in {"protecting", "trusting"}
    /\ r \notin waiters
    /\ Ended(r)

\* connect_primary: each address is opened, protected and dialled in turn.
Connect(r) ==
    \/ Step(r, "connecting", "dialing")          \* no protection needed
    \/ Step(r, "connecting", "ended")            \* no usable address
    \/ Request(r, "connecting", "protecting")
    \/ Step(r, "dialing", "connecting")          \* next address
    \/ Step(r, "dialing", "ended")               \* last address or deadline
    \/ Step(r, "dialing", "handshake")

\* The handshake with a pinned key, or with a key the platform has to trust.
Handshake(r) ==
    \/ Step(r, "handshake", "authenticated")
    \/ Step(r, "handshake", "ended")
    \/ Request(r, "handshake", "trusting")

\* next_generation: the core is unlocked again before the plan is published.
NextGeneration(r) ==
    /\ pc[r] = "authenticated"
    /\ gen' = [gen EXCEPT ![r] = lastGeneration + 1]
    /\ Go(r, "planning")
    /\ UNCHANGED <<core, start, cancelled, token, flag, device, offered>>

\* publish_network_plan, as the first step of prepare_tunnel.
Publishable(r) ==
    /\ state \in {"Connecting", "Running"}
    /\ pendingPlan = 0
    /\ gen[r] > lastGeneration

Publish(r) ==
    /\ pc[r] = "planning"
    /\ \/ /\ Publishable(r)
          /\ pendingPlan' = gen[r]
          /\ state' = "AwaitingNetwork"
          /\ offered' = offered \cup {[generation |-> gen[r], runner |-> r]}
          /\ Go(r, "awaiting")
          /\ UNCHANGED <<active, counters, lastGeneration, tun, waiters, start,
                         cancelled, token, gen, flag, device>>
       \/ ~Publishable(r) /\ Ended(r)

\* The loop of prepare_tunnel reads the token, then looks at the core.
CheckCancel(r) ==
    /\ pc[r] = "awaiting"
    /\ \/ Cancelled(r) /\ Ended(r)
       \/ ~Cancelled(r) /\ Step(r, "awaiting", "checked")

\* take_attached_tun_fds and its variants.
Takeable(r) == tun # NoPlan /\ tun.generation = gen[r]

PollCore(r) ==
    /\ pc[r] = "checked"
    /\ \/ state = "AwaitingNetwork" /\ Step(r, "checked", "awaiting")
       \/ state = "AwaitingNetwork" /\ Ended(r)          \* 45 s without an answer
       \/ state \notin {"AwaitingNetwork", "Running"} /\ Ended(r)
       \/ state = "Running" /\ ~Takeable(r) /\ Ended(r)
       \/ /\ state = "Running"
          /\ Takeable(r)
          /\ tun' = NoPlan
          /\ device' = [device EXCEPT ![r] = tun]
          /\ Go(r, "tunnel")
          /\ UNCHANGED <<state, active, counters, pendingPlan, lastGeneration,
                         waiters, start, cancelled, token, gen, flag, offered>>

TunnelEnds(r) == Step(r, "tunnel", "ended")

\* management_event with a KICK, once the core has published it.
CancelKicked(r) ==
    /\ pc[r] = "tunnel"
    /\ ~Cancelled(r)
    /\ cancelled' = cancelled \cup {token[r]}
    /\ UNCHANGED <<core, start, runners, offered>>

\* The end of run_async: the tasks are joined and the device is closed, then the
\* token is read, then finish_generation runs under the core's lock.
ReadFlag(r) ==
    /\ pc[r] = "ended"
    /\ flag' = [flag EXCEPT ![r] = Cancelled(r)]
    /\ device' = [device EXCEPT ![r] = NoPlan]
    /\ Go(r, "finishing")
    /\ UNCHANGED <<core, start, cancelled, token, gen, offered>>

FinishGeneration(r) ==
    /\ pc[r] = "finishing"
    /\ \/ counters # r /\ UNCHANGED core
       \/ /\ counters = r
          /\ counters' = 0
          /\ active' = FALSE
          /\ \/ /\ flag[r] \/ state = "Stopped"
                /\ UNCHANGED <<state, pendingPlan, tun, waiters>>
             \/ /\ ~flag[r]
                /\ state # "Stopped"
                /\ state' = "Failed"
                /\ ClearSession
          /\ UNCHANGED lastGeneration
    /\ Go(r, "done")
    /\ UNCHANGED <<start, cancelled, token, gen, flag, device, offered>>

-----------------------------------------------------------------------------
(* The platform answers requests and plans, in its own time.               *)

AnswerRequest(r, ok) ==
    /\ r \in waiters
    /\ waiters' = waiters \ {r}
    /\ pc' = [pc EXCEPT ![r] =
                CASE @ = "protecting" -> IF ok THEN "dialing" ELSE "ended"
                  [] @ = "trusting" -> IF ok THEN "authenticated" ELSE "ended"
                  [] OTHER -> @]
    /\ state' = IF ~ok /\ pc[r] = "trusting" THEN "Failed" ELSE state
    /\ UNCHANGED <<active, counters, pendingPlan, lastGeneration, tun, start,
                   cancelled, token, gen, flag, device, offered>>

\* set_tun_fd and network_plan_result, or a stale answer.
AnswerPlan(plan) ==
    /\ plan \in offered
    /\ offered' = offered \ {plan}
    /\ \/ /\ state = "AwaitingNetwork" /\ pendingPlan = plan.generation
          /\ pendingPlan' = 0
          /\ lastGeneration' = plan.generation
          /\ \/ state' = "Running" /\ tun' = plan
             \/ state' = "Failed" /\ tun' = NoPlan
          /\ UNCHANGED <<active, counters, waiters>>
       \/ /\ ~(state = "AwaitingNetwork" /\ pendingPlan = plan.generation)
          /\ UNCHANGED core
    /\ UNCHANGED <<start, cancelled, runners>>

Runner(r) ==
    \/ DropAttempt(r) \/ WaiterDropped(r) \/ Connect(r) \/ Handshake(r)
    \/ NextGeneration(r) \/ Publish(r) \/ CheckCancel(r) \/ PollCore(r)
    \/ TunnelEnds(r) \/ ReadFlag(r) \/ FinishGeneration(r)

Next ==
    \/ Start
    \/ Stop
    \/ StopQueueFull
    \/ \E r \in Runners : RunAsync(r) \/ Runner(r) \/ CancelKicked(r)
    \/ \E r \in Runners, ok \in BOOLEAN : AnswerRequest(r, ok)
    \/ \E plan \in offered : AnswerPlan(plan)

Spec == Init /\ [][Next]_vars

\* The select of run_async polls its token every 20 ms, a cancelled attempt is
\* dropped at its next await, and what is not an await does not block.
Fairness ==
    \A r \in Runners :
        /\ WF_vars(DropAttempt(r))
        /\ WF_vars(NextGeneration(r) \/ Publish(r) \/ PollCore(r))
        /\ WF_vars(ReadFlag(r))
        /\ WF_vars(FinishGeneration(r))

-----------------------------------------------------------------------------
(* Properties.                                                             *)

\* The fields have their types.
TypeOK ==
    /\ state \in {"Connecting", "AwaitingNetwork", "Running", "Failed", "Stopped"}
    /\ start \in 0..MaxStart /\ cancelled \subseteq 0..MaxStart
    /\ active \in BOOLEAN
    /\ counters \in {0} \cup Runners /\ waiters \subseteq Runners
    /\ pendingPlan \in Nat /\ lastGeneration \in Nat
    /\ pc \in [Runners -> Places]
    /\ token \in [Runners -> 0..MaxStart]
    /\ gen \in [Runners -> Nat] /\ flag \in [Runners -> BOOLEAN]
    /\ tun \in [generation : Nat, runner : {0} \cup Runners]
    /\ device \in [Runners -> [generation : Nat, runner : {0} \cup Runners]]
    /\ offered \subseteq [generation : Nat, runner : Runners]

\* However stops, starts and unwinding runners overlap, a session has one runner:
\* two live runners belong to different starts, and the attached counters are
\* those of a live runner of the current start.
OneRunnerPerStart ==
    /\ \A r, s \in Runners : Live(r) /\ Live(s) /\ token[r] = token[s] => r = s
    /\ active => counters # 0 /\ Live(counters) /\ token[counters] = start

\* A runner whose start is no longer the current one has been told to end: no
\* order of stops and starts leaves one running on a token nobody will set.
StaleRunnersAreCancelled ==
    \A r \in Runners : Live(r) /\ token[r] # start => Cancelled(r)

\* A runner that ends after the next start leaves the new session alone: its
\* finish_generation recognises that the attached counters are not its own.
StaleFinishIsSilent ==
    [][\A r \in Runners :
          pc[r] = "finishing" /\ pc'[r] = "done" /\ token[r] # start
          => UNCHANGED core]_vars

\* A device is taken once and under the generation it was acknowledged for: no
\* two runners hold the device of one plan, and none holds one that is still
\* attached.
DeviceHasOneOwner ==
    /\ \A r \in Runners : device[r] # NoPlan =>
          /\ device[r].generation = gen[r]
          /\ device[r] # tun
          /\ gen[r] <= lastGeneration
    /\ \A r, s \in Runners : r # s /\ device[r] # NoPlan => device[r] # device[s]

\* Within a start the device goes to the runner whose plan it answers.  Across a stop
\* the generation does not tell two starts apart, because one that was never
\* acknowledged is given out again (next_generation): a stopped runner that had read
\* its token may still poll into the next session's device (runtime.rs:434-438), and
\* the next runner may get the device set up for the stopped plan.  Whenever a runner
\* holds the device of another's plan, the two belong to different starts and the
\* earlier one has been cancelled, so that it gives up what it holds.
DeviceStaysInItsStart ==
    \A r \in Runners :
        LET planner == device[r].runner
        IN device[r] # NoPlan /\ planner # r =>
             /\ token[r] # token[planner]
             /\ IF token[r] < token[planner] THEN Cancelled(r) ELSE Cancelled(planner)

\* What a runner of an earlier start may still do is fenced: it has been cancelled, it
\* is not the session's runner, and all of the core that is within its reach is a
\* device that carries its own generation number.
RunnersHold ==
    /\ TypeOK /\ OneRunnerPerStart /\ StaleRunnersAreCancelled
    /\ DeviceHasOneOwner /\ DeviceStaysInItsStart

RunnersAreFenced == []RunnersHold /\ StaleFinishIsSilent

\* stop is honoured: every runner of a cancelled start ends.
CancelledRunnersEnd ==
    \A r \in Runners : (Live(r) /\ Cancelled(r)) ~> pc[r] = "done"

=============================================================================
