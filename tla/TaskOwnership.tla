---------------------------- MODULE TaskOwnership ----------------------------
(***************************************************************************)
(* Tasks owned by a connection (transport_core/tasks.rs) or by a server    *)
(* profile (server/tasks.rs).  One mutex guards a closed flag and the set  *)
(* of tasks: admission and spawning are one critical section, closing sets *)
(* the flag and requests every task's abort.  An abort takes effect when   *)
(* the task next yields, so a task may still run, even spawn, after it; a  *)
(* blocking closure that has started runs to its end.  Whoever waits for   *)
(* the tasks may be cancelled and wait again.                              *)
(***************************************************************************)
EXTENDS FiniteSets

CONSTANTS
  Task,        \* every task ever offered
  Blocking,    \* those that run as blocking closures
  Waiter       \* callers of finish / shutdown

ASSUME TaskAssumption == Blocking \subseteq Task

VARIABLES
  closed,      \* State.closed, ProfileTasksInner.stopping
  state,       \* per task: "new", "queued", "running", "dropping" (its future),
               \* "telling" (its handle), "ended", "joined", "rejected", "detached"
  abort,       \* tasks whose abort was requested
  signalled,   \* tasks whose completion channel fired
  panicked,    \* tasks that ended in a panic
  failures,    \* tasks in the failure record
  owner,       \* the group exists
  lock,        \* the waiter that drains, or NoWaiter (shutdown_lock)
  waiter       \* per waiter: "idle", "waiting", "draining", "done"

tasks == <<state, abort, signalled, panicked>>
vars == <<closed, tasks, failures, owner, lock, waiter>>

NoWaiter == "nobody"
ASSUME WaiterAssumption == NoWaiter \notin Waiter

Alive == {t \in Task : state[t] \in {"queued", "running", "dropping"}}
InSet == {t \in Task : state[t] \in {"queued", "running", "dropping", "telling", "ended"}}

Init ==
  /\ closed = FALSE /\ state = [t \in Task |-> "new"] /\ abort = {} /\ signalled = {}
  /\ panicked = {} /\ failures = {} /\ owner = TRUE
  /\ lock = NoWaiter /\ waiter = [w \in Waiter |-> "idle"]

-----------------------------------------------------------------------------
(* admit / spawn: finished tasks are joined on the way.                    *)
Ended == {t \in Task : state[t] = "ended"}
BugAdmit(t) ==
  /\ owner /\ state[t] = "new"
  /\ state' = [x \in Task |-> IF x = t THEN "queued"
                              ELSE IF x \in Ended THEN "joined" ELSE state[x]]
  /\ failures' = failures \cup (Ended \cap panicked)
  /\ UNCHANGED <<closed, abort, signalled, panicked, owner, lock, waiter>>
Admit(t) ==
  /\ owner /\ ~closed /\ state[t] = "new"
  /\ state' = [x \in Task |-> IF x = t THEN "queued"
                              ELSE IF x \in Ended THEN "joined" ELSE state[x]]
  /\ failures' = failures \cup (Ended \cap panicked)
  /\ UNCHANGED <<closed, abort, signalled, panicked, owner, lock, waiter>>

(* A rejected future is dropped by the caller, and its handle is told.     *)
Reject(t) ==
  /\ closed \/ ~owner
  /\ state[t] = "new" /\ state' = [state EXCEPT ![t] = "rejected"]
  /\ signalled' = signalled \cup {t}
  /\ UNCHANGED <<closed, abort, panicked, failures, owner, lock, waiter>>

-----------------------------------------------------------------------------
(* The runtime.                                                            *)
Start(t) ==
  /\ state[t] = "queued" /\ t \notin abort /\ state' = [state EXCEPT ![t] = "running"]
  /\ UNCHANGED <<closed, abort, signalled, panicked, failures, owner, lock, waiter>>

(* Aborted before its first poll, or at an await.                          *)
TakeAbort(t) ==
  /\ t \in abort
  /\ \/ state[t] = "queued"
     \/ state[t] = "running" /\ t \notin Blocking
  /\ state' = [state EXCEPT ![t] = "dropping"]
  /\ UNCHANGED <<closed, abort, signalled, panicked, failures, owner, lock, waiter>>

Finish(t) ==
  /\ state[t] = "running" /\ state' = [state EXCEPT ![t] = "dropping"]
  /\ UNCHANGED <<closed, abort, signalled, panicked, failures, owner, lock, waiter>>

Panic(t) ==
  /\ state[t] = "running" /\ state' = [state EXCEPT ![t] = "dropping"]
  /\ panicked' = panicked \cup {t}
  /\ UNCHANGED <<closed, abort, signalled, failures, owner, lock, waiter>>

(* TaskCompletion::drop: the captures are gone, then the handle is told.   *)
DropFuture(t) ==
  /\ state[t] = "dropping" /\ state' = [state EXCEPT ![t] = "telling"]
  /\ UNCHANGED <<closed, abort, signalled, panicked, failures, owner, lock, waiter>>

Signal(t) ==
  /\ state[t] = "telling" /\ signalled' = signalled \cup {t}
  /\ state' = [state EXCEPT ![t] = IF owner THEN "ended" ELSE "detached"]
  /\ UNCHANGED <<closed, abort, panicked, failures, owner, lock, waiter>>

(* TaskHandle: dropped or finished, its task only is cancelled.            *)
DropHandle(t) ==
  /\ t \in Alive \ abort /\ abort' = abort \cup {t}
  /\ UNCHANGED <<closed, state, signalled, panicked, failures, owner, lock, waiter>>

-----------------------------------------------------------------------------
(* close / abort_all                                                       *)
Close == closed' = TRUE /\ abort' = abort \cup InSet

(* The connection's scope is cancelled: admission closes before any of its *)
(* network resources are dropped.                                          *)
ScopeDropped ==
  /\ owner /\ ~closed /\ Close
  /\ UNCHANGED <<state, signalled, panicked, failures, owner, lock, waiter>>

(* TaskGroup dropped: nobody joins what is left of it.                     *)
OwnerDropped ==
  /\ owner /\ lock = NoWaiter /\ \A w \in Waiter : waiter[w] # "waiting"
  /\ Close /\ owner' = FALSE
  /\ state' = [t \in Task |-> IF state[t] = "ended" THEN "detached" ELSE state[t]]
  /\ UNCHANGED <<signalled, panicked, failures, lock, waiter>>

Begin(w) ==
  /\ owner /\ waiter[w] = "idle" /\ Close
  /\ waiter' = [waiter EXCEPT ![w] = "waiting"]
  /\ UNCHANGED <<state, signalled, panicked, failures, owner, lock>>

Lock(w) ==
  /\ waiter[w] = "waiting" /\ lock = NoWaiter
  /\ lock' = w /\ waiter' = [waiter EXCEPT ![w] = "draining"]
  /\ UNCHANGED <<closed, tasks, failures, owner>>

BugJoin(w) ==
  /\ lock = w
  /\ \E t \in Ended : state' = [state EXCEPT ![t] = "joined"]
  /\ UNCHANGED <<closed, abort, signalled, panicked, failures, owner, lock, waiter>>
Join(w) ==
  /\ lock = w
  /\ \E t \in Ended : /\ state' = [state EXCEPT ![t] = "joined"]
                      /\ failures' = failures \cup ({t} \cap panicked)
  /\ UNCHANGED <<closed, abort, signalled, panicked, owner, lock, waiter>>

Done(w) ==
  /\ lock = w /\ InSet = {}
  /\ lock' = NoWaiter /\ waiter' = [waiter EXCEPT ![w] = "done"]
  /\ UNCHANGED <<closed, tasks, failures, owner>>

(* The waiting future is dropped: the tasks stay in the set.               *)
Cancel(w) ==
  /\ waiter[w] \in {"waiting", "draining"}
  /\ waiter' = [waiter EXCEPT ![w] = "idle"]
  /\ lock' = IF lock = w THEN NoWaiter ELSE lock
  /\ UNCHANGED <<closed, tasks, failures, owner>>

Runtime(t) == \/ Start(t) \/ TakeAbort(t) \/ Finish(t) \/ Panic(t)
              \/ DropFuture(t) \/ Signal(t)
Drain(w) == Join(w) \/ Done(w)

Next ==
  \/ \E t \in Task : Admit(t) \/ Reject(t) \/ Runtime(t) \/ DropHandle(t)
  \/ \E w \in Waiter : Begin(w) \/ Lock(w) \/ Drain(w) \/ Cancel(w)
  \/ ScopeDropped \/ OwnerDropped

Spec == Init /\ [][Next]_vars
(* Tasks yield, destructors and started blocking closures end; the waiters *)
(* of an async mutex are served in order.                                  *)
Fairness ==
  /\ \A t \in Task : /\ WF_vars(TakeAbort(t)) /\ WF_vars(DropFuture(t))
                     /\ WF_vars(Signal(t)) /\ WF_vars(t \in Blocking /\ Finish(t))
  /\ \A w \in Waiter : SF_vars(Lock(w)) /\ WF_vars(Drain(w))

-----------------------------------------------------------------------------
TypeOK ==
  /\ closed \in BOOLEAN /\ owner \in BOOLEAN
  /\ state \in [Task -> {"new", "queued", "running", "dropping", "telling", "ended",
                         "joined", "rejected", "detached"}]
  /\ abort \subseteq Task /\ signalled \subseteq Task
  /\ panicked \subseteq Task /\ failures \subseteq Task
  /\ lock \in Waiter \cup {NoWaiter}
  /\ waiter \in [Waiter -> {"idle", "waiting", "draining", "done"}]

(* Once a finish returned, nothing of the connection or profile runs, not  *)
(* even a destructor, and nothing starts later: routes, TUN and firewall   *)
(* can be taken down.                                                      *)
FinishedIsQuiet == (\E w \in Waiter : waiter[w] = "done") => closed /\ Alive = {}

(* No task escapes the stop: whatever runs after closing has been told, so *)
(* it ends by itself even when nobody waits for it.                        *)
NoStragglers == closed => Alive \subseteq abort

(* Whoever waits for one task's completion finds its captures gone.        *)
SignalMeansReleased == signalled \cap Alive = {}

(* A failure of a task is on record when a finish returns, although the    *)
(* waiter that joined the task was cancelled.                              *)
FailuresSurvive ==
  \A t \in Task : (t \in panicked /\ state[t] = "joined") => t \in failures

(* Together: a finish that returned has left nothing behind, and nothing   *)
(* outlives the stop unasked (`shutdown`, `Spawner::admit`).               *)
StopIsComplete == FinishedIsQuiet /\ NoStragglers

(* Together: what a waiter is told is true: captures are gone, failures    *)
(* are on record (`TaskCompletion::drop`, `shutdown`).                     *)
OutcomesAreTrue == SignalMeansReleased /\ FailuresSurvive

(* A waiter that is not cancelled gets through.                            *)
FinishReturns ==
  \A w \in Waiter : waiter[w] = "waiting" ~> waiter[w] \in {"done", "idle"}
=============================================================================
