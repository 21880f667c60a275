---------------------------- MODULE TunnelManager ----------------------------
(***************************************************************************)
(* The outbound client tunnels of a server                                 *)
(* (src/qeli/src/server/client_manager.rs): a registry from profile names  *)
(* to child processes.  Panel requests connect, poll and disconnect; the   *)
(* supervisor shuts all down.  A disconnect and a shutdown stop children   *)
(* alike: lock the child, SIGTERM, wait until a deadline, SIGKILL, take it *)
(* out of the registry.  The future of a request may be dropped at any     *)
(* await (Cancel), and a child may exit, fail or ignore SIGTERM.           *)
(*                                                                         *)
(* A step is what a task does between two awaits.  Log files, the status   *)
(* sidecar and the validation of names are left out: a failure there is a  *)
(* failed spawn.                                                           *)
(***************************************************************************)
EXTENDS Naturals, FiniteSets

CONSTANTS
  Task,           \* concurrent requests
  Name,           \* profiles
  Child,          \* bound: processes 1..n
  MaxCancels      \* bound: dropped requests

None == 0

VARIABLES
  running,        \* the registry: per name its child, or None
  runLock,        \* who holds the registry's lock over a spawn, or None
  spawning,       \* and for which profile
  holder,         \* per child: who holds its lock, or None
  proc,           \* per child: "new", "alive", "termed", "killed", "exited", "reaped"
  profile,        \* per child: its name
  clean,          \* per child: its exit status was success
  closed,         \* shutdown_deadline is set: no more connects
  waiter,         \* who holds shutdown_waiter, or None
  op,             \* per task: "idle", "connect", "disconnect", "shutdown", "stopping"
  stage,          \* per task and child: "no", "lock", "wait", "kill", "unlist", "done"
  failures,       \* children whose stop failed during a shutdown
  result,         \* of the last finished shutdown: "none", "ok", "failed"
  cancels

registry == <<running, runLock, spawning>>
process == <<proc, profile, clean>>
requests == <<op, stage>>
report == <<failures, result, cancels>>
vars == <<registry, process, requests, report, holder, closed, waiter>>

Untouched == [c \in Child |-> "no"]

Init ==
  /\ running = [n \in Name |-> None] /\ runLock = None /\ spawning = None
  /\ holder = [c \in Child |-> None] /\ proc = [c \in Child |-> "new"]
  /\ profile = [c \in Child |-> None] /\ clean = [c \in Child |-> TRUE]
  /\ closed = FALSE /\ waiter = None
  /\ op = [t \in Task |-> "idle"] /\ stage = [t \in Task |-> Untouched]
  /\ failures = {} /\ result = "none" /\ cancels = 0

At(t, c, s) == stage' = [stage EXCEPT ![t][c] = s]
(* try_lock or try_wait does not say that the child has exited.            *)
InUse(c) == holder[c] # None \/ proc[c] \notin {"exited", "reaped"}

-----------------------------------------------------------------------------
(* connect, under the registry's lock: admission, the registered child,    *)
(* then the spawn.                                                         *)
Connect(t, n) ==
  /\ op[t] = "idle" /\ runLock = None /\ ~closed
  /\ running[n] # None => ~InUse(running[n])
  /\ running' = [running EXCEPT ![n] = None]
  /\ proc' = [c \in Child |-> IF c = running[n] THEN "reaped" ELSE proc[c]]
  /\ runLock' = t /\ spawning' = n /\ op' = [op EXCEPT ![t] = "connect"]
  /\ UNCHANGED <<holder, profile, clean, closed, waiter, stage, report>>

Spawn(t, n) ==
  /\ op[t] = "connect" /\ runLock = t /\ spawning = n
  /\ \E c \in Child :
       /\ proc[c] = "new" /\ \A b \in Child : b < c => proc[b] # "new"
       /\ running' = [running EXCEPT ![n] = c]
       /\ proc' = [proc EXCEPT ![c] = "alive"] /\ profile' = [profile EXCEPT ![c] = n]
  /\ runLock' = None /\ spawning' = None /\ op' = [op EXCEPT ![t] = "idle"]
  /\ UNCHANGED <<holder, clean, closed, waiter, stage, report>>

SpawnFails(t) ==
  /\ op[t] = "connect" /\ runLock = t
  /\ runLock' = None /\ spawning' = None /\ op' = [op EXCEPT ![t] = "idle"]
  /\ UNCHANGED <<running, holder, process, closed, waiter, stage, report>>

(* is_running reaps a child that has exited.                               *)
IsRunning(n) ==
  /\ runLock = None /\ running[n] # None /\ ~InUse(running[n])
  /\ running' = [running EXCEPT ![n] = None]
  /\ proc' = [proc EXCEPT ![running[n]] = "reaped"]
  /\ UNCHANGED <<runLock, spawning, holder, profile, clean, closed, waiter, requests, report>>

-----------------------------------------------------------------------------
(* The registry keeps the child while it is being stopped.                 *)
Disconnect(t, n) ==
  /\ op[t] = "idle" /\ runLock = None /\ running[n] # None
  /\ op' = [op EXCEPT ![t] = "disconnect"] /\ At(t, running[n], "lock")
  /\ UNCHANGED <<registry, holder, process, closed, waiter, report>>

(* request_shutdown closes admission, without the registry's lock.         *)
RequestShutdown ==
  /\ ~closed /\ closed' = TRUE
  /\ UNCHANGED <<registry, holder, process, waiter, requests, report>>

Shutdown(t) ==
  /\ op[t] = "idle" /\ waiter = None
  /\ closed' = TRUE /\ waiter' = t /\ op' = [op EXCEPT ![t] = "shutdown"]
  /\ UNCHANGED <<registry, holder, process, stage, report>>

Registered == {running[n] : n \in Name} \ {None}

BugSnapshot(t) ==
  /\ op[t] = "shutdown"
  /\ op' = [op EXCEPT ![t] = "stopping"]
  /\ stage' = [stage EXCEPT ![t] = [c \in Child |-> IF c \in Registered THEN "lock" ELSE "no"]]
  /\ UNCHANGED <<registry, holder, process, closed, waiter, report>>

Snapshot(t) ==
  /\ op[t] = "shutdown" /\ runLock = None
  /\ op' = [op EXCEPT ![t] = "stopping"]
  /\ stage' = [stage EXCEPT ![t] = [c \in Child |-> IF c \in Registered THEN "lock" ELSE "no"]]
  /\ UNCHANGED <<registry, holder, process, closed, waiter, report>>

-----------------------------------------------------------------------------
(* stop_client, for one child.                                             *)
Fails(t, c) == failures' = IF op[t] = "stopping" THEN failures \cup {c} ELSE failures

LockChild(t, c) ==
  /\ stage[t][c] = "lock" /\ holder[c] = None
  /\ holder' = [holder EXCEPT ![c] = t] /\ At(t, c, "wait")
  /\ proc' = [proc EXCEPT ![c] = IF @ = "alive" THEN "termed" ELSE @]
  /\ UNCHANGED <<registry, profile, clean, closed, waiter, op, report>>

(* The signal cannot be sent: the child stays registered.                  *)
SignalFails(t, c) ==
  /\ stage[t][c] = "lock" /\ holder[c] = None /\ proc[c] \in {"alive", "termed", "killed"}
  /\ At(t, c, "done") /\ Fails(t, c)
  /\ UNCHANGED <<registry, holder, process, closed, waiter, op, result, cancels>>

(* The child has exited: reap it, success or not.                          *)
Reap(t, c) ==
  /\ stage[t][c] \in {"wait", "kill"} /\ proc[c] \in {"exited", "reaped"}
  /\ proc' = [proc EXCEPT ![c] = "reaped"] /\ At(t, c, "unlist")
  /\ IF clean[c] /\ stage[t][c] = "wait" THEN UNCHANGED failures ELSE Fails(t, c)
  /\ UNCHANGED <<registry, holder, profile, clean, closed, waiter, op, result, cancels>>

BugDeadline(t, c) ==
  /\ stage[t][c] = "wait" /\ proc[c] \in {"termed", "killed"}
  /\ At(t, c, "kill")
  /\ UNCHANGED <<registry, holder, process, closed, waiter, op, report>>

Deadline(t, c) ==
  /\ stage[t][c] = "wait" /\ proc[c] \in {"termed", "killed"}
  /\ proc' = [proc EXCEPT ![c] = "killed"] /\ At(t, c, "kill")
  /\ UNCHANGED <<registry, holder, profile, clean, closed, waiter, op, report>>

(* Out of the registry, if it still names this very child.                 *)
Unlist(t, c) ==
  /\ stage[t][c] = "unlist" /\ runLock = None
  /\ running' = [n \in Name |-> IF running[n] = c THEN None ELSE running[n]]
  /\ holder' = [holder EXCEPT ![c] = None] /\ At(t, c, "done")
  /\ UNCHANGED <<runLock, spawning, process, closed, waiter, op, report>>

Finished(t) == \A c \in Child : stage[t][c] \in {"no", "done"}

DisconnectDone(t) ==
  /\ op[t] = "disconnect" /\ Finished(t)
  /\ op' = [op EXCEPT ![t] = "idle"] /\ stage' = [stage EXCEPT ![t] = Untouched]
  /\ UNCHANGED <<registry, holder, process, closed, waiter, report>>

ShutdownDone(t) ==
  /\ op[t] = "stopping" /\ Finished(t)
  /\ result' = IF failures = {} THEN "ok" ELSE "failed"
  /\ waiter' = None
  /\ op' = [op EXCEPT ![t] = "idle"] /\ stage' = [stage EXCEPT ![t] = Untouched]
  /\ UNCHANGED <<registry, holder, process, closed, failures, cancels>>

(* The future is dropped: its locks go, the children stay where they are.  *)
Cancel(t) ==
  /\ op[t] \in {"disconnect", "shutdown", "stopping"} /\ cancels < MaxCancels
  /\ cancels' = cancels + 1
  /\ op' = [op EXCEPT ![t] = "idle"] /\ stage' = [stage EXCEPT ![t] = Untouched]
  /\ holder' = [c \in Child |-> IF holder[c] = t THEN None ELSE holder[c]]
  /\ waiter' = IF waiter = t THEN None ELSE waiter
  /\ UNCHANGED <<registry, process, closed, failures, result>>

-----------------------------------------------------------------------------
(* A child exits by itself, after SIGTERM or of SIGKILL.                   *)
Exit(c, ok) ==
  /\ proc[c] \in {"alive", "termed", "killed"} /\ (proc[c] = "killed" => ~ok)
  /\ proc' = [proc EXCEPT ![c] = "exited"] /\ clean' = [clean EXCEPT ![c] = ok]
  /\ UNCHANGED <<registry, holder, profile, closed, waiter, requests, report>>

-----------------------------------------------------------------------------
Progress(t) ==
  \/ (\E n \in Name : Spawn(t, n)) \/ SpawnFails(t) \/ Snapshot(t)
  \/ DisconnectDone(t) \/ ShutdownDone(t)
StopStep(t, c) == Reap(t, c) \/ Deadline(t, c) \/ Unlist(t, c)

Next ==
  \/ RequestShutdown
  \/ \E n \in Name : IsRunning(n)
  \/ \E c \in Child, ok \in BOOLEAN : Exit(c, ok)
  \/ \E t \in Task :
       \/ Progress(t) \/ Shutdown(t) \/ Cancel(t)
       \/ \E n \in Name : Connect(t, n) \/ Disconnect(t, n)
       \/ \E c \in Child : LockChild(t, c) \/ SignalFails(t, c) \/ StopStep(t, c)

Spec == Init /\ [][Next]_vars

(* Tasks go on, deadlines pass, locks are handed out in turn, and a child  *)
(* that was sent SIGKILL exits; one that was sent SIGTERM need not.        *)
Fairness ==
  /\ \A t \in Task :
       SF_vars(Progress(t) \/ \E c \in Child :
                 LockChild(t, c) \/ SignalFails(t, c) \/ StopStep(t, c))
  /\ \A c \in Child : WF_vars(proc[c] = "killed" /\ Exit(c, FALSE))

-----------------------------------------------------------------------------
Processes == {"alive", "termed", "killed"}

(* Every process that may still use its TUN, routes and DNS is the one its *)
(* profile's entry names, whatever was cancelled or could not be stopped:  *)
(* so a profile never has two tunnels, and none escapes a shutdown.        *)
LiveTunnelsAreRegistered ==
  \A c \in Child : proc[c] \in Processes => running[profile[c]] = c

(* A shutdown that reported success left no tunnel behind, also not one    *)
(* whose connect passed the admission check before it.                     *)
ShutdownLeavesNothing ==
  result = "ok" => \A c \in Child : proc[c] \notin Processes

(* Together: no tunnel process without an entry, none after a shutdown.    *)
TunnelsAreOwned == LiveTunnelsAreRegistered /\ ShutdownLeavesNothing

(* Every disconnect and every shutdown ends, however the child behaves and *)
(* whoever else is stopping it.                                            *)
StopsEnd == \A t \in Task : (op[t] \in {"disconnect", "stopping"}) ~> (op[t] = "idle")
=============================================================================
