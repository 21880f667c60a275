-------------------------- MODULE WorkerSupervisor --------------------------
(***************************************************************************)
(* The control process and its data-plane worker: the supervision loop of  *)
(* server/supervisor.rs, the panel and SIGHUP callers that feed its        *)
(* command channel (server/mod.rs, web/api), and the part of run_worker    *)
(* that decides what a signal does to the child process.                   *)
(*                                                                         *)
(* supervise is one task.  Each arm of its biased select! and each way out *)
(* of wait_for_retry is one action; a higher arm that is ready disables    *)
(* the lower ones.  The worker is a process of its own: between fork and   *)
(* run_worker_inner's first lines its signal dispositions are the kernel's *)
(* defaults, so a SIGHUP or SIGTERM then simply kills it.                  *)
(*                                                                         *)
(* Files are version numbers: a worker holds the version it last read.     *)
(* Time is counted in ticks; a timer that is due holds the clock back      *)
(* until the loop has polled it.                                           *)
(***************************************************************************)
EXTENDS Integers, Sequences

CONSTANTS
    Capacity,        \* slots of the command channel (8 in run_supervisor)
    InitialBackoff,  \* SupervisorPolicy, in ticks
    MaximumBackoff,
    StableAfter,
    ShutdownGrace,
    MaxCommands,     \* bound: commands ever offered to the channel
    MaxVersion,      \* bound: versions ever written of each file
    MaxFaults        \* bound: crashes of a worker and failed spawns

VARIABLES
    loop,       \* where supervise is: "retry", "select" or "ended"
    result,     \* what it returned
    queue,      \* the command channel
    closed,     \* every sender is gone (the owner was lost)
    stopReady,  \* SIGINT or SIGTERM reached the control process
    flags,      \* stopping, restarting and deadline of this generation
    delay,      \* ticks left of wait_for_retry's timer
    backoff,
    age,        \* ticks since this worker was spawned, capped at StableAfter
    worker,     \* the child process
    pid,        \* metrics.worker_pid: is a PID published?
    disk,       \* newest version of the users file and of the configuration
    offered,    \* commands offered so far
    faults,
    promised,   \* ghost: the version a caller was told the worker will read
    waited,     \* ghost: ticks spent in this retry wait
    termAge,    \* ghost: ticks since this worker was first asked to stop
    lastExit    \* ghost: how the last worker ended, and whether the final
                \* stop had been asked for by then

cmdVars   == <<queue, closed, stopReady, disk, offered, promised>>
loopVars  == <<loop, result, flags, delay, backoff, age, pid>>
ghostVars == <<waited, termAge, lastExit>>
vars == <<cmdVars, loopVars, ghostVars, worker, faults>>

None == -1   \* no deadline, no publication, no exit

Files == {"users", "config"}

\* A process that has exited stays a zombie until the loop reaps it.
Exited == worker.st \in {"exit_ok", "exit_bad"}
Alive  == worker.st \notin {"none", "exit_ok", "exit_bad"}

NoWorker == [st |-> "none", users |-> 0, config |-> 0,
             hup |-> FALSE, term |-> FALSE]

NoFlags == [stopping |-> FALSE, restarting |-> FALSE, deadline |-> None]

TypeOK ==
    /\ loop \in {"retry", "select", "ended"}
    /\ result \in {"none", "ok", "failed"}
    /\ queue \in Seq({"restart", "reload"}) /\ Len(queue) <= Capacity
    /\ closed \in BOOLEAN /\ stopReady \in BOOLEAN /\ pid \in BOOLEAN
    /\ flags \in [stopping : BOOLEAN, restarting : BOOLEAN,
                  deadline : None..ShutdownGrace]
    /\ delay \in 0..MaximumBackoff
    /\ backoff \in InitialBackoff..MaximumBackoff
    /\ age \in 0..StableAfter
    /\ worker \in [st : {"none", "starting", "handlers", "configured",
                         "running", "teardown", "exit_ok", "exit_bad"},
                   users : 0..MaxVersion, config : 0..MaxVersion,
                   hup : BOOLEAN, term : BOOLEAN]
    /\ disk \in [Files -> 0..MaxVersion]
    /\ promised \in [Files -> 0..MaxVersion]
    /\ offered \in 0..MaxCommands /\ faults \in 0..MaxFaults

Init ==
    /\ loop = "retry" /\ result = "none"
    /\ queue = <<>> /\ closed = FALSE /\ stopReady = FALSE
    /\ flags = NoFlags /\ delay = 0 /\ backoff = InitialBackoff /\ age = 0
    /\ worker = NoWorker /\ pid = FALSE
    /\ disk = [f \in Files |-> 0] /\ promised = [f \in Files |-> 0]
    /\ offered = 0 /\ faults = 0
    /\ waited = 0 /\ termAge = None
    /\ lastExit = [bad |-> FALSE, final |-> FALSE]

-----------------------------------------------------------------------------
(* The callers.  Each writes its file before it offers its command.        *)

Save(f) ==
    /\ disk[f] < MaxVersion
    /\ disk' = [disk EXCEPT ![f] = @ + 1]
    /\ UNCHANGED <<queue, closed, stopReady, offered, promised,
                   loopVars, ghostVars, worker, faults>>

\* The panel's reload_worker: send().await, which waits for a free slot.
PanelReload ==
    /\ ~closed /\ loop # "ended" /\ offered < MaxCommands
    /\ Len(queue) < Capacity
    /\ queue' = Append(queue, "reload")
    /\ promised' = [promised EXCEPT !["users"] = disk["users"]]
    /\ offered' = offered + 1
    /\ UNCHANGED <<closed, stopReady, disk, loopVars, ghostVars, worker, faults>>

\* reload_on_sighup in the control process: try_send, and a full queue counts
\* as success because whatever is queued will make the worker read the file.
SighupReload ==
    /\ ~closed /\ loop # "ended" /\ offered < MaxCommands
    /\ queue' = IF Len(queue) < Capacity THEN Append(queue, "reload") ELSE queue
    /\ promised' = [promised EXCEPT !["users"] = disk["users"]]
    /\ offered' = offered + 1
    /\ UNCHANGED <<closed, stopReady, disk, loopVars, ghostVars, worker, faults>>

\* The panel's restart: try_send, and a full queue is an error for the caller.
PanelRestart ==
    /\ ~closed /\ loop # "ended" /\ offered < MaxCommands
    /\ offered' = offered + 1
    /\ IF Len(queue) < Capacity
       THEN /\ queue' = Append(queue, "restart")
            /\ promised' = [promised EXCEPT !["config"] = disk["config"]]
       ELSE UNCHANGED <<queue, promised>>
    /\ UNCHANGED <<closed, stopReady, disk, loopVars, ghostVars, worker, faults>>

StopRequested ==
    /\ ~stopReady /\ stopReady' = TRUE
    /\ UNCHANGED <<queue, closed, disk, offered, promised,
                   loopVars, ghostVars, worker, faults>>

OwnerLost ==
    /\ ~closed /\ closed' = TRUE
    /\ UNCHANGED <<queue, stopReady, disk, offered, promised,
                   loopVars, ghostVars, worker, faults>>

-----------------------------------------------------------------------------
(* The worker process.                                                     *)

\* What a signal does to the child; signal_worker makes a reaped or exited
\* child a no-op.
Signalled(w, sig) ==
    IF w.st \in {"none", "exit_ok", "exit_bad"} THEN w
    ELSE IF w.st = "starting" THEN [w EXCEPT !.st = "exit_bad"]
    ELSE IF sig = "stop" THEN [w EXCEPT !.term = TRUE]
    ELSE [w EXCEPT !.hup = TRUE]

WorkerStep(w) ==
    /\ worker' = w
    /\ UNCHANGED <<cmdVars, loopVars, ghostVars, faults>>

InstallHandlers == /\ worker.st = "starting"
                   /\ WorkerStep([worker EXCEPT !.st = "handlers"])

LoadConfig == /\ worker.st = "handlers"
              /\ WorkerStep([worker EXCEPT !.st = "configured",
                                           !.config = disk["config"]])

LoadUsers == /\ worker.st = "configured"
             /\ WorkerStep([worker EXCEPT !.st = "running",
                                          !.users = disk["users"]])

\* sighup.recv, then reload_on_sighup.  Signals that arrive while one is
\* pending collapse into it; one that arrives later is pending again.  The files on the
\* disk are ones the worker accepts: a rejected candidate, which leaves the running
\* configuration as it is, is left out.
WorkerReload == /\ worker.st = "running" /\ worker.hup
                /\ WorkerStep([worker EXCEPT !.hup = FALSE,
                                             !.users = disk["users"]])

WorkerStops == /\ worker.st = "running" /\ worker.term
               /\ WorkerStep([worker EXCEPT !.st = "teardown"])

\* Teardown ends cleanly, with failures or exit code 124, or hangs.
WorkerExits == /\ worker.st = "teardown"
               /\ \E st \in {"exit_ok", "exit_bad"} :
                      WorkerStep([worker EXCEPT !.st = st])

WorkerCrashes ==
    /\ Alive /\ faults < MaxFaults /\ faults' = faults + 1
    /\ worker' = [worker EXCEPT !.st = "exit_bad"]
    /\ UNCHANGED <<cmdVars, loopVars, ghostVars>>

-----------------------------------------------------------------------------
(* supervise: between two workers.                                         *)

\* Nothing of a stopped generation is left behind: the returns of supervise.
Return(r) ==
    /\ loop' = "ended" /\ result' = r
    /\ flags' = NoFlags
    /\ UNCHANGED <<queue, closed, stopReady, disk, offered, promised,
                   delay, backoff, age, faults>>

RetryEnds ==
    /\ loop = "retry" /\ (closed \/ stopReady)
    /\ Return("ok")
    /\ UNCHANGED <<ghostVars, worker, pid>>

Doubled(b) == IF 2 * b < MaximumBackoff THEN 2 * b ELSE MaximumBackoff

\* The drain, then spawn; the queue's contents all predate this worker.
SpawnWorker ==
    /\ loop' = "select" /\ flags' = NoFlags /\ age' = 0
    /\ queue' = <<>>
    /\ worker' = [NoWorker EXCEPT !.st = "starting"]
    /\ pid' = TRUE
    /\ delay' = 0 /\ waited' = 0 /\ termAge' = None
    /\ UNCHANGED <<result, closed, stopReady, disk, offered, promised,
                   backoff, faults, lastExit>>

SpawnFails ==
    /\ faults < MaxFaults /\ faults' = faults + 1
    /\ queue' = <<>>
    /\ delay' = backoff /\ backoff' = Doubled(backoff)
    /\ waited' = 0
    /\ UNCHANGED <<loop, result, flags, age, closed, stopReady, disk, offered,
                   promised, worker, pid, termAge, lastExit>>

RetryTimer ==
    /\ loop = "retry" /\ ~closed /\ ~stopReady
    /\ delay = 0
    /\ SpawnWorker \/ SpawnFails

\* A reload is dropped, since the next worker reads the file; the timer is
\* not touched.
RetryReload ==
    /\ loop = "retry" /\ ~closed /\ ~stopReady /\ delay > 0
    /\ queue # <<>> /\ Head(queue) = "reload"
    /\ queue' = Tail(queue)
    /\ UNCHANGED <<closed, stopReady, disk, offered, promised,
                   loopVars, ghostVars, worker, faults>>

RetryRestart ==
    /\ loop = "retry" /\ ~closed /\ ~stopReady /\ delay > 0
    /\ queue # <<>> /\ Head(queue) = "restart"
    /\ SpawnWorker \/ SpawnFails

-----------------------------------------------------------------------------
(* supervise: while a worker is owned, the arms of the select.             *)

BugRequestTermination(fl) ==
    /\ flags' = [fl EXCEPT !.deadline = ShutdownGrace]
    /\ worker' = Signalled(worker, "stop")
    /\ termAge' = IF termAge = None THEN 0 ELSE termAge

\* Only the first request of a generation signals and arms the deadline.
RequestTermination(fl) ==
    IF fl.deadline = None
    THEN /\ flags' = [fl EXCEPT !.deadline = ShutdownGrace]
         /\ worker' = Signalled(worker, "stop")
         /\ termAge' = 0
    ELSE flags' = fl /\ UNCHANGED <<worker, termAge>>

StopIsDue == stopReady /\ ~flags.stopping

SelectStop ==
    /\ loop = "select" /\ StopIsDue
    /\ RequestTermination([flags EXCEPT !.stopping = TRUE])
    /\ UNCHANGED <<cmdVars, loop, result, delay, backoff, age, pid,
                   waited, lastExit, faults>>

\* Does the end of this generation end supervision, with its result?
Final(fl) == fl.stopping \/ closed

\* The common tail: drop(worker), then return or pick the retry delay.
AfterWorker(bad) ==
    /\ worker' = NoWorker /\ pid' = FALSE
    /\ lastExit' = [bad |-> bad, final |-> stopReady \/ closed]
    /\ termAge' = None
    /\ waited' = 0
    /\ IF Final(flags)
       THEN Return(IF bad THEN "failed" ELSE "ok")
       ELSE /\ loop' = "retry" /\ flags' = NoFlags
            /\ IF flags.restarting
               THEN delay' = 0 /\ backoff' = InitialBackoff
               ELSE LET b == IF age >= StableAfter THEN InitialBackoff ELSE backoff
                    IN  delay' = b /\ backoff' = Doubled(b)
            /\ UNCHANGED <<cmdVars, result, age, faults>>

SelectExit ==
    /\ loop = "select" /\ ~StopIsDue /\ Exited
    /\ AfterWorker(worker.st = "exit_bad")

\* kill and reap: the exit cannot confirm the cleanup.
SelectDeadline ==
    /\ loop = "select" /\ ~StopIsDue /\ ~Exited /\ flags.deadline = 0
    /\ AfterWorker(TRUE)

CommandIsNext == /\ loop = "select" /\ ~StopIsDue /\ ~Exited
                 /\ flags.deadline # 0 /\ ~flags.stopping

BugSelectReload ==
    /\ CommandIsNext /\ queue # <<>> /\ Head(queue) = "reload"
    /\ queue' = Tail(queue)
    /\ worker' = IF flags.deadline = None /\ age >= StableAfter
                 THEN Signalled(worker, "reload") ELSE worker
    /\ UNCHANGED <<closed, stopReady, disk, offered, promised,
                   loopVars, ghostVars, faults>>

SelectReload ==
    /\ CommandIsNext /\ queue # <<>> /\ Head(queue) = "reload"
    /\ queue' = Tail(queue)
    /\ worker' = IF flags.deadline = None THEN Signalled(worker, "reload") ELSE worker
    /\ UNCHANGED <<closed, stopReady, disk, offered, promised,
                   loopVars, ghostVars, faults>>

SelectRestart ==
    /\ CommandIsNext /\ queue # <<>> /\ Head(queue) = "restart"
    /\ queue' = Tail(queue)
    /\ RequestTermination([flags EXCEPT !.restarting = TRUE])
    /\ UNCHANGED <<closed, stopReady, disk, offered, promised, loop, result,
                   delay, backoff, age, pid, waited, lastExit, faults>>

\* recv returns None once the queue of a closed channel is empty.
SelectClosed ==
    /\ CommandIsNext /\ queue = <<>> /\ closed
    /\ RequestTermination([flags EXCEPT !.stopping = TRUE, !.restarting = FALSE])
    /\ UNCHANGED <<cmdVars, loop, result, delay, backoff, age, pid,
                   waited, lastExit, faults>>

\* The supervision future is dropped: OwnedWorker's Drop kills the child and
\* withdraws its PID.
Cancelled ==
    /\ loop = "select"
    /\ worker' = NoWorker /\ pid' = FALSE
    /\ Return("none")
    /\ UNCHANGED ghostVars

-----------------------------------------------------------------------------

TimerDue == \/ loop = "retry" /\ delay = 0
            \/ loop = "select" /\ flags.deadline = 0

Tick ==
    /\ loop # "ended" /\ ~TimerDue
    /\ \/ loop = "retry"
       \/ flags.deadline > 0
       \/ age < StableAfter
    /\ delay' = IF loop = "retry" THEN delay - 1 ELSE delay
    /\ waited' = IF loop = "retry" THEN waited + 1 ELSE waited
    /\ flags' = [flags EXCEPT !.deadline = IF @ = None THEN None ELSE @ - 1]
    /\ termAge' = IF termAge = None THEN None ELSE termAge + 1
    /\ age' = IF loop = "select" /\ age < StableAfter THEN age + 1 ELSE age
    /\ UNCHANGED <<cmdVars, loop, result, backoff, pid, worker, faults, lastExit>>

Supervise == \/ RetryEnds \/ RetryTimer \/ RetryReload \/ RetryRestart
             \/ SelectStop \/ SelectExit \/ SelectDeadline
             \/ SelectReload \/ SelectRestart \/ SelectClosed

Boot == InstallHandlers \/ LoadConfig \/ LoadUsers

Next == \/ \E f \in Files : Save(f)
        \/ PanelReload \/ SighupReload \/ PanelRestart
        \/ StopRequested \/ OwnerLost \/ Cancelled
        \/ Boot \/ WorkerReload \/ WorkerStops \/ WorkerExits \/ WorkerCrashes
        \/ Supervise \/ Tick

Spec == Init /\ [][Next]_vars

\* Time passes, the supervision task is scheduled, a worker gets through its
\* startup and polls its signals.  Nothing makes a teardown end.
Fairness == /\ WF_vars(Tick) /\ WF_vars(Supervise)
            /\ WF_vars(Boot) /\ WF_vars(WorkerReload) /\ WF_vars(WorkerStops)

-----------------------------------------------------------------------------

\* The published PID is that of a child this loop still owns and has not
\* reaped: a recycled PID is never shown or signalled.
PidIsOwned == pid <=> worker.st # "none"

\* However often Restart is repeated, and whatever else happens, a worker that
\* was asked to stop is gone after the grace period.
GraceIsBounded == termAge <= ShutdownGrace

\* No stream of panel commands keeps a dead worker from being respawned: a
\* retry wait never exceeds the maximum backoff.
RetryIsBounded == waited <= MaximumBackoff

\* A generation that went down badly while the final stop, or the loss of the
\* owner, was already in effect is what supervise reports.
BadStopIsReported ==
    (loop = "ended" /\ result = "ok") => ~(lastExit.bad /\ lastExit.final)

\* Together: the loop owns its worker, bounds its waits and reports its end.
WorkerIsSupervised ==
    TypeOK /\ PidIsOwned /\ GraceIsBounded /\ RetryIsBounded /\ BadStopIsReported

\* What a caller was told: a users file saved before a reload was accepted,
\* a full queue included, is read by a running worker; so is a configuration
\* saved before an accepted restart.  (Unless supervision ends first.)
SavedUsersAreRead ==
    \A v \in 1..MaxVersion :
        promised["users"] >= v ~>
            \/ loop = "ended"
            \/ worker.st \in {"running", "teardown"} /\ worker.users >= v

SavedConfigIsRead ==
    \A v \in 1..MaxVersion :
        promised["config"] >= v ~>
            \/ loop = "ended"
            \/ worker.st \in {"running", "teardown"} /\ worker.config >= v

\* A stop request ends supervision even if the worker hangs in teardown.
StopReturns == (stopReady \/ closed) ~> loop = "ended"
=============================================================================
