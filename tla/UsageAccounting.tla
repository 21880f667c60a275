--------------------------- MODULE UsageAccounting ---------------------------
(***************************************************************************)
(* Traffic accounting and quotas (src/qeli/src/server/usage.rs and the     *)
(* sweep in server/mod.rs).  A session's atomic byte counter is tracked    *)
(* from before it goes live until its last writer is gone; collections     *)
(* fold its growth into the user's total; the totals are written to        *)
(* usage.json by a worker process and only read by the supervisor.         *)
(*                                                                         *)
(* All store operations of the worker are jobs of one bounded FIFO run by  *)
(* one thread, a job at a time; a caller that goes away leaves its job in  *)
(* the queue.  One byte counter stands for download and upload alike.      *)
(***************************************************************************)
EXTENDS Integers, Sequences, FiniteSets, FiniteSetsExt

CONSTANTS
  Session, User,
  UserOf,       \* the user of every session
  Limit,        \* data_limit_gb, in the model's bytes
  MaxBytes,     \* bound: bytes per session
  MaxQueue,     \* capacity of the job queue (64 in the code)
  MaxResets,    \* bound: reset-usage commands
  MaxFaults,    \* bound: failed writes
  MaxCrashes    \* bound: killed workers

VARIABLES
  life,         \* per session: "new", "checking", "checked", "tracking", "live",
                \* "closed" (not in the registry, writers still run), "gone", "refused"
  counter,      \* per session: bytes_sent
  usage,        \* per user: the worker's total (Inner.usage)
  committed,    \* per session: bytes already folded, or NotFolded
  tracked,      \* sessions whose counters the store holds
  disk,         \* usage.json
  queue,        \* jobs of the I/O thread
  io,           \* "open", "draining", and after the last write "flushed" or "lost"
  phase,        \* of the worker: "up", "stopping", "stopped"
  sweep,        \* "idle", "collecting", "deciding", "flushing", "kicking"
  snapshot,     \* the sweep's totals
  kicks,        \* the sweep's to_kick
  panel,        \* the supervisor's copy
  supervisor,   \* it runs
  faults, resets, crashes,
  carried       \* ghost: bytes carried for a user since the last reset or the last loss

store == <<usage, committed, tracked>>
sweeper == <<sweep, snapshot, kicks>>
bounds == <<faults, resets, crashes>>
vars == <<life, counter, store, disk, queue, io, phase, sweeper, panel, supervisor,
          bounds, carried>>

NotFolded == -1
Zero == [u \in User |-> 0]
Job(kind, x) == [kind |-> kind, x |-> x]
Sum(S, f) == FoldSet(LAMBDA x, acc : f[x] + acc, 0, S)

Init ==
  /\ life = [s \in Session |-> "new"] /\ counter = [s \in Session |-> 0]
  /\ usage = Zero /\ committed = [s \in Session |-> NotFolded] /\ tracked = {}
  /\ disk = Zero /\ queue = <<>> /\ io = "open" /\ phase = "up"
  /\ sweep = "idle" /\ snapshot = Zero /\ kicks = {}
  /\ panel = Zero /\ supervisor = TRUE
  /\ faults = 0 /\ resets = 0 /\ crashes = 0 /\ carried = Zero

-----------------------------------------------------------------------------
(* collect_inner: fold every tracked counter, and retire those whose       *)
(* writers are gone.                                                       *)
Base(s) == IF committed[s] = NotFolded THEN 0 ELSE committed[s]
Growth(s) == IF counter[s] > Base(s) THEN counter[s] - Base(s) ELSE 0
BugFinished == {s \in tracked : life[s] \in {"closed", "gone"}}
(* Arc::get_mut: nobody else holds the counter any more.                   *)
Finished == {s \in tracked : life[s] \in {"gone", "refused"}}
Folded == [u \in User |-> usage[u] + Sum({s \in tracked : UserOf[s] = u},
                                         [s \in Session |-> Growth(s)])]
Collect(total) ==
  /\ usage' = total
  /\ committed' = [s \in Session |->
       IF s \in Finished THEN NotFolded
       ELSE IF s \in tracked /\ Growth(s) > 0 THEN counter[s] ELSE committed[s]]
  /\ tracked' = tracked \ Finished

(* A write succeeds, fails before the rename, or fails after it.           *)
Outcome == {"ok", "failed", "published"}
Write(content, result) ==
  /\ disk' = IF result = "failed" THEN disk ELSE content
  /\ IF result = "ok" THEN UNCHANGED faults ELSE faults < MaxFaults /\ faults' = faults + 1

-----------------------------------------------------------------------------
(* Admission of a session: quota check and tracking are jobs, the session  *)
(* enters the registry only after both.                                    *)
Submit(job) == /\ io = "open" /\ Len(queue) < MaxQueue /\ queue' = Append(queue, job)
Become(s, what) == life' = [life EXCEPT ![s] = what]

Authenticate(s) ==
  /\ phase = "up" /\ life[s] = "new"
  /\ Submit(Job("quota", s)) /\ Become(s, "checking")
  /\ UNCHANGED <<counter, store, disk, io, phase, sweeper, panel, supervisor, bounds, carried>>

Track(s) ==
  /\ life[s] = "checked" /\ Submit(Job("track", s)) /\ Become(s, "tracking")
  /\ UNCHANGED <<counter, store, disk, io, phase, sweeper, panel, supervisor, bounds, carried>>

(* The connection ends while its job is still queued.                      *)
Cancel(s) ==
  /\ life[s] \in {"checking", "checked", "tracking"} /\ Become(s, "refused")
  /\ UNCHANGED <<counter, store, disk, queue, io, phase, sweeper, panel, supervisor,
                 bounds, carried>>

(* Writers count bytes until they are gone, also after the session has     *)
(* left the registry.                                                      *)
Carry(s) ==
  /\ life[s] \in {"live", "closed"} /\ counter[s] < MaxBytes
  /\ counter' = [counter EXCEPT ![s] = @ + 1]
  /\ carried' = [carried EXCEPT ![UserOf[s]] = @ + 1]
  /\ UNCHANGED <<life, store, disk, queue, io, phase, sweeper, panel, supervisor, bounds>>

Disconnect(s) ==
  /\ life[s] = "live" /\ Become(s, "closed")
  /\ UNCHANGED <<counter, store, disk, queue, io, phase, sweeper, panel, supervisor,
                 bounds, carried>>

WriterEnds(s) ==
  /\ life[s] = "closed" /\ Become(s, "gone")
  /\ UNCHANGED <<counter, store, disk, queue, io, phase, sweeper, panel, supervisor,
                 bounds, carried>>

Reset(u) ==
  /\ phase = "up" /\ resets < MaxResets /\ resets' = resets + 1
  /\ Submit(Job("reset", u))
  /\ UNCHANGED <<life, counter, store, disk, io, phase, sweeper, panel, supervisor,
                 faults, crashes, carried>>

-----------------------------------------------------------------------------
(* The I/O thread runs the first job.                                      *)
IsNext(kind) == queue # <<>> /\ Head(queue).kind = kind /\ queue' = Tail(queue)

RunQuota ==
  /\ IsNext("quota")
  /\ LET s == Head(queue).x IN
       life' = IF life[s] # "checking" THEN life
               ELSE [life EXCEPT ![s] = IF usage[UserOf[s]] >= Limit THEN "refused"
                                        ELSE "checked"]
  /\ UNCHANGED <<counter, store, disk, io, phase, sweeper, panel, supervisor, bounds, carried>>

RunTrack ==
  /\ IsNext("track")
  /\ LET s == Head(queue).x IN
       /\ tracked' = tracked \cup {s}
       /\ life' = IF life[s] = "tracking" THEN [life EXCEPT ![s] = "live"] ELSE life
  /\ UNCHANGED <<counter, usage, committed, disk, io, phase, sweeper, panel, supervisor,
                 bounds, carried>>

RunCollect ==
  /\ IsNext("collect") /\ Collect(Folded)
  /\ snapshot' = Folded /\ sweep' = "deciding"
  /\ UNCHANGED <<life, counter, disk, io, phase, kicks, panel, supervisor, bounds, carried>>

(* Serialized and replaced under the lock that a reset takes.              *)
RunFlush ==
  /\ IsNext("flush") /\ Collect(Folded)
  /\ \E result \in Outcome : Write(Folded, result)
  /\ sweep' = "kicking"
  /\ UNCHANGED <<life, counter, io, phase, snapshot, kicks, panel, supervisor, resets,
                 crashes, carried>>

(* reset_with_writer: bytes not swept yet belong to the time before the    *)
(* reset; only a write that did not reach the file takes it back.          *)
RunReset ==
  /\ IsNext("reset")
  /\ LET u == Head(queue).x
         total == [Folded EXCEPT ![u] = 0]
     IN \E result \in Outcome :
          /\ Write(total, result)
          /\ Collect(IF result = "failed" THEN Folded ELSE total)
          /\ carried' = IF result = "failed" THEN carried ELSE [carried EXCEPT ![u] = 0]
  /\ UNCHANGED <<life, counter, io, phase, sweeper, panel, supervisor, resets, crashes>>

-----------------------------------------------------------------------------
(* usage_sweep: collect, decide on the snapshot, flush, kick.  A stop lets *)
(* the cycle under way finish.                                             *)
SweepStep(from, to) == sweep = from /\ sweep' = to

SweepBegin ==
  /\ phase = "up" /\ SweepStep("idle", "collecting") /\ Submit(Job("collect", ""))
  /\ UNCHANGED <<life, counter, store, disk, io, phase, snapshot, kicks, panel, supervisor,
                 bounds, carried>>

SweepDecide ==
  /\ SweepStep("deciding", "flushing") /\ Submit(Job("flush", ""))
  /\ kicks' = {s \in Session : life[s] = "live" /\ snapshot[UserOf[s]] >= Limit}
  /\ UNCHANGED <<life, counter, store, disk, io, phase, snapshot, panel, supervisor,
                 bounds, carried>>

SweepKick ==
  /\ sweep = "kicking" /\ sweep' = "idle" /\ kicks' = {}
  /\ life' = [s \in Session |-> IF s \in kicks /\ life[s] = "live" THEN "closed" ELSE life[s]]
  /\ UNCHANGED <<counter, store, disk, queue, io, phase, snapshot, panel, supervisor,
                 bounds, carried>>

-----------------------------------------------------------------------------
(* Shutdown: services and profiles end first, then the queue is closed and *)
(* drained, then the last flush.                                           *)
Stop ==
  /\ phase = "up" /\ phase' = "stopping"
  /\ UNCHANGED <<life, counter, store, disk, queue, io, sweeper, panel, supervisor,
                 bounds, carried>>

ShutdownAsync ==
  /\ phase = "stopping" /\ io = "open" /\ sweep = "idle"
  /\ \A s \in Session : life[s] \in {"gone", "refused"}
  /\ io' = "draining"
  /\ UNCHANGED <<life, counter, store, disk, queue, phase, sweeper, panel, supervisor,
                 bounds, carried>>

ProfilesStop ==
  /\ phase = "stopping"
  /\ \E s \in Session : life[s] \notin {"closed", "gone", "refused"}
  /\ life' = [s \in Session |-> CASE life[s] = "live" -> "closed"
                                  [] life[s] \in {"closed", "gone"} -> life[s]
                                  [] OTHER -> "refused"]
  /\ UNCHANGED <<counter, store, disk, queue, io, phase, sweeper, panel, supervisor,
                 bounds, carried>>

FinalFlush ==
  /\ io = "draining" /\ queue = <<>> /\ Collect(Folded)
  /\ \E result \in Outcome :
       Write(Folded, result) /\ io' = IF result = "failed" THEN "lost" ELSE "flushed"
  /\ phase' = "stopped"
  /\ UNCHANGED <<life, counter, queue, sweeper, panel, supervisor, resets, crashes, carried>>

(* SIGKILL: what was not flushed is lost, and so is every connection.      *)
Crash ==
  /\ phase # "stopped" /\ crashes < MaxCrashes /\ crashes' = crashes + 1
  /\ life' = [s \in Session |-> IF life[s] = "new" THEN "new" ELSE "refused"]
  /\ usage' = disk /\ carried' = disk
  /\ committed' = [s \in Session |-> NotFolded] /\ tracked' = {}
  /\ queue' = <<>> /\ io' = "open" /\ phase' = "up"
  /\ sweep' = "idle" /\ snapshot' = Zero /\ kicks' = {}
  /\ UNCHANGED <<counter, disk, panel, supervisor, faults, resets>>

-----------------------------------------------------------------------------
(* The supervisor reads the file when the panel asks.                      *)
Reload ==
  /\ supervisor /\ panel # disk /\ panel' = disk
  /\ UNCHANGED <<life, counter, store, disk, queue, io, phase, sweeper, supervisor,
                 bounds, carried>>

(* Drop of a read-only store writes nothing.                               *)
SupervisorStops ==
  /\ supervisor /\ supervisor' = FALSE
  /\ UNCHANGED <<life, counter, store, disk, queue, io, phase, sweeper, panel, bounds, carried>>

RunJob == RunQuota \/ RunTrack \/ RunCollect \/ RunFlush \/ RunReset
Sweep == SweepBegin \/ SweepDecide \/ SweepKick

Next ==
  \/ \E s \in Session : \/ Authenticate(s) \/ Track(s) \/ Cancel(s) \/ Carry(s)
                        \/ Disconnect(s) \/ WriterEnds(s)
  \/ \E u \in User : Reset(u)
  \/ RunJob \/ Sweep
  \/ Stop \/ ProfilesStop \/ ShutdownAsync \/ FinalFlush \/ Crash
  \/ Reload \/ SupervisorStops

Spec == Init /\ [][Next]_vars
(* The I/O thread and the sweep's ten second interval keep running; a      *)
(* caller whose channel is full gets its turn.                             *)
Fairness ==
  WF_vars(RunJob) /\ SF_vars(SweepBegin) /\ SF_vars(SweepDecide) /\ WF_vars(SweepKick)

-----------------------------------------------------------------------------
(* Every byte is accounted exactly once: a user's total and the growth of  *)
(* the tracked counters make up what was carried since the last reset,     *)
(* through sweeps, retired counters, resets and failed writes.             *)
BytesAreCountedOnce ==
  \A u \in User :
    usage[u] + Sum({s \in tracked : UserOf[s] = u}, [s \in Session |-> Growth(s)])
      = carried[u]

(* A reset sticks: the file never says more than was carried since the     *)
(* last reset that reached it, whatever was queued before or fails after.  *)
ResetsStick == \A u \in User : disk[u] <= carried[u]

(* An orderly stop loses nothing: what the next worker loads is what was   *)
(* carried, even after the supervisor has ended too.                       *)
StopKeepsEverything == phase = "stopped" /\ io = "flushed" => disk = carried

(* A user over the limit is cut off: a live session of his ends, unless a  *)
(* reset brought him below the limit (or the worker stops).                *)
OverQuotaIsCutOff ==
  \A s \in Session :
    (life[s] = "live" /\ carried[UserOf[s]] >= Limit)
      ~> (life[s] # "live" \/ carried[UserOf[s]] < Limit \/ phase # "up")
=============================================================================
