---------------------------- MODULE HostProcesses ----------------------------
(* Processes and host state that outlive one connection: the supervisor of *)
(* the server worker (WorkerSupervisor), the manager of outbound tunnel    *)
(* processes (TunnelManager), the crash-safe journals of a client's kernel *)
(* routes (RouteJournal) and sysctl values (SysctlJournal) and its         *)
(* firewall kill switch (KillSwitch). They act on different processes and  *)
(* different kernel state, so a behaviour follows one of them, the part.   *)
EXTENDS Integers

CONSTANTS           \* TunnelManager
  Task, Name, Child, MaxCancels
CONSTANTS           \* WorkerSupervisor
  Capacity, InitialBackoff, MaximumBackoff, StableAfter, ShutdownGrace, MaxCommands,
  MaxVersion, MaxFaults
CONSTANTS           \* KillSwitch and SysctlJournal
  Firewalls, Sysctls   \* the settings they are checked with, each a part of its own

\* Each setting is a part of its own, a rule is not taken for an address, and a tool is
\* that of a family.
ASSUME FirewallsAssumption ==
  /\ Firewalls # {}
  /\ \A b, c \in Firewalls : b.part = c.part => b = c
  /\ \A b \in Firewalls :
       /\ \A f \in {4, 6} : b.server[f] \cap {"absent", "allow", "drop"} = {}
       /\ b.tools \subseteq SUBSET {4, 6}

\* A knob is the host's or an interface's, there is one, and 0 is no identity.
ASSUME SysctlsAssumption ==
  /\ Sysctls # {}
  /\ \A b, c \in Sysctls : b.part = c.part => b = c
  /\ \A b \in Sysctls :
       /\ b.global \cap b.link = {} /\ b.global \cup b.link # {}
       /\ 0 \notin b.identity /\ b.identity # {}

VARIABLE part     \* the component this behaviour is about, and its bounds

VARIABLES           \* WorkerSupervisor
  wsLoop, wsResult, wsQueue, wsClosed, wsStopReady, wsFlags, wsDelay, wsBackoff, wsAge,
  wsWorker, wsPid, wsDisk, wsOffered, wsFaults, wsPromised, wsWaited, wsTermAge,
  wsLastExit
VARIABLES           \* TunnelManager
  tmRunning, tmRunLock, tmSpawning, tmHolder, tmProc, tmProfile, tmClean, tmClosed,
  tmWaiter, tmOp, tmStage, tmFailures, tmResult, tmCancels
VARIABLES           \* RouteJournal
  rjFib, rjBoot, rjDisk, rjView, rjLock, rjOwner, rjGen, rjJob, rjFaults, rjMoves,
  rjRaced, rjInstalled
VARIABLES           \* KillSwitch
  ksFw, ksPc, ksCfg, ksFam, ksCaller, ksFailed, ksGuarded, ksAttempted, ksBroken,
  ksPaths, ksProtected, ksWant, ksTodo, ksExpired, ksFaults, ksRuns, ksLookups, ksMoves,
  ksFound, ksTampered
VARIABLES           \* SysctlJournal
  syKernel, syBoot, syDisk, syStarted, syAlive, syPinned, syTx, syHeld, syBase,
  syTouched, syFaults, syMoves

wsVars ==
  <<wsLoop, wsResult, wsQueue, wsClosed, wsStopReady, wsFlags, wsDelay, wsBackoff,
    wsAge, wsWorker, wsPid, wsDisk, wsOffered, wsFaults, wsPromised, wsWaited,
    wsTermAge, wsLastExit>>
tmVars ==
  <<tmRunning, tmRunLock, tmSpawning, tmHolder, tmProc, tmProfile, tmClean, tmClosed,
    tmWaiter, tmOp, tmStage, tmFailures, tmResult, tmCancels>>
rjVars ==
  <<rjFib, rjBoot, rjDisk, rjView, rjLock, rjOwner, rjGen, rjJob, rjFaults, rjMoves,
    rjRaced, rjInstalled>>
ksVars ==
  <<ksFw, ksPc, ksCfg, ksFam, ksCaller, ksFailed, ksGuarded, ksAttempted, ksBroken,
    ksPaths, ksProtected, ksWant, ksTodo, ksExpired, ksFaults, ksRuns, ksLookups,
    ksMoves, ksFound, ksTampered>>
syVars ==
  <<syKernel, syBoot, syDisk, syStarted, syAlive, syPinned, syTx, syHeld, syBase,
    syTouched, syFaults, syMoves>>

\* For any policy of the supervisor.
WS == INSTANCE WorkerSupervisor WITH
  loop <- wsLoop, result <- wsResult, queue <- wsQueue, closed <- wsClosed,
  stopReady <- wsStopReady, flags <- wsFlags, delay <- wsDelay, backoff <- wsBackoff,
  age <- wsAge, worker <- wsWorker, pid <- wsPid, disk <- wsDisk, offered <- wsOffered,
  faults <- wsFaults, promised <- wsPromised, waited <- wsWaited, termAge <- wsTermAge,
  lastExit <- wsLastExit

\* For any number of requests, profiles and processes.
TM == INSTANCE TunnelManager WITH
  running <- tmRunning, runLock <- tmRunLock, spawning <- tmSpawning,
  holder <- tmHolder, proc <- tmProc, profile <- tmProfile, clean <- tmClean,
  closed <- tmClosed, waiter <- tmWaiter, op <- tmOp, stage <- tmStage,
  failures <- tmFailures, result <- tmResult, cancels <- tmCancels

\* One client and a batch of two destinations.
RD == INSTANCE RouteJournal WITH
  Client <- {"tun0"}, Dest <- {"d1", "d2"}, Path <- {"p1", "p2"}, Other <- "op",
  MaxGen <- 2, MaxBoot <- 1, MaxMoves <- 0, MaxFaults <- 1,
  fib <- rjFib, boot <- rjBoot, disk <- rjDisk, view <- rjView, lock <- rjLock,
  owner <- rjOwner, gen <- rjGen, job <- rjJob, faults <- rjFaults, moves <- rjMoves,
  raced <- rjRaced, installed <- rjInstalled

\* One destination, two faults, a reboot and an operator who interferes.
RF == INSTANCE RouteJournal WITH
  Client <- {"tun0"}, Dest <- {"d1"}, Path <- {"p1", "p2"}, Other <- "op", MaxGen <- 2,
  MaxBoot <- 2, MaxMoves <- 1, MaxFaults <- 2,
  fib <- rjFib, boot <- rjBoot, disk <- rjDisk, view <- rjView, lock <- rjLock,
  owner <- rjOwner, gen <- rjGen, job <- rjJob, faults <- rjFaults, moves <- rjMoves,
  raced <- rjRaced, installed <- rjInstalled

\* Two clients want the same destination.
RC == INSTANCE RouteJournal WITH
  Client <- {"tun0", "tun1"}, Dest <- {"d1"}, Path <- {"p1"}, Other <- "op",
  MaxGen <- 2, MaxBoot <- 1, MaxMoves <- 1, MaxFaults <- 1,
  fib <- rjFib, boot <- rjBoot, disk <- rjDisk, view <- rjView, lock <- rjLock,
  owner <- rjOwner, gen <- rjGen, job <- rjJob, faults <- rjFaults, moves <- rjMoves,
  raced <- rjRaced, installed <- rjInstalled

\* For any interfaces, addresses, settings and faults.
KS(b) == INSTANCE KillSwitch WITH
  Tun <- b.tun, Server <- b.server, Leaks <- b.leaks, Tools <- b.tools,
  MaxRuns <- b.runs, MaxFaults <- b.faults, MaxLookups <- b.lookups, MaxMoves <- b.moves,
  fw <- ksFw, pc <- ksPc, cfg <- ksCfg, fam <- ksFam, caller <- ksCaller,
  failed <- ksFailed, guarded <- ksGuarded, attempted <- ksAttempted,
  broken <- ksBroken, paths <- ksPaths, protected <- ksProtected, want <- ksWant,
  todo <- ksTodo, expired <- ksExpired, faults <- ksFaults, runs <- ksRuns,
  lookups <- ksLookups, moves <- ksMoves, found <- ksFound, tampered <- ksTampered

\* For any processes, knobs, values, identities and faults.
SY(b) == INSTANCE SysctlJournal WITH
  Process <- b.process, Global <- b.global, Link <- b.link, Wanted <- b.wanted,
  Identity <- b.identity, MaxStarts <- b.starts, MaxBoot <- b.boots,
  MaxFaults <- b.faults, MaxMoves <- b.moves,
  kernel <- syKernel, boot <- syBoot, disk <- syDisk, started <- syStarted,
  alive <- syAlive, pinned <- syPinned, tx <- syTx, held <- syHeld, base <- syBase,
  touched <- syTouched, faults <- syFaults, moves <- syMoves

allVars ==
  <<part, wsVars, tmVars, rjVars, ksVars, syVars>>

\* Every component starts afresh; one of them is followed.
StartAll ==
  /\ part \in {"worker", "tunnels", "batch", "faults", "shared"}
             \cup {b.part : b \in Firewalls \cup Sysctls}
  /\ WS!Init
  /\ TM!Init
  /\ IF part = "shared" THEN RC!Init ELSE IF part = "faults" THEN RF!Init ELSE RD!Init
  /\ \E b \in Firewalls :
       /\ IF \E c \in Firewalls : part = c.part
          THEN part = b.part ELSE b = CHOOSE c \in Firewalls : TRUE
       /\ KS(b)!Init
  /\ \E b \in Sysctls :
       /\ IF \E c \in Sysctls : part = c.part
          THEN part = b.part ELSE b = CHOOSE c \in Sysctls : TRUE
       /\ SY(b)!Init

StepOne ==
  \/ /\ part = "worker" /\ WS!Next
     /\ UNCHANGED <<part, tmVars, rjVars, ksVars, syVars>>
  \/ /\ part = "tunnels" /\ TM!Next
     /\ UNCHANGED <<part, wsVars, rjVars, ksVars, syVars>>
  \/ /\ part = "batch" /\ RD!Next
     /\ UNCHANGED <<part, wsVars, tmVars, ksVars, syVars>>
  \/ /\ part = "faults" /\ RF!Next
     /\ UNCHANGED <<part, wsVars, tmVars, ksVars, syVars>>
  \/ /\ part = "shared" /\ RC!Next
     /\ UNCHANGED <<part, wsVars, tmVars, ksVars, syVars>>
  \/ /\ \E b \in Firewalls : part = b.part /\ KS(b)!Next
     /\ UNCHANGED <<part, wsVars, tmVars, rjVars, syVars>>
  \/ /\ \E b \in Sysctls : part = b.part /\ SY(b)!Next
     /\ UNCHANGED <<part, wsVars, tmVars, rjVars, ksVars>>

AnySpec == StartAll /\ [][StepOne]_allVars

-----------------------------------------------------------------------------
(* The published PID is that of a child that is owned and not reaped, a    *)
(* worker asked to stop is gone after the grace period, no stream of panel *)
(* commands delays a respawn beyond the maximum backoff, and a generation  *)
(* that went down badly during the final stop is what supervision reports  *)
(* (`supervisor.rs`).                                                      *)
WorkerIsSupervised ==
  part = "worker" => WS!WorkerIsSupervised

(* Every tunnel process that may still use its TUN, routes and DNS is the  *)
(* one the registry names, whatever was cancelled or could not be stopped, *)
(* and a shutdown that reported success left none (`client_manager.rs`).   *)
TunnelsAreOwned ==
  part = "tunnels" => TM!TunnelsAreOwned

(* While the client dials, everything it promised to close is closed and   *)
(* the addresses it dials are let through; after a release that reported   *)
(* success no rule of it is left (`killswitch.rs`).                        *)
DialingIsSafe ==
  \A b \in Firewalls : part = b.part =>
    KS(b)!DialingIsProtected /\ KS(b)!DialingIsPossible /\ KS(b)!ReleaseIsComplete

(* What a dead client left closed stays closed through every command of    *)
(* the next one that may fail or die, except where the code opens it on    *)
(* purpose (`rebuild::arm`, `Rollback`).                                   *)
EgressStaysClosed ==
  [][\A b \in Firewalls : part = b.part => KS(b)!OpensOnlyByDesign]_ksVars

(* Write-ahead: a route a client put into the kernel is on record through  *)
(* every crash, lost result and failed write, so that the next owner has   *)
(* no leftovers, and no two clients claim one destination. A client        *)
(* destroys a route of the operator only if it cannot be told from one the *)
(* client installed under this boot, or if the operator changed it after   *)
(* the inspection (the race the code documents) (`client/route.rs`).       *)
RoutesAreOnRecord ==
  /\ [](/\ part = "batch" =>
           RD!RoutesAreOnRecord /\ RD!NoLeftovers /\ RD!AcceptingIsSettled
        /\ part = "faults" =>
           RF!RoutesAreOnRecord /\ RF!NoLeftovers /\ RF!AcceptingIsSettled
        /\ part = "shared" => RC!RoutesAreOnRecord /\ RC!ClaimsAreExclusive)
  /\ [][/\ part = "batch" => RD!SparesOperatorRoutes
        /\ part = "faults" => RF!SparesOperatorRoutes
        /\ part = "shared" => RC!SparesOperatorRoutes]_rjVars

(* Write-ahead: while the kernel has a value a component put there, the    *)
(* journal has the one to go back to, and a value one component holds is   *)
(* not taken away by another. A value is restored only over the managed    *)
(* one, and only on the interface the entry was made for                   *)
(* (`client/sysctl.rs`).                                                   *)
SysctlsAreOnRecord ==
  /\ [](\A b \in Sysctls : part = b.part =>
           SY(b)!HeldValuesStay /\ SY(b)!OriginalsAreOnRecord)
  /\ [][\A b \in Sysctls : part = b.part => SY(b)!WritesOnlyItsOwn]_syVars
=============================================================================
