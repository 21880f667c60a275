# Formal models of qeli

qeli is a self-hosted VPN written in Rust. Its client is one shared core
(`qeli/src/transport_core`) that every platform (Android, iOS, macOS, Windows,
Linux) drives through a small synchronous interface: the platform calls methods,
and the core answers through a bounded queue of events that the platform polls,
executes and acknowledges. Under it lies an encrypted record layer
(`qeli/src/protocol/packet.rs`), and on the other side a server that hands out
addresses, meters traffic, manages sessions and lets them move between networks.

This directory holds TLA+ specifications of those parts, the TLC configurations
that check them on small instances, and TLAPS proofs that hold for every value of
the constants. `PROJECT.json` lists components, runs, the lines each definition
models, hazards and theorems.

    tlc -config ClientCore_paths.cfg ClientCore        # a run
    tlapm ClientCoreProofs.tla                         # the proofs of a module

## 1. Inventory

### Parts, their state and their operations

| Part | State | Operations | Where |
|---|---|---|---|
| Client core | lifecycle state, event queue and next sequence, pending plan, oneshot waiters, path candidate and its queued successor, statistics, adopted TUN, packet bridge | `start`, `stop`, `publish_*`, `attach_tun_fd`, `ack_*`, `request_*`, `submit_path_update`, `poll_event` | `transport_core/mod.rs`, `path.rs` |
| Native runtime | cancellation flag, attempt counters, registered tasks | `run_async`, `prepare_tunnel`, `management_event`, `finish_generation` | `transport_core/runtime.rs` |
| Platform adapters | the event in hand, temporary and committed routes and bindings | event pump, network monitor, teardown | `QeliService.kt`, `VpnTunnelBase.cs`, `QeliNativeTunnelEngine.swift` |
| Transport and handover | prepared, bound, validated carrier; timeouts | TCP handover task, UDP roaming actor | `client/mod.rs`, `udp_roaming*.rs`, `tcp_roaming.rs` |
| Record layer | send counter, replay window | `encrypt_packet_into`, `decrypt_packet_in_place` | `protocol/packet.rs` |
| Authenticated control v2 | in-flight and completed reassembly caches, receipt registry, terminal flag | fragmenting, reassembly, NOTICE and KICK with receipts and repetition | `protocol/control_v2.rs`, `server/handler.rs` |
| Fragmentation | per-record reassembly slots with expiry and byte limits | `DATA_FRAG_V1` writer and reassembler, handshake reassembly | `protocol/data_frag.rs`, `server/udp_handler.rs` |
| UDP handshake | half-open directory, cached ServerHello and AuthOK, AUTH task | retransmission, re-emission, cap, cleanup | `server/udp_handler.rs`, `client/mod.rs` |
| Session admission | session map, address map, leases, client networks and kernel routes | authenticate, supersede, JOIN, detach, teardown, kick, reap | `server/handler.rs`, `server/mod.rs`, `server/udp_handler.rs` |
| TCP resume | lifecycle automaton, reservation, fallback ticket, orphan count | lookup, begin, prepare, confirm, commit, abort, reap | `transport_core/tcp_roaming.rs`, `server/handler.rs` |
| UDP roaming | registry of connection ids, candidates, generations; the client's candidate and recovery policy | observe, publish, commit, expire, receive timeout | `transport_core/udp_roaming*.rs`, `server/udp_handler.rs` |
| Address pool | cursor, freed stack, leases, reservations, both families | allocate (dynamic, fixed, windowed), release | `server/pool.rs` |
| DHCP service | offers, leases, quarantine | DISCOVER, REQUEST, RELEASE, DECLINE, reap | `server/dhcp.rs` |
| Usage accounting | counters, store, I/O queue, the supervisor's copy | admission, sweep, reset, shutdown | `server/usage.rs` |
| Outbound client manager | running tunnels, admission flag, child processes | connect, disconnect, shutdown | `server/client_manager.rs` |
| Supervisor | command queue, backoff, worker process | reload, restart, stop, signals | `server/supervisor.rs` |
| Route journal | owners in memory, `client-routes.state`, the kernel's table | install, commit with rollback, cleanup, recovery | `client/route.rs`, `client/route/` |
| Kill switch | chains, hooks and rebuild guards of both families, protected families | admission, setup with rollback, refresh before an attempt, release after a clean stop | `client/killswitch.rs`, `client/killswitch/` |
| Sysctl journal | `sysctls.state`, owners, pinned descriptors, the kernel's values | acquire, release, recover, prune | `client/sysctl.rs`, `client/sysctl/` |
| Receive pump, buffer pool, task groups | permits, batches, pooled buffers, task states | reserve, push, pop, close, join, abort | `transport_core/` |
| Obfuscation, TLS imitation, shaping, path MTU | codecs, timers | encode, pad, delay, probe | `protocol/` |

### How they interact

* The core's methods run under one mutex. Four kinds of caller share it: the
  platform's pump (poll, acknowledge), the platform's monitor (path observations),
  the runner and its transport (plans, requests, handover), and the user
  (start, stop). Nothing is held between two calls, so the core may change between
  an event's delivery, its execution and its acknowledgement.
* The queue is the only way from the core to the platform. It is bounded, so every
  operation that answers through it must first find room, and what it does when it
  finds none is part of its contract.
* A path handover is a transaction of three parties: the core decides, the platform
  installs (PREPARE, BIND, COMMIT, ABORT), the transport validates, each with a
  timeout of its own. Under it, client and server agree on the new path with a
  challenge, a response and a COMMIT, any of which may be lost.
* Record layer, fragmentation and control reassembly sit below the transport; they
  see datagrams lost, repeated and reordered, and hand each record up at most once.
* On the server, admission holds a lock across its awaits; the quota sweep, the
  control interface and the UDP reaper take the same lock, while streams and DHCP
  change the same maps and the same pool without it. Management messages and evictions race the session they are about.
* Supervisor and worker are processes; they share files, signals and exit codes. The
  tunnels of the client manager are child processes. The journals of routes and sysctls
  are shared by every client process on a host and must survive any of them, as must
  the firewall rules of the kill switch.

### What is hard

Interleavings of the callers; acknowledgements that arrive after the core has moved
on; a full queue in the middle of an operation that has already changed something; a
newer network observation during each phase of a handover; a timeout racing a late
answer; stop and start while old work unwinds; state read before an await and used
after it (the last stream of a session, a usage snapshot, a claimed half-open
handshake); futures dropped half way; crashes and reboots between an intent and its
confirmation; a registry whose identifiers collide; multi-word shifts in the replay
window. The list, with the line where each bites and the properties that would
notice, is `hazards` in `PROJECT.json`.

### What makes each part correct

* Core: the queue never exceeds its capacity; a queued command is the one the
  candidate waits for; the newest observation wins; each candidate is counted once; a
  stopped core owns nothing; generations are kept apart, also by stale runners.
* Core with platform and transport: no temporary rule is leaked, a commit is final, a
  pending command can be answered, every candidate is resolved.
* Records, fragments, control: no counter for two records, nothing delivered twice or
  mixed, nothing fresh refused within the window, partial messages end.
* Sessions: every lease, route and map entry belongs to a live session; only its own
  end, a kick or a newer login ends one; a KICK is acted on, once.
* Pool and DHCP: no address leased twice or lost; both families or none; an
  acknowledged DHCP lease is not handed to anybody else.
* Roaming: client and server never disagree on a path; an orphan is counted once and
  ends; the index of connection ids is exact.
* Usage: every byte is counted once; a reset is not undone; over quota is cut off.
* Processes and host: no child without an owner; a saved file is read; every route and
  sysctl that was changed is on record; nothing of an operator's is destroyed; what the
  kill switch closed stays closed.

## 2. Modules and the code

| Module | Models | Relation |
|---|---|---|
| `ClientCore` | `transport_core/mod.rs`, `path.rs` | core component, arbitrary callers |
| `PlatformPaths` | event pump, monitor, transport, runner and user around it | EXTENDS `ClientCore` |
| `NativeRuntime` | `run_async` for several runners over several starts | the core reduced to what runners touch |
| `PacketCodec`, `RecordDelivery` | `ReplayWindow`, encryption, decryption; what they promise | `PacketCodec` refines `RecordDelivery` |
| `DataFragments` | `DATA_FRAG_V1` writer, reassembler | |
| `ControlV2`, `ControlReassembly` | `ControlReassembler`; its use with arbitrary frames | `ControlReassembly` EXTENDS `ControlV2` |
| `ManagementDelivery` | `send_management`, `kick_all`, writers, the client's consumer and supervisor | EXTENDS `ControlV2` |
| `UdpHandshake` | the client's retransmit loops, the server's worker and AUTH task | |
| `AddressPool`, `LeaseTable` | `pool.rs`; what it promises | `AddressPool` refines `LeaseTable` |
| `DhcpServer` | `dhcp.rs` over the pool it shares with the VPN | |
| `ServerSessions` | admission, supersession, JOIN, detach, teardown, kick, reaper | `MCServerSessions` instantiates it for one run |
| `UsageAccounting` | `usage.rs`, its I/O thread, the sweep, the supervisor's copy | |
| `TcpRoaming` | resume lifecycle and the handlers that drive it | |
| `UdpRoamingServer` | registry, worker directory, roaming ingress | |
| `UdpHandover` | client actor and server over a lossy network | |
| `TaskOwnership` | `TaskGroup` and completion signals | |
| `ReceivePump`, `PacketPool` | `udp_receive.rs`, `receive_queue.rs`; `buffer_pool.rs` and bonded streams | |
| `TunnelManager` | `client_manager.rs` | |
| `WorkerSupervisor` | `supervisor.rs`, the worker's startup and signals | |
| `RouteJournal` | `client/route.rs`, `client/route/` | |
| `KillSwitch` | `client/killswitch.rs`, `killswitch/`, its use in the reconnect loop and `client_cleanup.rs` | |
| `SysctlJournal` | `client/sysctl.rs`, `client/sysctl/target.rs` | |
| `WireLayer`, `ClientResources`, `ServerState`, `ServerConnections`, `Roaming`, `HostProcesses`, `Progress` | nothing of their own: the modules above, extended or instantiated | the runs of section 3; `MCHostProcesses` gives `HostProcesses` the settings of its kill switches and sysctls, `MCServerConnections` gives `ServerConnections` those of its management messages, `MCRoaming` gives `Roaming` those of its UDP registries |
| `ClientCoreProofs`, `PlatformPathsProofs` | theorems about the modules they are named after | section 5; `PlatformPathsProofs` EXTENDS `ClientCoreProofs` |
| `TaskOwnershipProofs` | theorems about `TaskOwnership`, `NativeRuntime`, the client's composition | EXTENDS `ClientResources`, instantiates `ClientCoreProofs` |
| `AddressPoolProofs` | theorems about `AddressPool`, `DhcpServer` | EXTENDS `ServerState` |
| `ServerProofs` | theorems about `ServerSessions`, `UdpHandshake` | EXTENDS `ServerSessions` |
| `ConnectionProofs` | theorems about `PacketCodec` and `ManagementDelivery`, and those of `ServerProofs` for the server of the run | EXTENDS `PacketCodec`, `ServerConnections`, instantiates `ServerProofs` |
| `RoamingProofs` | theorems about `UdpHandover`, `TcpRoaming`, `UdpRoamingServer` | EXTENDS `Roaming` |
| `HostProofs` | theorems about `TunnelManager`, `WorkerSupervisor`, `KillSwitch`, `SysctlJournal` | EXTENDS `HostProcesses` |

**ClientCore.** One method is one action, because the mutex is held throughout. The
variables carry the names of the struct's fields. A call that fails and changes
nothing is not an action; the failing calls that do change something are
(`SubmitQueueFull` burns a candidate id, `StopQueueFull` has already cancelled the
runner and discarded the path events). The queue is a set of events ordered by their
sequence numbers, which the core never reuses; taking the oldest and preempting the
oldest are defined by that order. `submit_path_update` is split by what it finds: no
candidate (`SubmitFirst`), a candidate committing or rolling back (`SubmitBehind`), a
PREPARE the platform has not seen (`SubmitReplacesUnseen`), or one it may have acted
on (`SubmitSupersedes`). `ack_path_command` is split by outcome and phase in the same
way. `run_async` reads its cancellation flag without the core's lock, so
`EndAttempt` (the read) and `FinishCancelled`/`FinishFailed` (its use) are separate
actions; likewise `PublishKick` and `CancelKicked`. Left out as data: the contents
of plans and path observations (their validation happens before any state change),
byte counters, latencies, error texts. File descriptors and packet bridges are
represented by the generation they were adopted for. The variable `kicked` has no
field behind it: it is the program counter of `management_event` between publishing
and cancelling.

**PlatformPaths.** The pump takes one event, executes it and acknowledges it
(`Dispatch`, `Execute`, `Acknowledge`), and everything else may happen in between.
An outcome says what the platform did (`PathCommandOutcome`): a rejected command had
no effect, one that leaves the platform state unknown may have had it. `rules` and
`committed` stand for the temporary and the permanent routes, filters and bindings.
The transport follows the TCP handover task and the UDP actor: bind, validate,
commit, or abort after a timeout, but never abort once COMMIT has been issued; an
abort that meets a full queue is logged and not repeated (`dropped`). `abandoned` and
`refused` are history: candidates the core gave up with their session or with a
counted reconnect fallback, and acknowledgements refused by a full queue.

**NativeRuntime.** Runners of earlier starts unwind while a new one runs; the token
and the identity check of `finish_generation` keep them apart. `stop` drops an
unacknowledged plan without advancing `last_plan_generation`, so the next start
reuses its number and a late answer to the old plan is taken for the new one. For the
same reason a stopped runner that had read its token and then lost the lock
(`runtime.rs:434-438`) may take the device of the next session: `DeviceStaysInItsStart`
says that this happens only across starts, with the earlier runner cancelled. The
platform adapters create a new handle for every connect, so this concerns users of
the API that restart a handle.

**PacketCodec.** One direction of a session. A word of the window is the set of the
positions of its one bits, so `|` is a union and a shift moves positions;
`ShiftedWord` is the body of `shift`, including the carry from the lower word. The
network keeps every record forever and may offer any of them at any time, which
covers loss, repetition and reordering. A failing cipher costs a counter but sends
nothing. The padding is validated before the counter is recorded. Assumed: the
receiver authenticates only what a holder of the key encrypted, and `prp_nonce` is a
bijection, so that the counter stands for the nonce. Framing and lengths are left out.

**DataFragments.** The HMAC admits only genuine fragments. Datagrams stay
receivable. The writer retries a record that did not fit at the floor size, with a
new id; both attempts may be in the network. Records rebuilt during pacing, of which
nothing was sent, are left out.

**ControlV2, ManagementDelivery.** A message that cannot be decoded still evicts one
receipt. The registry of receipts, the terminal flag, the priority lane and the write
and acknowledgement deadlines are state; the four-second batch deadline of a
superseding login may abort a kicker anywhere. It then leaves its registration
behind, which is harmless because the session is revoked.

**UdpHandshake.** Receive loop and cleanup tick are arms of one `select!`, so each is
atomic; the AUTH task interleaves with both. One connect attempt per address, unit
lengths, one copy of a datagram in the network. The client retransmits in the model
when nothing is in flight; duplicates stand for earlier retransmissions. `credit` is
a ghost that compares what the server sent to an unproven address with what it
received. Revocation happens only after AuthOK, because kicks, quota and other AUTHs
need the admission lock that the AUTH task holds until its answer is published. A
superseding AUTH then removes the entry whether or not the old task still has its lease
(`Supersede`), as does a datagram routed to a revoked session (`RoutedToRevoked`); a
task that finds its entry gone or replaced leaves the directory alone.

**AddressPool.** One record per family: leases, allocated set, stack of released
hosts, cursor. Static addresses are resolved before the pool is asked. A reservation
keyed by the plain user name is the legacy device key. The inert IPv4 pool of a profile
with IPv6 only is left out.

**DhcpServer.** One task; between the stages of one packet the pool's lock is taken
again, so VPN allocations interleave. Time is relative and never passes inside a
packet. The ghost of acknowledged leases ends when a static address takes one over,
which the code does on purpose.

**ServerSessions.** Admission keeps its lock over its awaits; kicks, the quota sweep
and the reaper take it, streams do not until their teardown. A kick takes the sessions
out of the map and revokes them in one step. The pool is the abstract lease table. Deleting a
kernel route is assumed to work. The releases of the too-many-clients return are
defensive and have no effect in the model.

**UsageAccounting.** One counter stands for both directions. A job is atomic: the
store has a single I/O thread. Profile tasks end before `shutdown_async`. A crash
loses what was not flushed, so `carried` is set to the disk.

**TcpRoaming.** One session with authenticated resume: primary and secondary slots,
candidate carriers, the orphan limiter shared with other sessions (`others`), the
one-shot reapers and the stream handlers that look up, begin, prepare, confirm and
commit, each a separate step.

**UdpRoamingServer.** Registry and worker directory have locks of their own;
everything may happen between them. Send failures and rate limits are losses. A
generation stands for the secrets of one handshake; `Cid` derives connection ids from
it and may collide. While an AUTH task is at work its lease (`UdpAuthLease`, here
`Leased`) keeps the entry in the directory, so the branch of `Attach` for a vanished
entry is there, as in the code, and not reached. All five invariants are asked of both
settings, the one with colliding connection ids included.

**UdpHandover.** Paths carry the name of their candidate; what a pump has queued is
tagged with its epoch only, as in the code. Server steps are atomic, a failed
publication is a loss. The receive timeout is certain only while nothing can be
received.

**TaskOwnership, ReceivePump, PacketPool.** An abort takes effect where the task
yields; a blocking closure runs to its end. The semaphore of the receive queue is
FIFO. Borrowing and returning of a buffer are split at their two locks. The model's
queue share is computed from the number of buffers as in the code; there, a pool of at
least 251 buffers faces at most 83 + 32 on one stream.

**TunnelManager.** A step is what happens between two awaits; `Cancel` is the future
of a dropped request. `is_running` may reap a child. Only a child that was killed is
assumed to exit.

**WorkerSupervisor.** Each arm of the biased `select!` is an action, with the priority
of its position. Files are versions, and all of them acceptable: a reload that is
rejected and keeps the running configuration is left out. A signal that arrives before the worker has
installed its handlers kills it. Cancellation is the drop of `OwnedWorker`.

**RouteJournal.** One process per client. A step is one `ip` command or one write of
the journal, with the query that decides it. A write that reports failure may have
been published. One that fails while intents are reconciled gives up the rest of them,
but the recovery still writes its envelope. Equality of paths stands for `route_matches_spec`. A replacement
racing an operator's change after the inspection is the residual the code documents,
and the property excepts it (`raced`). `recover_stale` is a `New` whose owner is
released at once.

**KillSwitch.** A step is one iptables command with the `-C` that verifies it; the
process may die between any two. A command may fail with or without effect and may use
up its operation's deadline; a rollback has a deadline of its own. The ACCEPT rules of a
chain that nothing jumps to are added in one step. Namespace identity and duplicate
jumps are not modelled. `found` and `tampered` are history: what was closed when the
client started, and whether an administrator removed a hook.

**SysctlJournal.** The file lock covers a whole transaction, so there is one at a time,
but processes die, administrators write, interfaces are replaced and the host reboots
between its steps. A step is one write to the kernel or to the journal, which may fail
with or without effect. The identity of an interface's file may return once nobody holds
it open. One namespace, and one scope per process. `held`, `base` and `touched` are
history: `base` is what the operator left, and changes with an operator's write to a knob
that has no entry. Whoever writes a managed knob takes it out of what can be promised
(`touched`); only for such a knob is what it has when its entry is dropped the new `base`.
An entry dropped before its original is back is thus a violation.

**Bug operators.** An operator named `Bug...` stands before the definition it
deviates from by one plausible programming error (a dropped guard, a missing carry, a
wrong slot count). It is not part of the specification; with it in place of the
definition, the property listed beside it under `mutants` fails.

## 3. Runs

| Run | Distinct states | What it shows |
|---|---|---|
| `core_paths` | 820,568 | path transactions under arbitrary callers: types, queue bound, commands and waiters belong to the current candidate, newest observation wins, statistics add up |
| `platform_live` | 214,655 | core, pump, monitor and transport: rules belong to the candidate, a commit is final, a pending command can be answered; every candidate resolves |
| `wire` | 125,166 | replay window exact and tolerant, the in-place shift loop, refinement of `RecordDelivery`; whole records from fragments; control messages once |
| `client_resources` | 914,886 | a stop is complete and its outcome true; receive buffers conserved; the pool serves every stream; plan, device and requests of two generations kept apart; stale runners are cancelled and get at most a device with their own generation number |
| `server_state` | 312,297 | leases exclusive and none lost, both families or none, refinement of `LeaseTable`; DHCP promises; usage conserved |
| `server_connections` | 1,678,811 | a handshake under verification keeps its entry until it is answered and unproven sources get little; sessions own their resources and only the right one ends; kicks are honoured |
| `roaming` | 822,982 | TCP orphans and reservations accounted for; UDP registry consistent, also under collisions; client and server agree on the path |
| `host_processes` | 1,806,412 | worker supervised within its deadlines; no unowned tunnel; routes and sysctls on record through crashes and faults, those of the operator survive; while the client dials the kill switch is closed and lets the dialled address through, and what a dead client left closed stays closed |
| `progress` | 115,348 | stops complete, requests are served, resources come back |
| `stop_backpressure` | violation | section 4 |
| `join_teardown` | violation | section 4 |
| `resume_ghost` | violation | section 4 |

**Runs that follow one of several components.** The components that a run such as
`server_state` puts together have no variable in common: where one acts on another's
state (a VPN allocation under the DHCP service, a roaming answer to the client), the
model contains that environment, more permissive than the real one. `part` chooses in
the initial state which component this behaviour follows, and with which bounds; the
others rest in theirs. A property of one component here is therefore exactly a
property of its own specification. The constants of a component about which theorems
are proved for every value are constants of the run's module and have their values in
the cfg; the others are written at the instances.

**Bounds and why they are enough.** The comment above each instance, or in the cfg,
says which case its bounds are made for.

* Core: `EventCapacity = 3` is the smallest capacity at which a call that needs two
  slots can meet "room", "one slot short" and "full", and at which a preempting
  failure keeps one older event (the default is 64; the proofs cover every capacity
  of at least two). Three updates are one candidate in progress, one waiting behind it
  and one that replaces the waiting one.
* Wire: two words of three bits have a carry, shifts below, at and above a word, and a
  jump past the window. Three messages for one slot and two receipts overflow both
  tables.
* Client resources: two waiters, one of which is cancelled; three sockets for fewer
  permits than two batches; four buffers for two readers and three streams of which
  two may attach; two generations of plans, so that a TUN of
  the older one meets the acknowledgement of the newer; three runners over two starts.
* Server state: two hosts per family for two keys, one reserved; two DHCP clients and
  a VPN user over four addresses; two sessions of one user, and one with a crash.
* Connections: one address with losses, repetition and time, two addresses for one
  half-open place; three devices of two logins, and one device that reconnects with
  joined streams; a kick and a notice over two streams, two kicks over UDP with a
  batch deadline.
* Roaming: a primary and two more carriers at two epochs with one orphan allowed; a
  session that registers and moves twice; two sessions with colliding ids and one
  candidate place; two replacement paths.
* Host: three commands for a queue of two; three requests of which one is dropped;
  routes in three settings: two destinations in one batch, one destination with two
  faults, a reboot and an operator, and two clients that share the journal; the kill
  switch over two runs with two faults, with a server that moves and an administrator
  who removes hooks, and with two TUNs and a missing tool; sysctls of two processes,
  once a global value with a reboot and once an interface that is replaced.
* Progress: smaller instances, since every path counts: the worker without crashes
  (a crash in every generation would rightly postpone everything), usage without
  failed writes, one lost datagram, one JOIN, one replacement path, one eviction, one
  fragmented record with its retry.

Every run says `CHECK_DEADLOCK FALSE`: each behaviour ends when its bound is used up,
and sessions, processes and stopped clients may rest.

**Fairness.** `FairSpec` in `platform_live`; in `progress` the fairness of a component
(its `Fairness`) is the assumption of the property, so that one run can hold several.
Never fair: users, operators, clients' wishes, faults.

* Platform: the pump is a loop that never blocks on the core, and each platform
  operation returns; the transport's steps are under timeouts after which it aborts.
  `CandidateResolves` names its exceptions: an acknowledgement or abort that met a
  full queue (nobody repeats either), a session ending, and the bound of the model.
* Control and eviction: deadlines expire, callers go on, readers finish, the client's
  supervisor is scheduled. Nothing is assumed of the network.
* Sessions: holders of the lock go on (weak); a waiting teardown gets it (strong:
  tokio's mutex is FIFO).
* Roaming: timers fire; a holder of a reservation goes on; a prepared candidate is
  confirmed or times out; closed pumps end; a live client handles its queue.
* Tunnels: strong fairness for waiters of FIFO mutexes; only a killed child must exit.
* Handshake: the client's timers fire, datagrams that are not lost arrive, the AUTH
  task ends.
* DHCP, fragments: time passes and the reaper runs. Pump: it is polled, the consumer
  takes what is there. Tasks: a task that was told to end yields; closures end.
* Usage: the I/O thread works (weak), the sweep gets its job into the bounded queue
  (strong: it is tried every period and the queue is drained).
* Worker: time, the supervision task, startup and signal polling; nothing of the
  worker's own teardown, which is why the grace period and SIGKILL exist.

## 4. Findings

* `stop_backpressure`. `docs/eng/reference/TRANSPORT-CORE.md:320` says the queue
  "applies backpressure without leaving a partially completed request-driven state
  transition". `stop` cancels the runner and discards the queued path commands and
  their waiters before it reserves its two slots. A stop that returns
  `EventQueueFull` leaves the core Running with a candidate whose command nobody can
  answer, until the next observation or the end of the session.
* `join_teardown`. `detach_stream` (`server/handler.rs:3191`) decides that a stream
  was the last and then waits for the admission lock. A JOIN that attaches meanwhile
  stays attached to a session that is torn down. The comments at lines 1624 and 2339
  say teardown happens when the last stream detaches. The stray stream's data is
  dropped by the ownership check; the client is connected without a tunnel.
* `resume_ghost`. A session that ends (orphan limit, clean close, protocol violation)
  while a resume candidate is attached is never torn down: the old carrier's
  `detach_stream` (`server/handler.rs:3146`) still sees the candidate, and the
  candidate, whose commit is then refused, leaves without `detach_stream`. The session
  stays in the map with its lease and no task that would end it. The comment above
  `detach_stream` says failures before the pump starts cannot leave a lease orphaned.

Met while modelling, and described here without a run of their own:

* A rejection of PREPARE/BIND/COMMIT "always emits ABORT"
  (`TRANSPORT-CORE.md:336`); on a full queue it is refused with `EventQueueFull` and
  nothing is emitted (`transport_core/mod.rs:2338`).
* A client without heartbeat or shaping has no receive deadline
  (`client/mod.rs:11625`): if it gives up a move that the server has committed, it
  stays on the old path until something else fails. `RequestsAreServed` is therefore
  checked for servers that promise downlink traffic (`RxDead`).

## 5. Proofs

| Theorem | States | For every |
|---|---|---|
| `TypeCorrect` | `Spec => []TypeOK` (`ClientCore`) | capacity, capability set, bound |
| `QueueBounded` | `Spec => []QueueWithinCapacity` | capacity of at least two |
| `CurrentCommands` | `Spec => []CommandsAreCurrent` | capacity, capability set, number of calls |
| `NewestObservation` | `Spec => []NewestObservationWins` | the same |
| `RoamCountersBalance` | `Spec => []RoamAccounting` | the same |
| `SeparateGenerations` | `Spec => []GenerationsAreKeptApart` | the same |
| `ClientGenerations` | `AnySpec => []GenerationsAreKeptApart` (`ClientResources`) | the core as the run instantiates it; tasks, waiters, runners and starts beside it |
| `PlatformInStep` | `SystemSpec => []PlatformStaysInStep` (`PlatformPaths`) | the same |
| `ExactWindow` | `Spec => []WindowIsExact` (`PacketCodec`) | word size, number of words, counter limit |
| `ReorderingTolerated` | `Spec => []NoFalseReplay` | the same |
| `ImplementsDelivery` | `Spec => DeliversOnce`, the refinement of `RecordDelivery` | the same |
| `CompleteStop` | `Spec => []StopIsComplete` (`TaskOwnership`) | set of tasks, of blocking ones and of waiters |
| `TrueOutcomes` | `Spec => []OutcomesAreTrue` | the same |
| `FencedRunners` | `AnySpec => RunnersAreFenced` (`ClientResources`) | number of starts and runners |
| `LeasesAreExclusive` | `Spec => []NoAddressLeasedTwice` (`AddressPool`) | range, exclusions, keys, reservations, families |
| `MarksAreLeases`, `StackBound` | allocated set is the leased set; the stack has no address twice and no reserved one | the same |
| `NothingIsLost` | `Spec => []NoAddressLost` | the same |
| `DualGrants` | `Spec => DualOrNothing`, an action property | the same |
| `PoolImplementsLeases` | `Spec => V4Leases`, the refinement of `LeaseTable` | the same |
| `DhcpIsHonest` | `AnySpec => DhcpPromisesHold` (`ServerState`) | clients, users, window, lease and quarantine times |
| `SessionResources` | `Spec => []SessionsOwnTheirResources` (`ServerSessions`) | devices, logins, addresses, networks, sessions, streams, caps |
| `SessionsEndOnTheirOwn` | `Spec => NobodyElseEndsASession`, an action property | the same |
| `SoundHandshakes` | `Spec => []HandshakesAreSound` (`UdpHandshake`) | sources, cap, retry limits, windows |
| `ServerSessionsOwn`, `ServerSessionsEnd`, `ServerHandshakes` | the three theorems above for `AnySpec` of `ServerConnections` | the values of the run |
| `HonouredKicks` | `AnySpec => []KicksAreHonoured` (`ServerConnections`) | streams, tasks, identifiers, payloads, TCP or UDP, cache and lane capacities |
| `HandoverAgreement` | `Spec => []HandoverStaysAgreed` (`UdpHandover`) | paths, transmissions, datagrams |
| `ResumesAccounted` | `AnySpec => []ResumesAreAccountedFor` (`Roaming`) | slots, carriers, epochs, orphan limits |
| `ConsistentRegistry` | `AnySpec => RegistryIsConsistent`, invariants and an action property (`Roaming`) | addresses, session ids, bounds, derivation of connection ids (colliding ones included) |
| `OwnedTunnels` | `AnySpec => []TunnelsAreOwned` (`HostProcesses`) | requests, profiles, processes |
| `SupervisedWorker` | `AnySpec => []WorkerIsSupervised` (`HostProcesses`) | queue length, backoffs, grace period, commands |
| `SafeDialing` | `AnySpec => []DialingIsSafe` (`HostProcesses`) | interfaces, server addresses, tools, leak settings, runs, faults, lookups, moves |
| `EgressClosed` | `AnySpec => EgressStaysClosed`, an action property | the same |
| `RecordedSysctls` | `AnySpec => SysctlsAreOnRecord`, invariants and an action property | knobs, interfaces, file identities, values, processes, faults, reboots |

**Assumptions.** Those of the modules: `CapacityAssumption` (a capacity of at least 2,
which `ClientCore::new` enforces), `CapabilityAssumption`, `BoundAssumption` (the bounds
are natural numbers), `WindowAssumption` (at least one word of at least one bit),
`LimitAssumption`, `PoolAssumption` (reservations are distinct assignable hosts; the
pool's construction refuses others), `TaskAssumption`, `WaiterAssumption`,
`FirewallsAssumption` (the settings are told apart by their names, a rule is not an
address, a tool is that of a family), `SysctlsAssumption` (a knob is the host's or an
interface's, there is one, 0 is no file identity), `DeliveriesAssumption` (a task that
warns does not evict, nobody is called like the absent sender, one receipt is kept) and
`RegistriesAssumption` (the settings are told apart by their names, session ids are
finitely many, the cap is a number). The
components that the runs only instantiate have their assumptions as a hypothesis of the
theorem: `TunnelConstants`, `WorkerConstants`, `RuntimeConstants`, `ResumeConstants`
(numbers are numbers, 0 names nothing), `SessionConstants` (a static address is one of
the pool; no MAC is a device key), `DhcpConstants` (a lease time of at least one tick:
`server/mod.rs:2970` raises a shorter one; VPN users and MACs are different holders),
and `HandshakeConstants` (a reply of at most three times the ClientHello:
`udp_handler.rs:5811` refuses to send a longer one; the counted credit stays below the
mark of a proven address). Every instance of the runs satisfies them.

The bounds of the model (how many calls, faults, packets, messages) are constants like
any other, so the theorems hold for behaviours of any length; in `ClientCore` the
invariants are proved of `AnyCall`, which has no bound at all.

**Queue.** `QueueWithinCapacity` is inductive by itself. Each action adds at most the
slots it reserved; the interesting case is `submit_path_update`, which reserves none
when the command it is going to replace is still queued (`RemovalMakesRoom`,
`SupersedeHasRoom`), and the preempting failures, which keep at most the capacity
less what they push. `TypeOK` is inductive too; it includes that `Stopping` is never
a resting state of the core.

**Path transaction.** `PathInv` is `TypeOK`, the three path properties, and that a
failure is recorded when the rollback begins and only then (`FailedMeansAborting`):
without it a commit could be counted for a candidate already counted as failed.
`GenerationInv` adds to the generations that a device is adopted only by a platform with
the capability. `PlatformInv` is `PathInv` with the adapter's side of it: sequence
numbers are unique, so that an acknowledgement meets its own event; what the pump holds
is a command of the candidate in progress or of one the core has given up
(`CandidatesInStep`); a platform in an unknown state has been reported
(`StateReported`).

**Replay window.** The inductive invariant is `TypeOK`, `CountersAreFresh`,
`WindowIsExact` and "no record delivered more than once". Exactness alone is not
inductive: recording the first record needs that nothing was delivered before, and
advancing needs that nothing above the highest was. The lemmas follow the code: a
distance splits uniquely into a word and a position (`Split`, `SplitUnique`), `SetBit`
and `GetBit` touch one distance (`SetBitAt`, `GetBitAt`), `Shift` by `n` moves the bit
at distance `d` to `d + n` across words (`ShiftAt`), and each branch of
`check_and_record` keeps exactness (`FirstIsExact`, `AdvanceIsExact`, `LateIsExact`).
An accepted record is then fresh (`AcceptedIsFresh`), which gives the refinement, and
a fresh one within the window is accepted (`FreshIsAccepted`).

**Task ownership and runners.** The invariant adds to the two properties that waiters
exist only after the close (`WaitersClosed`), that a returned waiter left nothing behind
(`NothingLeft`), that nobody is alive untold after the close (`NoStragglers`, `Told`)
and that a failure survives a cancelled waiter (`FailuresSurvive`). For the runners,
`RunnersInv` adds that tokens were issued (`TokensAreIssued`), that the attached counters
are those of the current start's only runner (`CurrentIsAttached`), that a stopped core
has cancelled its runner (`StoppedIsQuiet`) and that a waiting plan is newer than every
acknowledged one (`PlansAreNew`). That a device stays in its start needs two more: a start
that has been left is cancelled (`StopsAreFinal`), and the start of a published plan takes
no further runner, so that its only live one is the plan's (`PlansHaveRunners`). From `CurrentIsAttached` it follows that a runner which
finishes late finds other counters attached, and does nothing.

**Address pool.** `FamilyInv` says of one family: leases are exclusive, the allocated
set is the leased set, the stack has no address twice, no reserved one and only ones
the cursor has passed, and a dynamic address is leased, stacked or ahead of the
cursor. Exclusiveness alone is not inductive: taking a host from the stack or the
cursor is safe only because the allocated set is exact. There is a lemma for each
helper (forget, pop, advance the cursor, take, steal) and one per kind of allocation;
the dual-stack transaction composes them.

**DHCP.** `DhcpInv` adds to the promises that the holders of an address differ
(`HoldersDiffer`), that an acknowledged lease has not run out (`AcksRun`) and what the
allocation in progress may rely on although VPN users have been served since its last
stage (`JobIsSound`): the address it is about to grant is its client's already.

**Sessions.** `SessionInv` has the ownership of addresses (`OwnershipInv`: the lock is
exclusive, a live session has the lease of its address, every other lease is the
admission's in progress), the count of streams and of teardowns still owed
(`StreamsAreCounted`: a delayed teardown is always that of a stream that was counted),
the routes (`RoutesAreOwned`) and the reserved room (`RoomIsReserved`: between the
eviction and the insertion of an admission nobody else takes the place). That an
eviction makes enough room is an argument about cardinalities and about the least
session number (`LeastNumber`).

**Handshake.** The code counts bytes per half-open entry, but the property is about the
source, over all entries it ever had. `HandshakeInv` connects them: a partial ClientHello
has earned its reply (`PartialsAreEarned`), the budget of an entry never exceeds what its
source has earned (`BudgetIsEarned`), the entry of an AUTH task shows how far it has come
(`VerdictIsCached`), and whoever was sent an AuthOK is on record, the client and the
datagrams in flight included (`AuthOkIsOnRecord`): a tunnel record that would start a
second AUTH task comes from a client that has the answer. A session is admitted once and
revoked only when its answer is out (`AdmittedOnce`), and handshake numbers are given out
in order (`NumbersAreFresh`): so no step removes an entry before its answer, and a task
whose entry was superseded does not drop the lease of its successor. The steps of the receive loop
are first reduced to what becomes of the datagram (`ReceiveSteps`: held, admitted, turned
away, forgotten, answered, passed over, decrypted), then each conjunct has one step per
case.

**Management messages.** `ManagementInv` rests on one fact: a KICK the client holds, in
its slot or in the hands of a reader, stays held (`KickHeld`). Everything that speaks of
a receipt is then shown to come after it: a receipt in the cache, an acknowledgement a
reader owes, has queued or has sent (`ReceiptsAreHeld`), and a registration that is gone
although its task still waits (`AcknowledgedHasIt`). The last is needed because the
registry is keyed by identifier alone: a task whose registration was taken by an
acknowledgement gives up later by removing whatever stands there, which may be that of a
newer delivery with the same identifier; the newer one then counts as delivered, rightly,
since the client holds a KICK.

**Roaming.** `HandoverInv`: the history of commits is ordered (`HistoryIsOrdered`), a
candidate is for the next epoch (`CandidateIsNext`), every message in flight was sent
for a candidate of its epoch (`MessagesAreGenuine`) and data is only on paths both sides
have (`DataIsCommitted`). `ResumeInv`: generation numbers are fresh, a fallback ticket
has a reaper, the end of a session comes before its removal, a reservation has exactly
one holder, a carrier in a slot was committed. Counting orphans needs that the instance's
`Cardinality` is the library's (`ResumeCardinality`).

`RegistryInv`, of the UDP registry: a live session has one registration, in a directory
entry or in the hands of the one AUTH task that made it (`OneRegistration`); an entry has
the generation, epoch and path of its session (`EntriesAreFiled`); the index holds the
aliases of the live sessions and nothing else (`IndexHolds`); candidates are counted
(`CountHolds`). Registry and worker act one after the other, so what the worker holds
in between is part of it: a challenge and the decision in hand name the session, path and
epoch of the candidate with their token (`ChallengesAgree`, `HandAgrees`), and a response
repeats the token of a challenge (`ResponsesAreChallenged`), which is why a commit was
challenged on its own path. `OneRegistration` needs the lease of the AUTH task: were its
entry evicted and taken by a session that moved to that address, `Attach` would overwrite
it and leave a live session without an owner.

**Processes.** `TunnelInv`: spawning is fenced by the lock and by the admission flag, what
is alive is listed, what is not listed is reaped. `WorkerInv`: the loop owns the worker it
waits for, each wait has a budget that decreases, a deadline is armed once, and an exit
is reported before the next spawn.

**Kill switch.** `FirewallInv` is about one client that issues one command after another,
each of which may fail with or without its effect, and about what an earlier, dead client
left. What `DialingIsSafe` says of a client that dials rests on what holds at every
earlier step: no jump leads to a missing chain (`NoDanglingJump`), a chain is emptied only
when nothing jumps to it (`TeardownOrder`) and is complete before something does
(`BuildOrder`), the guards close whatever was closed when setup began (`GuardsCover`),
what counts as protected is built and every family is closed or allowed to leak
(`ProtectedIsBuilt`), a commit leaves no guard behind (`GuardsGo`), other TUNs have
nothing left (`OthersAreAbsent`), a refresh admits before it withdraws (`RefreshOrder`)
and a stop removes the guards last (`StopOrder`). `EgressClosed` takes the steps that
write, one by one: for each hook a command opens, the invariant names the guard or chain
that still closes it, or the step is one of the designed openings.

**Sysctl journal.** The three parts of `SysctlsAreOnRecord` need one invariant,
`SysctlInv`, because each is safe only by the others. A transaction works on a copy of
the journal that differs from the file only in owners, in what it has restored and in the
entry it adds (`TxIsJournal`); whoever claims a value is an owner of it, on record before
the value is written (`ClaimIsOwned`, `ApplyIsSaved`), and whoever holds one is on record
in both (`HeldIsOwned`), so no other process finds the entry without owners. A live owner
of an interface's entry has its file open (`OwnersHold`), an open file is that of the
entry, and while it is open its identity is not given to another (`PinsAreWitnesses`,
`OpenFile`): that is why a second process may trust a saved identity that matches while a
witness lives, and may not when none does. An untouched knob is as its operator left it,
or its entry says how (`RecordIsBase`, `CurrentIsRead`), and as long as the entry is in the
file it has the entry's original or managed value, the original once a transaction has
taken the entry out (`ValueIsKnown`): that is why the write which forgets the entry leaves
the knob as the operator had it.

**From components to the runs.** The runs' specifications (`AnySpec`) follow one of
several components. Where such a module hands its constants to the component, the
theorem is stated of `AnySpec` directly: a step of the composition is a step of the
component or leaves its variables alone. Two components are instantiated with fixed
values, or twice: the core in `ClientResources`, and sessions and handshakes in
`ServerConnections`. There the general theorem is proved first, for every value of the
constants (`SeparateGenerations`, `SessionResources`, `SessionsEndOnTheirOwn`,
`SoundHandshakes`), and its lemmas are then cited through an INSTANCE of the proof module
with the run's values: one lemma shows that the values satisfy the assumptions
(`CoreConstants`, `ConnectionConstants`), and lemmas such as `SameCoreStep` and
`PASessionsStep` show that the two instances are the same formulas. `ClientGenerations`
and the three `Server...` theorems follow from these. They say no more than the general
ones, but about the formulas that TLC checks.

Each of these invariants was first checked by TLC as an invariant of its component.

**Only model-checked.** Liveness and fairness (`CandidateResolves`, the `progress` run).
`ShiftLoopIsShift` (that the in-place loop computes the word-wise shift),
`UsageIsConserved`, `BuffersAreAccountedFor` and what a finished reassembly contains
(`FragmentsMakeWholeRecords`, `ControlMessagesArriveOnce`): they speak of recursive
functions or of sums over sets and sequences, and need induction over data. Within the
provers' reach and left for section 7: `RoutesAreOnRecord`.

## 6. Not modelled

* Obfuscation, TLS imitation, record shaping: byte encodings, timing, randomness.
  Path MTU discovery: size heuristics; a writer's retry at the floor is modelled.
* The C ABI (`ffi.rs`): marshalling and a handle table around modelled methods.
* Configuration, web API, user interfaces, installers, build and packaging: most of the
  repository's lines, which translate, validate and display data. They act on the
  modelled parts only through the operations modelled here (a reload, a kick, a user
  change, a connect).
* The server's DNS resolver and filters, and the packet pumps of the connection
  handlers: I/O loops whose state is the socket's.
* `ProfileServices`, `WorkerServices` and `SupervisorServices` (task sets joined in a
  fixed order), the 45-second process budget of the worker.
* DNS leases of the client; identity checks of namespaces and TUN devices.
* The 3x byte budget and PMTU tickets of UDP roaming; the legacy single-datagram hello.
* The platforms' routing, DNS and user interface beyond the effect of a path command.

## 7. Plan

Done: the modules of section 2 and the theorems of section 5. What is left, in this
order:

1. The theorem about the routes of the host: `RoutesAreOnRecord` of `HostProcesses`.
2. Path MTU discovery with its tickets, and the byte budget of an unvalidated path.
3. The client's DNS leases on the model of `RouteJournal`.
4. The order in which worker and supervisor services are torn down.
