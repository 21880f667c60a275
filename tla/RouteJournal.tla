---------------------------- MODULE RouteJournal ----------------------------
(***************************************************************************)
(* Physical routes of the Linux client (src/qeli/src/client/route.rs and   *)
(* route/): carrier pins, bypasses and blackholes a client puts into the   *)
(* kernel's table, and the journal that lets the next process take them    *)
(* out again after a crash.                                                *)
(*                                                                         *)
(* Every client process holds one owner (RouteOwner) with its RAM records; *)
(* all processes share the file client-routes.state under a file lock that *)
(* spans a whole operation.  An intent is written before a route command,  *)
(* a confirmation after it was verified; a confirmed record is delete      *)
(* authority, an intent only reserves the destination.                     *)
(*                                                                         *)
(* A step is one `ip' command or one write of the journal with the query   *)
(* that decides it.  Crashes, reboots, failed queries, lost results of     *)
(* commands and failed writes (which may have reached the disk)            *)
(* happen anywhere, and so do an operator's own route changes.             *)
(***************************************************************************)
EXTENDS Naturals, Sequences, SequencesExt

CONSTANTS
  Client,      \* tunnel interfaces, one process each
  Dest,        \* route destinations (route_key)
  Path,        \* gateway, device and attributes a client asks for
  Other,       \* a path only an operator uses
  MaxGen,      \* bound: owners created per client
  MaxBoot,     \* bound: boots
  MaxMoves,    \* bound: changes by the operator
  MaxFaults    \* bound: failed queries, commands and writes

VARIABLES
  fib,         \* kernel: per destination its route
  boot,        \* the boot id
  disk,        \* client-routes.state
  view,        \* the lock holder's Store (Session.active)
  lock,        \* the client inside an operation, or None
  owner,       \* per client: its RAM entry (Entry and the Lease's flags)
  gen,         \* per client: owners created so far
  job,         \* per client: the operation under way
  faults, moves,
  raced,       \* ghost: destinations the operator changed since last inspected
  installed    \* ghost: <<client, destination, path>> a command really installed

host == <<fib, boot>>
journal == <<disk, view>>
ghosts == <<moves, raced, installed>>
vars == <<host, journal, lock, owner, gen, job, faults, ghosts>>

None == "none"
Failed == "failed"
NoRoute == [by |-> None, gen |-> 0, path |-> None]
Fresh(b) == [boot |-> b, owned |-> [i \in Client |-> {}], pending |-> [i \in Client |-> {}]]
NoOwner == [state |-> None, accepting |-> FALSE, broken |-> FALSE, failed |-> FALSE,
            flushed |-> FALSE, routes |-> {}, pending |-> {}]
Item(kind, d, p, old) == [kind |-> kind, d |-> d, p |-> p, old |-> old]
NoJob == [op |-> None, phase |-> None, list |-> <<>>, stage |-> "look", told |-> FALSE,
          todo |-> <<>>, leave |-> <<>>, done |-> <<>>, gone |-> <<>>, errs |-> FALSE]

Init ==
  /\ fib = [d \in Dest |-> NoRoute] /\ boot = 1
  /\ disk = Fresh(1) /\ view = Fresh(1) /\ lock = None
  /\ owner = [i \in Client |-> NoOwner] /\ gen = [i \in Client |-> 0]
  /\ job = [i \in Client |-> NoJob]
  /\ faults = MaxFaults /\ moves = 0 /\ raced = {} /\ installed = {}

-----------------------------------------------------------------------------
(* The journal: records keyed by destination, one group per client.        *)
Del(R, d) == {r \in R : r[1] # d}
Put(R, d, p) == Del(R, d) \cup {<<d, p>>}
Of(R, d) == {r[2] : r \in {x \in R : x[1] = d}}

(* Store::decode: records of another boot are not this kernel's.           *)
Decode(s) == IF s.boot = boot THEN s ELSE Fresh(boot)

Unclaimed(s, i, d) ==
  \A k \in Client \ {i} : Of(s.owned[k] \cup s.pending[k], d) = {}

Intent(s, i, d, p) == [s EXCEPT !.pending[i] = Put(@, d, p)]
Confirm(s, i, d, p) == [s EXCEPT !.pending[i] = Del(@, d), !.owned[i] = Put(@, d, p)]
ForgetOwned(s, i, d) == [s EXCEPT !.owned[i] = Del(@, d)]
ForgetPending(s, i, d) == [s EXCEPT !.pending[i] = Del(@, d)]

(* Session::edit: a write that reports failure may have been published.    *)
Edit(s, ok) ==
  IF ok THEN disk' = s /\ view' = s
        ELSE disk' \in {disk, s} /\ view' = view

(* journal_result: a failed write stops the owner for good.                *)
Mark(e, ok) == IF ok THEN e ELSE [e EXCEPT !.broken = TRUE, !.accepting = FALSE]
(* An unknown outcome stops admission and reserves the destination.        *)
NotePending(e, d, p) ==
  [e EXCEPT !.accepting = FALSE,
            !.pending = IF Of(@, d) = {} THEN @ \cup {<<d, p>>} ELSE @]
NoteCreated(e, d, p) == [e EXCEPT !.routes = Put(@, d, p)]
ForgetCreated(e, d) == [e EXCEPT !.routes = Del(@, d)]

-----------------------------------------------------------------------------
Cost(b) == IF b THEN 0 ELSE 1
Spend(n) == faults >= n /\ faults' = faults - n
(* An exact-route query: the path it shows, or a failure.                  *)
Sees(d) == {fib[d].path, Failed}
Inspect(d) == raced' = raced \ {d}
Keep(seen) == Cost(seen # Failed)

Start(l) == IF l # <<>> /\ Head(l).kind \in {"put", "swap"} THEN "intent" ELSE "look"
With(j, l) == [j EXCEPT !.list = l, !.stage = Start(l), !.told = FALSE]
Advance(j, errs) == [With(j, Tail(j.list)) EXCEPT !.errs = @ \/ errs]
Abort(j) == [With(j, <<>>) EXCEPT !.errs = TRUE]

Items(kind, R) == SetToSeq({Item(kind, r[1], r[2], None) : r \in R})
Step(name) == [kind |-> name, d |-> None, p |-> None, old |-> None]

Undo(it) ==
  CASE it.kind = "put"  -> <<Item("unadd", it.d, it.p, None)>>
    [] it.kind = "swap" -> <<Item("restore", it.d, it.old, it.p)>>
    [] OTHER            -> <<>>
(* Reverse order: retired carriers come back first, then the candidate's   *)
(* own mutations are undone, then the failed step is verified.             *)
Rollback(j, last) ==
  [With(j, [n \in 1..Len(j.gone) |->
              LET it == Reverse(j.gone)[n] IN Item("restore", it.d, it.p, None)]
           \o FlattenSeq([n \in 1..Len(j.done) |-> Undo(Reverse(j.done)[n])])
           \o last)
     EXCEPT !.phase = "back"]

(* The client i works on an item of one of these kinds, at this stage.     *)
At(i, kinds, stage) ==
  /\ lock = i /\ job[i].list # <<>>
  /\ Head(job[i].list).kind \in kinds /\ job[i].stage = stage

Set(f, i, v) == f' = [f EXCEPT ![i] = v]

-----------------------------------------------------------------------------
(* Operations begin under the lock with a fresh copy of the journal.       *)
Begin(i, op, list) ==
  /\ lock = None /\ lock' = i /\ view' = Decode(disk)
  /\ Set(job, i, With([NoJob EXCEPT !.op = op, !.phase = op], list))
  /\ UNCHANGED <<host, disk, faults, ghosts>>

(* RouteOwner::new_persistent.  An orphaned entry of an earlier owner is   *)
(* released only when nothing it recorded is still there.                  *)
New(i) ==
  /\ gen[i] < MaxGen /\ owner[i].state \in {None, "orphan"}
  /\ owner[i].state = "orphan" =>
       /\ owner[i].flushed
       /\ \A r \in owner[i].routes \cup owner[i].pending : fib[r[1]] = NoRoute
  /\ Set(owner, i, [NoOwner EXCEPT !.state = "new"])
  /\ Set(gen, i, gen[i] + 1)
  /\ Begin(i, "recover", Items("unadd", Decode(disk).owned[i])
                           \o <<Step("durable"), Step("envelope")>>)

(* install_initial_route for one destination.                              *)
Install(i, d, p) ==
  /\ owner[i].accepting
  /\ Begin(i, "install", <<Item("add", d, p, None)>>)
  /\ UNCHANGED <<owner, gen>>

(* commit_with: want maps the candidate's carriers to paths, old are the   *)
(* previous carriers.                                                      *)
Commit(i, want, old) ==
  /\ owner[i].accepting
  /\ Begin(i, "commit",
           SetToSeq({Item("leave", d, None, None) : d \in old \ DOMAIN want})
             \o SetToSeq({Item("plan", d, want[d], None) : d \in DOMAIN want}))
  /\ \A d \in DOMAIN want : Unclaimed(Decode(disk), i, d)
  /\ UNCHANGED <<owner, gen>>

(* cleanup_routes_for_tun: admission stops whatever comes of the rest.     *)
Cleanup(i) ==
  /\ owner[i].state = "live"
  /\ Set(owner, i, [owner[i] EXCEPT !.accepting = FALSE])
  /\ Begin(i, "cleanup", Items("unadd", owner[i].routes) \o <<Step("flush")>>)
  /\ UNCHANGED gen

(* Drop for Lease.                                                         *)
Release(i) ==
  LET e == owner[i]
      clean == e.routes = {} /\ e.pending = {} /\ ~e.failed
  IN /\ e.state = "live" /\ lock # i
     /\ Set(owner, i, IF clean THEN NoOwner
                      ELSE [e EXCEPT !.state = "orphan", !.accepting = FALSE])
     /\ UNCHANGED <<host, journal, lock, gen, job, faults, ghosts>>

-----------------------------------------------------------------------------
(* Planning a commit: what each previous and each wanted carrier is now.   *)
PlanLeave(i) ==
  /\ At(i, {"leave"}, "look")
  /\ LET j == job[i]  it == Head(j.list)  rec == Of(owner[i].routes, it.d) IN
     IF rec = {}
     THEN /\ Set(job, i, Advance(j, FALSE))
          /\ UNCHANGED <<journal, owner, faults, raced>>
     ELSE \E seen \in Sees(it.d), ok \in BOOLEAN :
       LET undo == CHOOSE p \in rec : TRUE
           stale == seen \notin {Failed, undo}
       IN /\ ~ok => stale
          /\ Spend(Keep(seen) + Cost(ok)) /\ Inspect(it.d)
          /\ IF stale THEN Edit(ForgetOwned(view, i, it.d), ok) ELSE UNCHANGED journal
          /\ Set(owner, i, Mark(IF stale /\ ok THEN ForgetCreated(owner[i], it.d)
                                ELSE owner[i], ok))
          /\ Set(job, i,
               IF seen = Failed \/ ~ok THEN Abort(j)
               ELSE IF stale THEN Advance(j, FALSE)
               ELSE [Advance(j, FALSE) EXCEPT
                       !.leave = Append(@, Item("retire", it.d, undo, None))])
  /\ UNCHANGED <<host, lock, gen, moves, installed>>

(* CandidateRouteMutation: only an owned route may be replaced; a matching *)
(* foreign route is used as it is, any other refuses the candidate.        *)
Mutation(rec, seen, it) ==
  IF seen \in rec THEN "swap"
  ELSE IF seen = it.p THEN "keep"
  ELSE IF seen = None THEN "put" ELSE "conflict"

PlanRoute(i) ==
  /\ At(i, {"plan"}, "look")
  /\ LET j == job[i]  it == Head(j.list)  rec == Of(owner[i].routes, it.d) IN
     \E seen \in Sees(it.d), ok \in BOOLEAN :
       LET stale == rec # {} /\ seen # Failed /\ seen \notin rec
           kind == Mutation(rec, seen, it)
       IN /\ ~ok => stale
          /\ Spend(Keep(seen) + Cost(ok)) /\ Inspect(it.d)
          /\ IF stale THEN Edit(ForgetOwned(view, i, it.d), ok) ELSE UNCHANGED journal
          /\ Set(owner, i, Mark(IF stale /\ ok THEN ForgetCreated(owner[i], it.d)
                                ELSE owner[i], ok))
          /\ Set(job, i,
               IF seen = Failed \/ ~ok \/ kind = "conflict" THEN Abort(j)
               ELSE [Advance(j, FALSE) EXCEPT
                       !.todo = Append(@, Item(kind, it.d, it.p, seen))])
  /\ UNCHANGED <<host, lock, gen, moves, installed>>

(* The plan is complete: apply it, then retire the previous carriers.      *)
Planned(i) ==
  /\ lock = i /\ job[i].phase = "commit" /\ job[i].list = <<>> /\ ~job[i].errs
  /\ Set(job, i, [With(job[i], job[i].todo \o job[i].leave) EXCEPT !.phase = "apply"])
  /\ UNCHANGED <<host, journal, lock, owner, gen, faults, ghosts>>

-----------------------------------------------------------------------------
(* A mutation: look (initial routes only), intent, command, verification.  *)
LookInitial(i) ==
  /\ At(i, {"add"}, "look")
  /\ LET j == job[i]  it == Head(j.list) IN
     \E seen \in Sees(it.d) :
       /\ Spend(Keep(seen)) /\ Inspect(it.d)
       /\ Set(job, i, IF Unclaimed(view, i, it.d) /\ seen = None
                      THEN [j EXCEPT !.stage = "intent"] ELSE Advance(j, FALSE))
  /\ UNCHANGED <<host, journal, lock, owner, gen, moves, installed>>

BugBeforeCommand(i) ==
  /\ At(i, {"add", "put", "swap", "restore"}, "intent")
  /\ Set(job, i, [job[i] EXCEPT !.stage = "run"])
  /\ UNCHANGED <<host, journal, lock, owner, gen, faults, ghosts>>
(* before_command: no intent on disk, no command.                          *)
BeforeCommand(i) ==
  /\ At(i, {"add", "put", "swap", "restore"}, "intent")
  /\ LET j == job[i]  it == Head(j.list) IN
     \E ok \in BOOLEAN :
       /\ Spend(Cost(ok)) /\ Edit(Intent(view, i, it.d, it.p), ok)
       /\ Set(owner, i, Mark(owner[i], ok))
       /\ Set(job, i, [j EXCEPT !.stage = IF ok THEN "run" ELSE "see"])
  /\ UNCHANGED <<host, lock, gen, ghosts>>

(* `ip route add' fails on an existing route, `ip route replace' does not; *)
(* its result may be lost.                                                 *)
RunCommand(i) ==
  /\ At(i, {"add", "put", "swap", "restore"}, "run")
  /\ LET j == job[i]  it == Head(j.list)
         replace == it.kind = "swap" \/ (it.kind = "restore" /\ j.told)
     IN \E did, told \in BOOLEAN :
          /\ told => did
          /\ IF replace \/ fib[it.d] = NoRoute THEN Spend(Cost(told))
             ELSE ~did /\ UNCHANGED faults
          /\ fib' = [fib EXCEPT ![it.d] =
                       IF did THEN [by |-> i, gen |-> gen[i], path |-> it.p] ELSE @]
          /\ installed' = IF did THEN installed \cup {<<i, it.d, it.p>>} ELSE installed
          /\ Set(job, i, [j EXCEPT !.stage = "see", !.told = told])
  /\ UNCHANGED <<boot, journal, lock, owner, gen, moves, raced>>

(* Success and a matching route grant ownership, absence retires the       *)
(* intent, anything else reserves the destination.                         *)
SeeInitial(i) ==
  /\ At(i, {"add"}, "see")
  /\ LET j == job[i]  it == Head(j.list) IN
     \E seen \in Sees(it.d), ok \in BOOLEAN :
       /\ ~ok => seen = None \/ (seen = it.p /\ j.told)
       /\ Spend(Keep(seen) + Cost(ok)) /\ Inspect(it.d)
       /\ CASE seen = it.p /\ j.told ->
                 /\ Edit(Confirm(view, i, it.d, it.p), ok)
                 /\ Set(owner, i, Mark(NoteCreated(owner[i], it.d, it.p), ok))
            [] seen = None ->
                 /\ Edit(ForgetPending(view, i, it.d), ok)
                 /\ Set(owner, i, Mark(owner[i], ok))
            [] OTHER ->
                 /\ UNCHANGED journal
                 /\ Set(owner, i, NotePending(owner[i], it.d, it.p))
       /\ Set(job, i, Advance(j, FALSE))
  /\ UNCHANGED <<host, lock, gen, moves, installed>>

(* A candidate's add or replace is applied when the command said so, the   *)
(* route matches, it is confirmed and the FIB resolves through it.         *)
SeeCandidate(i) ==
  /\ At(i, {"put", "swap"}, "see")
  /\ LET j == job[i]  it == Head(j.list)
         same == Item("same", it.d, it.old, it.p)
     IN \E seen \in Sees(it.d), ok, resolves \in BOOLEAN :
       LET matches == j.told /\ seen = it.p
           done == [j EXCEPT !.done = Append(@, it)]
       IN /\ ~ok => matches
          /\ ~resolves => matches /\ ok
          /\ ~j.told => seen # Failed
          /\ Spend(Keep(seen) + Cost(ok) + Cost(resolves))
          /\ IF j.told THEN Inspect(it.d) ELSE UNCHANGED raced
          /\ IF matches THEN Edit(Confirm(view, i, it.d, it.p), ok) ELSE UNCHANGED journal
          /\ Set(owner, i, IF matches THEN Mark(NoteCreated(owner[i], it.d, it.p), ok)
                           ELSE owner[i])
          /\ Set(job, i, IF ~matches \/ ~ok THEN Rollback(j, <<same>>)
                         ELSE IF ~resolves THEN Rollback(done, <<>>)
                         ELSE Advance(done, FALSE))
  /\ UNCHANGED <<host, lock, gen, moves, installed>>

(* A matching foreign route only has to resolve.                           *)
KeepCandidate(i) ==
  /\ At(i, {"keep"}, "look")
  /\ \E resolves \in BOOLEAN :
       LET done == [job[i] EXCEPT !.done = Append(@, Head(job[i].list))]
       IN /\ Spend(Cost(resolves))
          /\ Set(job, i, IF resolves THEN Advance(done, FALSE) ELSE Rollback(done, <<>>))
  /\ UNCHANGED <<host, journal, lock, owner, gen, ghosts>>

-----------------------------------------------------------------------------
(* retire_carrier_route: inspect and delete, then verify and forget.       *)
Deleted(d, did) == fib' = [fib EXCEPT ![d] = IF did THEN NoRoute ELSE @]

RetireFails(i, seen, ok) ==
  LET j == job[i]  it == Head(j.list)  changed == seen \notin {Failed, None, it.p}
  IN /\ ~ok => changed
     /\ IF changed THEN Edit(ForgetOwned(view, i, it.d), ok) ELSE UNCHANGED journal
     /\ Set(owner, i, Mark(IF changed /\ ok THEN ForgetCreated(owner[i], it.d)
                           ELSE owner[i], ok))
     /\ Set(job, i, Rollback(j, <<Item("same", it.d, it.p, it.p)>>))

Retire(i) ==
  /\ At(i, {"retire"}, "look")
  /\ LET j == job[i]  it == Head(j.list) IN
     \E seen \in Sees(it.d), ok, did \in BOOLEAN :
       /\ Inspect(it.d)
       /\ IF seen = it.p
          THEN /\ ok /\ Spend(Cost(did)) /\ Deleted(it.d, did)
               /\ Set(job, i, [j EXCEPT !.stage = "see"])
               /\ UNCHANGED <<journal, owner>>
          ELSE /\ ~did /\ Spend(Keep(seen) + Cost(ok)) /\ UNCHANGED fib
               /\ IF seen = None
                  THEN /\ Edit(ForgetOwned(view, i, it.d), ok)
                       /\ Set(owner, i, Mark(IF ok THEN ForgetCreated(owner[i], it.d)
                                             ELSE owner[i], ok))
                       /\ Set(job, i, Rollback(j, <<Item("same", it.d, it.p, it.p)>>))
                  ELSE RetireFails(i, seen, ok)
  /\ UNCHANGED <<boot, lock, gen, moves, installed>>

Retired(i) ==
  /\ At(i, {"retire"}, "see")
  /\ LET j == job[i]  it == Head(j.list) IN
     \E seen \in Sees(it.d), ok \in BOOLEAN :
       /\ Spend(Keep(seen) + Cost(ok)) /\ Inspect(it.d)
       /\ IF seen = None
          THEN /\ Edit(ForgetOwned(view, i, it.d), ok)
               /\ Set(owner, i, Mark(IF ok THEN ForgetCreated(owner[i], it.d)
                                     ELSE owner[i], ok))
               /\ Set(job, i, IF ok THEN [Advance(j, FALSE) EXCEPT !.gone = Append(@, it)]
                              ELSE Abort(j))
          ELSE RetireFails(i, seen, ok)
  /\ UNCHANGED <<host, lock, gen, moves, installed>>

(* The final verify_plan of a commit may still fail and undo it.           *)
CommitExpires(i) ==
  /\ lock = i /\ job[i].phase = "apply" /\ job[i].list = <<>> /\ ~job[i].errs
  /\ Spend(1) /\ Set(job, i, Rollback(job[i], <<>>))
  /\ UNCHANGED <<host, journal, lock, owner, gen, ghosts>>

-----------------------------------------------------------------------------
(* remove_recorded_route_with and the forget that follows it: in rollback, *)
(* in cleanup and in recovery.  Recovery gives up on a failed write, only  *)
(* a rollback counts a changed route as an error.                          *)
Forget(i, changed, ok) ==
  LET j == job[i]  it == Head(j.list)
  IN /\ Edit(ForgetOwned(view, i, it.d), ok)
     /\ Set(owner, i, Mark(IF ok THEN ForgetCreated(owner[i], it.d) ELSE owner[i], ok))
     /\ Set(job, i, IF ~ok /\ j.op = "recover" THEN Abort(j)
                    ELSE Advance(j, ~ok \/ (changed /\ j.op = "commit")))

RemoveRecorded(i) ==
  /\ At(i, {"unadd"}, "look")
  /\ LET j == job[i]  it == Head(j.list) IN
     \E seen \in Sees(it.d), ok, did \in BOOLEAN :
       /\ Inspect(it.d)
       /\ CASE seen = Failed ->
                 /\ ok /\ ~did /\ Spend(1) /\ UNCHANGED <<fib, journal, owner>>
                 /\ Set(job, i, Advance(j, TRUE))
            [] seen = it.p ->
                 /\ ok /\ Spend(Cost(did)) /\ Deleted(it.d, did)
                 /\ Set(job, i, [j EXCEPT !.stage = "see"]) /\ UNCHANGED <<journal, owner>>
            [] OTHER ->
                 /\ ~did /\ Spend(Cost(ok)) /\ Forget(i, seen # None, ok) /\ UNCHANGED fib
  /\ UNCHANGED <<boot, lock, gen, moves, installed>>

(* A failed or lying delete never discards the record.                     *)
RemovedRecorded(i) ==
  /\ At(i, {"unadd"}, "see")
  /\ LET j == job[i]  it == Head(j.list) IN
     \E seen \in Sees(it.d), ok \in BOOLEAN :
       /\ Inspect(it.d) /\ Spend(Keep(seen) + Cost(ok))
       /\ IF seen \in {Failed, it.p}
          THEN ok /\ UNCHANGED <<journal, owner>> /\ Set(job, i, Advance(j, TRUE))
          ELSE Forget(i, seen # None, ok)
  /\ UNCHANGED <<host, lock, gen, moves, installed>>

-----------------------------------------------------------------------------
(* restore_carrier_snapshot: into an absent destination or over our own    *)
(* candidate only; told remembers a replace until the command runs.        *)
Restore(i) ==
  /\ At(i, {"restore"}, "look")
  /\ LET j == job[i]  it == Head(j.list) IN
     \E seen \in Sees(it.d), ok \in BOOLEAN :
       LET ours == seen # None /\ seen = it.old IN
       /\ Inspect(it.d) /\ Spend(Keep(seen) + Cost(ok))
       /\ CASE seen = Failed ->
                 ok /\ UNCHANGED <<journal, owner>> /\ Set(job, i, Advance(j, TRUE))
            [] seen = it.p ->
                 /\ Edit(Confirm(view, i, it.d, it.p), ok)
                 /\ Set(owner, i, Mark(NoteCreated(owner[i], it.d, it.p), ok))
                 /\ Set(job, i, Advance(j, ~ok))
            [] seen # it.p /\ (seen = None \/ ours) ->
                 /\ ok /\ UNCHANGED <<journal, owner>>
                 /\ Set(job, i, [j EXCEPT !.stage = "intent", !.told = ours])
            [] OTHER ->
                 /\ Edit(ForgetOwned(view, i, it.d), ok)
                 /\ Set(owner, i, Mark(IF ok THEN ForgetCreated(owner[i], it.d)
                                       ELSE owner[i], ok))
                 /\ Set(job, i, Advance(j, TRUE))
  /\ UNCHANGED <<host, lock, gen, moves, installed>>

(* Command status is no evidence of a restoration, only the snapshot is.   *)
Restored(i) ==
  /\ At(i, {"restore"}, "see")
  /\ LET j == job[i]  it == Head(j.list) IN
     \E seen \in Sees(it.d), ok \in BOOLEAN :
       /\ Inspect(it.d) /\ Spend(Keep(seen) + Cost(ok)) /\ (~ok => seen = it.p)
       /\ IF seen = it.p
          THEN /\ Edit(Confirm(view, i, it.d, it.p), ok)
               /\ Set(owner, i, Mark(NoteCreated(owner[i], it.d, it.p), ok))
          ELSE /\ UNCHANGED journal
               /\ Set(owner, i, IF seen = None THEN owner[i]
                                ELSE NotePending(owner[i], it.d, it.p))
       /\ Set(job, i, Advance(j, seen # it.p \/ ~ok))
  /\ UNCHANGED <<host, lock, gen, moves, installed>>

(* verify_failed_route_unchanged: only an unchanged snapshot retires the   *)
(* intent of the failed step; otherwise its destination stays reserved.    *)
VerifyUnchanged(i) ==
  /\ At(i, {"same"}, "look")
  /\ LET j == job[i]  it == Head(j.list) IN
     \E seen \in Sees(it.d), ok \in BOOLEAN :
       /\ Inspect(it.d) /\ Spend(Keep(seen) + Cost(ok)) /\ (~ok => seen = it.p)
       /\ IF seen = it.p
          THEN /\ Edit(ForgetPending(view, i, it.d), ok)
               /\ Set(owner, i, IF ok THEN owner[i]
                                ELSE NotePending(Mark(owner[i], ok), it.d, it.old))
          ELSE /\ UNCHANGED journal
               /\ Set(owner, i, NotePending(owner[i], it.d, it.old))
       /\ Set(job, i, Advance(j, seen # it.p \/ ~ok))
  /\ UNCHANGED <<host, lock, gen, moves, installed>>

-----------------------------------------------------------------------------
(* Cleanup: the tunnel's own routes are flushed, then pending reservations *)
(* and the journal's intents are reconciled.                               *)
Flush(i) ==
  /\ At(i, {"flush"}, "look")
  /\ \E ok \in BOOLEAN :
       /\ Spend(Cost(ok))
       /\ Set(owner, i, [owner[i] EXCEPT !.flushed = ok])
       /\ Set(job, i, [With(job[i], Items("settle", owner[i].pending) \o <<Step("durable")>>)
                         EXCEPT !.errs = @ \/ ~ok])
  /\ UNCHANGED <<host, journal, lock, gen, ghosts>>

(* reconcile_pending: only absence releases a reservation.                 *)
Settle(i) ==
  /\ At(i, {"settle"}, "look")
  /\ LET it == Head(job[i].list) IN
     \E seen \in Sees(it.d) :
       /\ Inspect(it.d) /\ Spend(Keep(seen))
       /\ Set(owner, i, IF seen = None THEN [owner[i] EXCEPT !.pending = Del(@, it.d)]
                        ELSE owner[i])
       /\ Set(job, i, Advance(job[i], seen # None))
  /\ UNCHANGED <<host, journal, lock, gen, moves, installed>>

(* Session::reconcile reads the intents of this client ...                 *)
Durable(i) ==
  /\ At(i, {"durable"}, "look")
  /\ Set(job, i, With(job[i], Items("intent", view.pending[i]) \o Tail(job[i].list)))
  /\ UNCHANGED <<host, journal, lock, owner, gen, faults, ghosts>>

(* A failed write ends the reconciliation with an error; what comes after  *)
(* it, the envelope of a recovery, is still written.                       *)
NotIntent(it) == it.kind # "intent"
GiveUpIntents(j) == [With(j, SelectSeq(j.list, NotIntent)) EXCEPT !.errs = TRUE]

(* ... and forgets those whose destination is absent.                      *)
Reconcile(i) ==
  /\ At(i, {"intent"}, "look")
  /\ LET j == job[i]  it == Head(j.list) IN
     \E seen \in Sees(it.d), ok \in BOOLEAN :
       /\ Inspect(it.d) /\ Spend(Keep(seen) + Cost(ok)) /\ (~ok => seen = None)
       /\ IF seen = None THEN Edit(ForgetPending(view, i, it.d), ok) ELSE UNCHANGED journal
       /\ Set(owner, i, Mark(owner[i], ok))
       /\ Set(job, i, IF ok THEN Advance(j, seen # None) ELSE GiveUpIntents(j))
  /\ UNCHANGED <<host, lock, gen, moves, installed>>

(* The last write of a recovery keeps a synced envelope of this boot.      *)
Envelope(i) ==
  /\ At(i, {"envelope"}, "look")
  /\ \E ok \in BOOLEAN :
       /\ Spend(Cost(ok)) /\ Edit(view, ok)
       /\ Set(job, i, Advance(job[i], ~ok))
  /\ UNCHANGED <<host, lock, owner, gen, ghosts>>

(* verify_absent_tun: recovery with records refuses a tunnel device that   *)
(* is still there.                                                         *)
Refuse(i) ==
  /\ lock = i /\ job[i].op = "recover" /\ ~job[i].errs
  /\ view.owned[i] \cup view.pending[i] # {}
  /\ Spend(1) /\ Set(job, i, Abort(job[i]))
  /\ UNCHANGED <<host, journal, lock, owner, gen, ghosts>>

(* The operation returns: a recovery yields an owner or none at all, a     *)
(* commit whose rollback failed stops admission, a cleanup keeps its       *)
(* result for the lease's end.                                             *)
End(i) ==
  /\ lock = i /\ job[i].list = <<>> /\ (job[i].phase = "commit" => job[i].errs)
  /\ lock' = None /\ Set(job, i, NoJob)
  /\ LET e == owner[i]  errs == job[i].errs IN
     Set(owner, i,
       CASE job[i].op = "recover" ->
              IF errs THEN NoOwner ELSE [NoOwner EXCEPT !.state = "live", !.accepting = TRUE]
         [] job[i].op = "commit" /\ job[i].phase # "commit" /\ errs ->
              [e EXCEPT !.accepting = FALSE]
         [] job[i].op = "cleanup" -> [e EXCEPT !.failed = errs]
         [] OTHER -> e)
  /\ UNCHANGED <<host, journal, gen, faults, ghosts>>

-----------------------------------------------------------------------------
Crash(i) ==
  /\ owner[i].state # None
  /\ Set(owner, i, NoOwner) /\ Set(job, i, NoJob)
  /\ lock' = IF lock = i THEN None ELSE lock
  /\ UNCHANGED <<host, journal, gen, faults, ghosts>>

Reboot ==
  /\ boot < MaxBoot /\ boot' = boot + 1
  /\ fib' = [d \in Dest |-> NoRoute] /\ installed' = {} /\ raced' = {}
  /\ owner' = [i \in Client |-> NoOwner] /\ job' = [i \in Client |-> NoJob]
  /\ lock' = None
  /\ UNCHANGED <<journal, gen, faults, moves>>

(* The operator or another program changes a route by hand.                *)
Operator(d, p) ==
  /\ moves < MaxMoves /\ moves' = moves + 1
  /\ fib' = [fib EXCEPT ![d] = IF p = None THEN NoRoute
                               ELSE [by |-> "operator", gen |-> 0, path |-> p]]
  /\ fib' # fib /\ raced' = raced \cup {d}
  /\ UNCHANGED <<boot, journal, lock, owner, gen, job, faults, installed>>

Work(i) ==
  \/ PlanLeave(i) \/ PlanRoute(i) \/ Planned(i) \/ LookInitial(i) \/ BeforeCommand(i)
  \/ RunCommand(i) \/ SeeInitial(i) \/ SeeCandidate(i) \/ KeepCandidate(i)
  \/ Retire(i) \/ Retired(i) \/ CommitExpires(i) \/ RemoveRecorded(i) \/ RemovedRecorded(i)
  \/ Restore(i) \/ Restored(i) \/ VerifyUnchanged(i) \/ Flush(i) \/ Settle(i)
  \/ Durable(i) \/ Reconcile(i) \/ Envelope(i) \/ Refuse(i) \/ End(i)

Wanted == UNION {[D -> Path] : D \in SUBSET Dest \ {{}}}

Next ==
  \/ \E i \in Client : New(i) \/ Cleanup(i) \/ Release(i) \/ Crash(i) \/ Work(i)
  \/ \E i \in Client, d \in Dest, p \in Path : Install(i, d, p)
  \/ \E i \in Client, want \in Wanted, old \in SUBSET Dest : Commit(i, want, old)
  \/ Reboot
  \/ \E d \in Dest, p \in Path \cup {Other, None} : Operator(d, p)

Spec == Init /\ [][Next]_vars

-----------------------------------------------------------------------------
(* Write-ahead: a route a client put into this kernel is on record for it, *)
(* confirmed or as an intent, through every crash, lost result and failed  *)
(* write: the next process can always find it.                             *)
RoutesAreOnRecord ==
  \A d \in Dest, i \in Client : fib[d].by = i =>
    disk.boot = boot /\ Of(disk.owned[i] \cup disk.pending[i], d) # {}

(* An owner that accepts work has no leftovers: every route in the kernel  *)
(* that its client ever added was added by this owner, not by one before   *)
(* a crash or a failed cleanup.                                            *)
NoLeftovers ==
  \A d \in Dest, i \in Client :
    fib[d].by = i /\ owner[i].state = "live" => fib[d].gen = gen[i]

(* Two clients never hold the same destination on record, so neither can   *)
(* remove or replace the route the other relies on.                        *)
ClaimsAreExclusive ==
  disk.boot = boot =>
    \A d \in Dest : \A i, k \in Client :
      i # k => Of(disk.owned[i] \cup disk.pending[i], d) = {}
               \/ Of(disk.owned[k] \cup disk.pending[k], d) = {}

(* Routes of the operator survive: a client destroys one only if it cannot *)
(* be told from a route the client did install under this boot, or if the  *)
(* operator changed it after the inspection that preceded the command (the *)
(* race the code documents).  An intent whose command never ran, a record  *)
(* of an earlier boot or a changed route is no authority.                  *)
SparesOperatorRoutes ==
  \A d \in Dest :
    fib[d].by = "operator" /\ fib'[d] # fib[d] /\ moves' = moves /\ boot' = boot =>
      \/ d \in raced
      \/ \E i \in Client : <<i, d, fib[d].path>> \in installed

(* A commit that ended without leaving its owner stopped has left no       *)
(* destination in doubt: what the owner records is in the kernel or was    *)
(* changed by the operator, and no intent of it is open on disk.           *)
AcceptingIsSettled ==
  \A i \in Client :
    owner[i].accepting /\ job[i] = NoJob /\ disk.boot = boot =>
      /\ disk.pending[i] = {} /\ owner[i].pending = {}
      /\ disk.owned[i] = owner[i].routes
=============================================================================
