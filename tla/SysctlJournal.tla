---------------------------- MODULE SysctlJournal ----------------------------
(* Host sysctls that several qeli processes need at once, and the journal  *)
(* from which their original values are restored: `client/sysctl.rs` and   *)
(* the descriptors that witness an interface, `client/sysctl/target.rs`.   *)
(*                                                                         *)
(* A transaction holds the lock of the journal from load to its last       *)
(* persist, so there is one at a time; but processes die, administrators   *)
(* write, interfaces are replaced and the host reboots between its steps.  *)
(* A step is one write to the kernel or to the journal. An identity of an  *)
(* interface's sysctl file (inode and ctime) may come back once nobody     *)
(* holds the file open.                                                    *)
EXTENDS Integers, FiniteSets, Functions

CONSTANTS
  Process,
  Global,       \* host-wide knobs (ip_forward)
  Link,         \* per-interface knobs (accept_ra of an uplink)
  Wanted,       \* values a component may ask for
  Identity,     \* identities a sysctl file may have
  MaxStarts, MaxBoot, MaxFaults, MaxMoves

Knob == Global \cup Link
Default == 0    \* what a new interface or a boot sets

VARIABLES
  kernel,    \* kernel[k]: value, file identity and true generation of the object
  boot,      \* boot_id
  disk,      \* sysctls.state: boot and entries
  started,   \* started[p]: start time of p's last incarnation
  alive,
  pinned,    \* pinned[k]: <<owner, generation of the file its cache holds for k's entry>>
  tx,        \* the transaction that holds the lock
  held,      \* history: <<p, k, v>> acquired by p and not released
  base,      \* history: the value the operator or the boot gave the knob
  touched,   \* history: knobs somebody else changed while they were managed; once the
             \* entry is gone, what they then have counts as the operator's choice
  faults, moves

vars == <<kernel, boot, disk, started, alive, pinned, tx, held, base, touched, faults, moves>>

Owner(p) == <<p, started[p]>>
IsAlive(o) == o[1] \in alive /\ started[o[1]] = o[2]
NoEntries == [k \in {} |-> 0]
Without(entries, k) == Restrict(entries, DOMAIN entries \ {k})
Idle == [step |-> "idle"]
Saved == IF disk.boot = boot THEN disk.entries ELSE NoEntries
Owners == UNION {Saved[k].owners : k \in DOMAIN Saved}
Ownerless(entries) == {k \in DOMAIN entries : entries[k].owners = {}}

\* A file that is held open fails once its interface is gone.
Reachable(k, gen) == k \in Global \/ gen = kernel[k].gen
Pins(k, p) == {pin \in pinned[k] : pin[1] = Owner(p)}

Step(s) == tx' = [tx EXCEPT !.step = s]
Fail == tx' = Idle

-----------------------------------------------------------------------------
(* with_journal_scope: load, prune_dead_owners, persist, then the body.    *)

Begin(p, op, k, v) ==
  /\ tx = Idle /\ p \in alive
  /\ tx' = [step |-> "prune", who |-> p, op |-> op, knob |-> k, val |-> v,
            entries |-> Saved, todo |-> {}, unsure |-> FALSE, cur |-> v,
            new |-> FALSE, id |-> 0, file |-> 0]
  /\ held' = IF op = "release" THEN {h \in held : h[1] # p} ELSE held
  /\ UNCHANGED <<kernel, boot, disk, started, alive, pinned, base, touched, faults, moves>>

\* An owner is dropped when it is known to be dead; one that cannot be
\* inspected stays and makes the result uncertain.
Prune(unknown) ==
  /\ tx # Idle /\ tx.step = "prune"
  /\ unknown = {} \/ faults < MaxFaults
  /\ faults' = IF unknown = {} THEN faults ELSE faults + 1
  /\ LET entries == [k \in DOMAIN tx.entries |->
                       [tx.entries[k] EXCEPT !.owners =
                          {o \in @ : o \in unknown \/ IsAlive(o)}]]
     IN tx' = [tx EXCEPT !.entries = entries, !.todo = Ownerless(entries),
                         !.unsure = unknown # {}, !.step = "pruning"]
  /\ UNCHANGED <<kernel, boot, disk, started, alive, pinned, held, base, touched, moves>>

\* restore_if_owned. Without a descriptor of its own the process has no
\* evidence that the interface is still the same.
CanInspect(k) == k \in Link => \E pin \in Pins(k, tx.who) : Reachable(k, pin[2])

MustWrite(k) ==
  /\ tx.entries[k].original # tx.entries[k].managed
  /\ kernel[k].val = tx.entries[k].managed

Restored(k) ==
  tx' = [tx EXCEPT !.entries = Without(@, k), !.todo = @ \ {k}]
NotRestored(k) == tx' = [tx EXCEPT !.todo = @ \ {k}]

RestoreIfOwned(k) ==
  /\ tx # Idle /\ tx.step \in {"pruning", "releasing"} /\ k \in tx.todo
  /\ LET entry == tx.entries[k] IN
     \/ /\ entry.original # entry.managed /\ ~CanInspect(k)
        /\ NotRestored(k) /\ UNCHANGED <<kernel, faults>>
     \/ /\ entry.original = entry.managed \/ (CanInspect(k) /\ ~MustWrite(k))
        /\ Restored(k) /\ UNCHANGED <<kernel, faults>>
     \/ /\ CanInspect(k) /\ MustWrite(k)
        /\ kernel' = [kernel EXCEPT ![k].val = entry.original]
        /\ Restored(k) /\ UNCHANGED faults
     \/ /\ entry.original # entry.managed /\ CanInspect(k) /\ faults < MaxFaults
        /\ \E done \in {FALSE, MustWrite(k)} :
             kernel' = [kernel EXCEPT ![k].val = IF done THEN entry.original ELSE @]
        /\ NotRestored(k) /\ faults' = faults + 1
  /\ UNCHANGED <<boot, disk, started, alive, pinned, held, base, touched, moves>>

\* JournalTransaction::persist: an atomic replacement of the file.
Save(ok, written) ==
  /\ ok => written
  /\ ok \/ faults < MaxFaults
  /\ faults' = IF ok THEN faults ELSE faults + 1
  /\ IF written
     THEN LET lost == DOMAIN Saved \ DOMAIN tx.entries
              new == (DOMAIN tx.entries \ DOMAIN Saved) \cap Link IN
          /\ disk' = [boot |-> boot, entries |-> tx.entries]
          /\ pinned' = [k \in Knob |-> IF k \in new THEN {<<Owner(tx.who), tx.file>>}
                                       ELSE IF k \in lost THEN {} ELSE pinned[k]]
          /\ base' = [k \in Knob |-> IF k \in lost \cap touched THEN kernel[k].val ELSE base[k]]
          /\ touched' = touched \ lost
     ELSE UNCHANGED <<disk, pinned, base, touched>>
  /\ UNCHANGED <<kernel, boot, started, alive, moves>>

PersistPruned(ok, written) ==
  /\ tx # Idle /\ tx.step = "pruning" /\ tx.todo = {}
  /\ Save(ok, written)
  /\ IF ok THEN Step(tx.op) ELSE Fail
  /\ UNCHANGED held

-----------------------------------------------------------------------------
(* acquire_in.                                                             *)

Entry == tx.entries[tx.knob]
Managed == tx.knob \in DOMAIN tx.entries

\* The file of an interface: our own pin, or a fresh open.
OpenTarget ==
  /\ tx # Idle /\ tx.step = "acquire"
  /\ LET own == Pins(tx.knob, tx.who) IN
     IF tx.unsure THEN Fail
     ELSE IF tx.knob \in Global THEN Step("claim")
     ELSE IF Managed /\ own # {}
     THEN \E pin \in own : tx' = [tx EXCEPT !.file = pin[2], !.step = "claim"]
     ELSE tx' = [tx EXCEPT !.id = kernel[tx.knob].id, !.file = kernel[tx.knob].gen,
                           !.step = IF Managed THEN "witness" ELSE "claim"]
  /\ UNCHANGED <<kernel, boot, disk, started, alive, pinned, held, base, touched, faults,
                 moves>>

\* A saved identity counts only while an owner that holds the file is alive,
\* and that is looked at after our own open.
HasWitness == \E o \in Entry.owners : IsAlive(o)

Witness ==
  /\ tx # Idle /\ tx.step = "witness"
  /\ IF HasWitness /\ tx.id = Entry.id
     THEN /\ pinned' = [pinned EXCEPT ![tx.knob] = @ \cup {<<Owner(tx.who), tx.file>>}]
          /\ Step("claim")
     ELSE Fail /\ UNCHANGED pinned
  /\ UNCHANGED <<kernel, boot, disk, started, alive, held, base, touched, faults, moves>>

\* The current value is read and the owner entered.
Claim ==
  /\ tx # Idle /\ tx.step = "claim"
  /\ LET k == tx.knob
         me == Owner(tx.who)
         fresh == [original |-> kernel[k].val, managed |-> tx.val, owners |-> {me},
                   id |-> kernel[k].id, gen |-> kernel[k].gen]
     IN IF ~Reachable(k, tx.file) THEN Fail
        ELSE IF Managed
        THEN IF Entry.managed # tx.val THEN Fail
             ELSE tx' = [tx EXCEPT !.entries[k].owners = @ \cup {me}, !.cur = kernel[k].val,
                                   !.new = me \notin Entry.owners, !.step = "record"]
        ELSE tx' = [tx EXCEPT !.entries = [j \in DOMAIN @ \cup {k} |->
                                             IF j = k THEN fresh ELSE @[j]],
                              !.cur = kernel[k].val, !.new = TRUE, !.step = "record"]
  /\ UNCHANGED <<kernel, boot, disk, started, alive, pinned, held, base, touched, faults,
                 moves>>

PersistClaim(ok, written) ==
  /\ tx # Idle /\ tx.step = "record"
  /\ Save(ok, written)
  /\ IF ~ok THEN Fail /\ UNCHANGED held
     ELSE IF tx.cur # tx.val THEN Step("apply") /\ UNCHANGED held
     ELSE held' = held \cup {<<tx.who, tx.knob, tx.val>>} /\ tx' = Idle

BugDisown(k) == IF tx.new THEN Without(tx.entries, k) ELSE tx.entries
\* The entry stays when its last owner goes: the write may have taken effect.
Disown(k) == IF tx.new THEN [tx.entries EXCEPT ![k].owners = @ \ {Owner(tx.who)}] ELSE tx.entries

\* write_value; a failure gives back the ownership this call added.
Apply ==
  /\ tx # Idle /\ tx.step = "apply"
  /\ LET k == tx.knob IN
     \/ /\ Reachable(k, tx.file)
        /\ kernel' = [kernel EXCEPT ![k].val = tx.val]
        /\ held' = held \cup {<<tx.who, k, tx.val>>} /\ tx' = Idle
        /\ UNCHANGED faults
     \/ /\ Reachable(k, tx.file) /\ faults < MaxFaults
        /\ faults' = faults + 1
        /\ \E done \in BOOLEAN :
             kernel' = [kernel EXCEPT ![k].val = IF done THEN tx.val ELSE @]
        /\ tx' = [tx EXCEPT !.entries = Disown(k), !.step = "undo"]
        /\ UNCHANGED held
     \/ /\ ~Reachable(k, tx.file)
        /\ tx' = [tx EXCEPT !.entries = Disown(k), !.step = "undo"]
        /\ UNCHANGED <<kernel, faults, held>>
  /\ UNCHANGED <<boot, disk, started, alive, pinned, base, touched, moves>>

PersistUndo(ok, written) ==
  /\ tx # Idle /\ tx.step = "undo"
  /\ Save(ok, written) /\ Fail /\ UNCHANGED held

-----------------------------------------------------------------------------
(* release_in and recover_in.                                              *)

Release ==
  /\ tx # Idle /\ tx.step = "release"
  /\ LET entries == [k \in DOMAIN tx.entries |->
                       [tx.entries[k] EXCEPT !.owners = @ \ {Owner(tx.who)}]]
     IN tx' = [tx EXCEPT !.entries = entries, !.todo = Ownerless(entries),
                         !.step = "releasing"]
  /\ UNCHANGED <<kernel, boot, disk, started, alive, pinned, held, base, touched, faults,
                 moves>>

PersistRelease(ok, written) ==
  /\ tx # Idle /\ tx.step = "releasing" /\ tx.todo = {}
  /\ Save(ok, written) /\ Fail /\ UNCHANGED held

\* recover only reports: the pass before it has done the work.
Recover ==
  /\ tx # Idle /\ tx.step = "recover"
  /\ Fail
  /\ UNCHANGED <<kernel, boot, disk, started, alive, pinned, held, base, touched, faults,
                 moves>>

-----------------------------------------------------------------------------
(* The surroundings.                                                       *)

Start(p) ==
  /\ p \notin alive /\ started[p] < MaxStarts
  /\ started' = [started EXCEPT ![p] = @ + 1]
  /\ alive' = alive \cup {p}
  /\ UNCHANGED <<kernel, boot, disk, pinned, tx, held, base, touched, faults, moves>>

\* A killed process loses its descriptors and the lock, not its entries.
Kill(p) ==
  /\ p \in alive
  /\ alive' = alive \ {p}
  /\ pinned' = [k \in Knob |-> pinned[k] \ Pins(k, p)]
  /\ tx' = IF tx # Idle /\ tx.who = p THEN Idle ELSE tx
  /\ held' = {h \in held : h[1] # p}
  /\ UNCHANGED <<kernel, boot, disk, started, base, touched, faults, moves>>

\* Somebody else changes knob k.
Foreign(k) ==
  LET managed == k \in DOMAIN Saved \/ (tx # Idle /\ (tx.knob = k \/ k \in DOMAIN tx.entries))
  IN /\ moves < MaxMoves /\ moves' = moves + 1
     /\ touched' = IF managed THEN touched \cup {k} ELSE touched
     /\ base' = IF managed THEN base ELSE [base EXCEPT ![k] = kernel'[k].val]

AdminSet(k, v) ==
  /\ v # kernel[k].val
  /\ kernel' = [kernel EXCEPT ![k].val = v]
  /\ Foreign(k)
  /\ UNCHANGED <<boot, disk, started, alive, pinned, tx, held, faults>>

\* An identity is free once no process holds the file open.
HeldOpen(k) ==
  (IF k \in DOMAIN Saved /\ pinned[k] # {} THEN {Saved[k].id} ELSE {})
    \cup (IF tx # Idle /\ tx.knob = k /\ tx.id # 0 THEN {tx.id} ELSE {})

ReplaceLink(k, id) ==
  /\ k \in Link /\ id \notin HeldOpen(k)
  /\ kernel' = [kernel EXCEPT ![k] = [val |-> Default, id |-> id, gen |-> @.gen + 1]]
  /\ Foreign(k)
  /\ UNCHANGED <<boot, disk, started, alive, pinned, tx, held, faults>>

Reboot ==
  /\ boot < MaxBoot
  /\ boot' = boot + 1
  /\ kernel' = [k \in Knob |-> [val |-> Default, id |-> kernel[k].id, gen |-> kernel[k].gen + 1]]
  /\ alive' = {} /\ tx' = Idle /\ held' = {} /\ touched' = {}
  /\ pinned' = [k \in Knob |-> {}]
  /\ base' = [k \in Knob |-> Default]
  /\ UNCHANGED <<disk, started, faults, moves>>

-----------------------------------------------------------------------------
Init ==
  /\ kernel = [k \in Knob |-> [val |-> Default, id |-> CHOOSE i \in Identity : TRUE, gen |-> 0]]
  /\ boot = 1
  /\ disk = [boot |-> 1, entries |-> NoEntries]
  /\ started = [p \in Process |-> 0]
  /\ alive = {}
  /\ pinned = [k \in Knob |-> {}]
  /\ tx = Idle
  /\ held = {} /\ base = [k \in Knob |-> Default] /\ touched = {}
  /\ faults = 0 /\ moves = 0

Transact ==
  \/ \E p \in Process, k \in Knob, v \in Wanted : Begin(p, "acquire", k, v)
  \/ \E p \in Process, op \in {"release", "recover"} :
       Begin(p, op, CHOOSE k \in Knob : TRUE, Default)
  \/ \E unknown \in SUBSET Owners : Prune(unknown)
  \/ \E k \in Knob : RestoreIfOwned(k)
  \/ OpenTarget \/ Witness \/ Claim \/ Apply \/ Release \/ Recover
  \/ \E ok, written \in BOOLEAN :
       \/ PersistPruned(ok, written) \/ PersistClaim(ok, written)
       \/ PersistUndo(ok, written) \/ PersistRelease(ok, written)

Surroundings ==
  \/ \E p \in Process : Start(p) \/ Kill(p)
  \/ \E k \in Knob, v \in Wanted \cup {Default} : AdminSet(k, v)
  \/ \E k \in Link, id \in Identity : ReplaceLink(k, id)
  \/ Reboot

Next == Transact \/ Surroundings

Spec == Init /\ [][Next]_vars

-----------------------------------------------------------------------------
(* A value a live component acquired stays until that component releases   *)
(* it: no other component's release, failed acquire, crash or recovery     *)
(* takes it away. Only somebody outside qeli can.                          *)
HeldValuesStay ==
  \A h \in held : h[2] \in touched \/ kernel[h[2]].val = h[3]

(* Write-ahead: whenever the kernel has a value qeli put there, the        *)
(* journal of this boot holds the one to go back to, whichever write       *)
(* failed and whoever died; so a knob that is not on record is as the      *)
(* operator left it, and an entry is dropped only after its original is    *)
(* back. (Unless somebody else changed the knob while it was managed.)     *)
OriginalsAreOnRecord ==
  \A k \in Knob \ touched :
    kernel[k].val # base[k] => /\ k \in DOMAIN Saved
                               /\ Saved[k].original = base[k]
                               /\ Saved[k].gen = kernel[k].gen

(* qeli never writes to an interface other than the one the entry was made *)
(* for, even when the new interface has the same name and identity, and    *)
(* restoring never overwrites a value that is not the managed one          *)
(* (`restore_if_owned`, `target::resolve`).                                *)
WritesOnlyItsOwn ==
  \A k \in Knob :
    kernel'[k].val # kernel[k].val /\ moves' = moves /\ boot' = boot =>
      /\ tx.entries[k].gen = kernel[k].gen
      /\ tx.step \in {"pruning", "releasing"} => kernel[k].val = tx.entries[k].managed
=============================================================================
