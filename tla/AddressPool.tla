------------------------------ MODULE AddressPool ------------------------------
(***************************************************************************)
(* The server's address allocator (src/qeli/src/server/pool.rs): one       *)
(* sparse pool per address family, each with the leases by device key, the *)
(* set of allocated addresses, a stack of released addresses and a cursor  *)
(* over never-tried ground, and the dual-stack transaction over both.      *)
(* Every operation runs under the profile's pool lock.                     *)
(*                                                                         *)
(* The two families run the same algorithm (IpPool and Ipv6Pool).  The     *)
(* loops that pop the stack and advance the cursor are given by the entry  *)
(* they stop at: the topmost usable one, the first usable one.  freed_set  *)
(* holds exactly the entries of the stack and is not a variable.           *)
(***************************************************************************)
EXTENDS Integers, Sequences, FiniteSets

CONSTANTS
  Key,            \* device keys (user, or user and device id)
  Family,         \* the families the profile serves: "v4", "v6"
  Last,           \* the usable hosts are 1..Last (start_ip..end_ip)
  Excluded,       \* network, TUN address, pool.exclude
  Reservation     \* per family: pool.reservation, user -> address

NoAddr == 0
Addr == 1..Last
Assignable == Addr \ Excluded

ReservedIn(f) == {Reservation[f][k] : k \in DOMAIN Reservation[f]}

(* Construction refuses reservations that are not assignable or that two   *)
(* users share.                                                            *)
ASSUME PoolAssumption ==
  /\ Last \in Nat
  /\ Family \subseteq {"v4", "v6"}
  /\ Reservation \in [Family -> UNION {[S -> Assignable] : S \in SUBSET Key}]
  /\ \A f \in Family : \A k, l \in DOMAIN Reservation[f] :
        Reservation[f][k] = Reservation[f][l] => k = l

VARIABLE pool     \* per family: lease, allocated, freed, cursor

vars == <<pool>>

EmptyPool ==
  [lease |-> [k \in Key |-> NoAddr], allocated |-> {}, freed |-> <<>>, cursor |-> 1]

Init == pool = [f \in Family |-> EmptyPool]

-----------------------------------------------------------------------------
(* One family.  An operation yields the set of its outcomes, each a pool   *)
(* and the address granted, NoAddr for None; the set has one element.      *)

Outcome(p, a) == [pool |-> p, addr |-> a]

Stacked(p) == {p.freed[i] : i \in DOMAIN p.freed}

RememberFreed(f, p, a) ==
  IF a \in ReservedIn(f) \/ a \in Stacked(p) THEN p
  ELSE [p EXCEPT !.freed = Append(@, a)]

(* The three tests of the allocation loops.                                *)
Usable(f, p, a) ==
  a \in Assignable /\ a \notin ReservedIn(f) /\ a \notin p.allocated

Assign(p, k, a) ==
  [p EXCEPT !.lease[k] = a, !.allocated = @ \cup {a}]

(* Give up the address the key holds, if any.                              *)
Forget(f, p, k) ==
  IF p.lease[k] = NoAddr THEN p
  ELSE RememberFreed(f, [p EXCEPT !.allocated = @ \ {p.lease[k]},
                                  !.lease[k] = NoAddr], p.lease[k])

BugAllocateFixed(f, p, k, a) ==
  IF a \notin Assignable THEN {Outcome(p, NoAddr)}
  ELSE IF p.lease[k] = a THEN {Outcome(p, a)}
  ELSE {Outcome(Assign(Forget(f, p, k), k, a), a)}

(* allocate_fixed: the address by name, from whoever holds it.             *)
AllocateFixed(f, p, k, a) ==
  IF a \notin Assignable THEN {Outcome(p, NoAddr)}
  ELSE IF p.lease[k] = a THEN {Outcome(p, a)}
  ELSE LET q == Forget(f, p, k)
           robbed == [q EXCEPT !.lease =
                        [h \in Key |-> IF q.lease[h] = a THEN NoAddr ELSE q.lease[h]]]
       IN {Outcome(Assign(robbed, k, a), a)}

BugPopped(f, p, k) ==
  {Outcome([Assign(p, k, p.freed[i]) EXCEPT !.freed = <<>>], p.freed[i]) :
     i \in {j \in DOMAIN p.freed :
              /\ Usable(f, p, p.freed[j])
              /\ \A m \in DOMAIN p.freed : m > j => ~Usable(f, p, p.freed[m])}}

(* Pop the stack to its topmost usable entry.                              *)
Popped(f, p, k) ==
  {Outcome([Assign(p, k, p.freed[i]) EXCEPT !.freed = SubSeq(p.freed, 1, i - 1)],
           p.freed[i]) :
     i \in {j \in DOMAIN p.freed :
              /\ Usable(f, p, p.freed[j])
              /\ \A m \in DOMAIN p.freed : m > j => ~Usable(f, p, p.freed[m])}}

(* Nothing on the stack is usable: it is emptied, and the cursor advances  *)
(* to the first usable address.                                            *)
Advanced(f, p, k) ==
  {Outcome([Assign(p, k, a) EXCEPT !.freed = <<>>, !.cursor = a + 1], a) :
     a \in {b \in Addr :
              /\ b >= p.cursor
              /\ Usable(f, p, b)
              /\ \A c \in Addr : p.cursor <= c /\ c < b => ~Usable(f, p, c)}}

Exhausted(p) == Outcome([p EXCEPT !.freed = <<>>, !.cursor = Last + 1], NoAddr)

Dynamic(f, p, k) ==
  IF \E i \in DOMAIN p.freed : Usable(f, p, p.freed[i]) THEN Popped(f, p, k)
  ELSE IF \E a \in Addr : a >= p.cursor /\ Usable(f, p, a) THEN Advanced(f, p, k)
  ELSE {Exhausted(p)}

(* allocate: idempotent, a reservation by name, else dynamic.              *)
Allocate(f, p, k) ==
  IF p.lease[k] # NoAddr THEN {Outcome(p, p.lease[k])}
  ELSE IF k \in DOMAIN Reservation[f]
       THEN AllocateFixed(f, p, k, Reservation[f][k])
       ELSE Dynamic(f, p, k)

(* allocate_fixed_unclaimed: by name, never by eviction.                   *)
AllocateUnclaimed(f, p, k, a) ==
  IF \E h \in Key : p.lease[h] = a
  THEN {Outcome(p, IF p.lease[k] = a THEN a ELSE NoAddr)}
  ELSE IF a \in ReservedIn(f) THEN {Outcome(p, NoAddr)}
  ELSE AllocateFixed(f, p, k, a)

(* allocate_in_range_excluding: keep an address inside the window, else    *)
(* give it up and scan the window.                                         *)
AllocateInRange(f, p, k, lo, hi, quarantined) ==
  LET Fits(a) == lo <= a /\ a <= hi /\ a \notin quarantined
      q == Forget(f, p, k)
      scanned == {a \in Addr : Fits(a) /\ Usable(f, q, a)}
  IN IF p.lease[k] # NoAddr /\ Fits(p.lease[k])
     THEN {Outcome(p, p.lease[k])}
     ELSE IF scanned = {} THEN {Outcome(q, NoAddr)}
     ELSE {Outcome(Assign(q, k, a), a) :
             a \in {b \in scanned : \A c \in scanned : b <= c}}

-----------------------------------------------------------------------------
(* The operations of IpPool.                                               *)

Families(mode) == IF mode = "dual" THEN {"v4", "v6"} ELSE {mode}

(* What one family contributes: a family that is not renegotiated gives up *)
(* its lease (retain_mode_leases), a requested one grants the fixed or a   *)
(* dynamic address.  The inert v4 pool of a profile with IPv6 only is not  *)
(* modelled: such a profile negotiates no mode that has v4.                *)
Contribution(f, key, mode, fixed) ==
  IF f \notin Family THEN {Outcome(EmptyPool, NoAddr)}
  ELSE IF f \notin Families(mode) THEN {Outcome(Forget(f, pool[f], key), NoAddr)}
  ELSE IF fixed[f] # NoAddr THEN AllocateFixed(f, pool[f], key, fixed[f])
  ELSE Allocate(f, pool[f], key)

Both(v4, v6) == [f \in Family |-> IF f = "v4" THEN v4 ELSE v6]

BugAllocateForMode(key, mode, fixed) ==
  \E v4 \in Contribution("v4", key, mode, fixed),
     v6 \in Contribution("v6", key, mode, fixed) :
    pool' = Both(v4.pool, v6.pool)

(* allocate_for_mode: every requested family is granted, or a failure (a   *)
(* family that is not configured included) restores both pools.            *)
AllocateForMode(key, mode, fixed) ==
  \E v4 \in Contribution("v4", key, mode, fixed),
     v6 \in Contribution("v6", key, mode, fixed) :
    pool' = IF \A f \in Families(mode) : (IF f = "v4" THEN v4 ELSE v6).addr # NoAddr
            THEN Both(v4.pool, v6.pool) ELSE pool

BugReleaseEveryDevice(key) == pool' = [f \in Family |-> EmptyPool]

Release(key) == pool' = [f \in Family |-> Forget(f, pool[f], key)]

(* DHCP shares the IPv4 pool: a requested address, or one of its window.   *)
DhcpRequest(key, a) ==
  /\ "v4" \in Family
  /\ \E out \in AllocateUnclaimed("v4", pool["v4"], key, a) :
       pool' = [pool EXCEPT !["v4"] = out.pool]

DhcpAllocate(key, lo, hi, quarantined) ==
  /\ "v4" \in Family
  /\ \E out \in AllocateInRange("v4", pool["v4"], key, lo, hi, quarantined) :
       pool' = [pool EXCEPT !["v4"] = out.pool]

Modes == {"v4", "v6", "dual"}

Next ==
  \E key \in Key :
    \/ Release(key)
    \/ \E mode \in Modes, fixed \in [Family -> Addr \cup {NoAddr}] :
         AllocateForMode(key, mode, fixed)
    \/ \E a \in Addr : DhcpRequest(key, a)
    \/ \E lo, hi \in Addr, quarantined \in {{}} \cup {{a} : a \in Addr} :
         DhcpAllocate(key, lo, hi, quarantined)

Spec == Init /\ [][Next]_vars

-----------------------------------------------------------------------------
TypeOK ==
  pool \in [Family ->
    [lease : [Key -> Addr \cup {NoAddr}], allocated : SUBSET Addr,
     freed : Seq(Addr), cursor : 1..(Last + 1)]]

(* No address is leased to two keys, over any sequence of fixed, dynamic   *)
(* and windowed allocations, thefts and releases (pool.rs).                *)
NoAddressLeasedTwice ==
  \A f \in Family : \A k, l \in Key :
     pool[f].lease[k] = pool[f].lease[l] /\ pool[f].lease[k] # NoAddr => k = l

(* The allocated set is exactly what the lease map holds, and holds only   *)
(* assignable addresses: a release never leaves an address marked, a theft *)
(* never clears the mark of the address that changed hands.                *)
AllocatedIsLeased ==
  \A f \in Family :
     /\ pool[f].allocated = {pool[f].lease[k] : k \in Key} \ {NoAddr}
     /\ pool[f].allocated \subseteq Assignable

(* The stack of released addresses is bounded by the pool: no address is   *)
(* on it twice, and none that a dynamic allocation could never take.       *)
StackIsBounded ==
  \A f \in Family :
     /\ \A i, j \in DOMAIN pool[f].freed :
           pool[f].freed[i] = pool[f].freed[j] => i = j
     /\ Stacked(pool[f]) \subseteq Assignable \ ReservedIn(f)

(* No address is lost: one that is neither reserved nor leased is on the   *)
(* stack or still ahead of the cursor, so "exhausted" is answered only     *)
(* when every dynamic address is leased.                                   *)
NoAddressLost ==
  \A f \in Family :
     Assignable \ ReservedIn(f) \subseteq
        pool[f].allocated \cup Stacked(pool[f]) \cup (pool[f].cursor .. Last)

(* A dual-stack grant that changes anything leaves the key with an address *)
(* of both families: an exhausted second family gives back what the first  *)
(* had already granted, cursor and stack included (allocate_for_mode).     *)
DualOrNothing ==
  [][\A k \in Key :
       pool' # pool /\ AllocateForMode(k, "dual", [f \in Family |-> NoAddr]) =>
         \A f \in Family : pool'[f].lease[k] # NoAddr]_vars

(* A family implements the lease table that its callers rely on.           *)
V4 == INSTANCE LeaseTable WITH lease <- pool["v4"].lease
V4Leases == V4!Spec
=============================================================================
