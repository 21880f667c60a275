------------------------------ MODULE DhcpServer ------------------------------
(***************************************************************************)
(* The DHCP service of a profile (src/qeli/src/server/dhcp.rs) on the      *)
(* address pool it shares with the VPN (src/qeli/src/server/pool.rs, here  *)
(* the lease table that AddressPool implements).  The two keep separate    *)
(* records of one fact: the table of DHCP leases, by address, and the      *)
(* pool, by key.                                                           *)
(*                                                                         *)
(* One task serves packets and the reaper's timer in turn.  It drops and   *)
(* takes the pool's lock again between the stages of one allocation, so    *)
(* the VPN's allocations fall in between; each stage is a step.  Times are *)
(* the ticks left; a tick never falls inside the handling of a packet.     *)
(* Packets may be lost on the way and dropped by the rate limiter: then    *)
(* nothing happens.  Parsing and the destination of replies are left out.  *)
(***************************************************************************)
EXTENDS Naturals, FiniteSets

CONSTANTS
  Mac, User,      \* DHCP clients and VPN keys
  Addr, Window,   \* assignable addresses, and those of the DHCP window
  Reserved,       \* reserved for a user by name
  OfferTime, LeaseTime, QuarantineTime,
  MaxPackets      \* bound: packets served

None == 0

VARIABLES
  leases,         \* per address of the window: the client and the time left, or NoLease
  declined,       \* per address: quarantine left
  owner,          \* the shared pool: per key its address, or None
  job,            \* the allocation in progress, or Idle
  acked,          \* per client: the address it was last ACKed, until when (ghost)
  packets         \* packets served so far

vars == <<leases, declined, owner, job, acked, packets>>

NoLease == [mac |-> None, ttl |-> 0]
NoAck == [addr |-> None, ttl |-> 0]
Idle == [at |-> "idle"]
Job(stage, m, pref, offer) == [at |-> stage, mac |-> m, pref |-> pref, offer |-> offer]

Init ==
  /\ leases = [a \in Window |-> NoLease]
  /\ declined = [a \in Window |-> 0]
  /\ owner = [k \in Mac \cup User |-> None]
  /\ job = Idle
  /\ acked = [m \in Mac |-> NoAck]
  /\ packets = 0

Free(a) == \A k \in DOMAIN owner : owner[k] # a
Stage(s) == job' = [job EXCEPT !.at = s]

-----------------------------------------------------------------------------
(* The clock.                                                              *)
Less(n) == IF n = 0 THEN 0 ELSE n - 1
Aged(r, none) == IF r.ttl <= 1 THEN none ELSE [r EXCEPT !.ttl = @ - 1]

Tick ==
  /\ job = Idle
  /\ leases' = [a \in Window |-> [leases[a] EXCEPT !.ttl = Less(@)]]
  /\ declined' = [a \in Window |-> Less(declined[a])]
  /\ acked' = [m \in Mac |-> Aged(acked[m], NoAck)]
  /\ UNCHANGED <<owner, job, packets>>

-----------------------------------------------------------------------------
(* reap_expired_at.                                                        *)
Expired == {a \in Window : leases[a].mac # None /\ leases[a].ttl = 0}
ExpiredMacs == {leases[a].mac : a \in Expired}

Reaped ==
  /\ leases' = [a \in Window |-> IF a \in Expired THEN NoLease ELSE leases[a]]
  /\ owner' = [k \in DOMAIN owner |-> IF k \in ExpiredMacs THEN None ELSE owner[k]]

ReaperTick ==
  /\ job = Idle /\ Expired # {}
  /\ Reaped
  /\ UNCHANGED <<declined, job, acked, packets>>

-----------------------------------------------------------------------------
(* DISCOVER and REQUEST: reap, then allocate_ip.  pref is option 50, or    *)
(* the client's address.                                                   *)
Receive(m, pref, offer) ==
  /\ job = Idle /\ packets < MaxPackets
  /\ packets' = packets + 1
  /\ job' = Job("reuse", m, pref, offer)
  /\ Reaped
  /\ UNCHANGED <<declined, acked>>

Mine == {a \in Window : leases[a].mac = job.mac}
Hold == IF job.offer THEN OfferTime ELSE LeaseTime

(* A repeated DISCOVER does not shorten a committed lease.                 *)
Extended(a) == IF job.offer /\ leases[a].ttl > Hold THEN leases[a].ttl ELSE Hold

Granted(a) == job' = [at |-> "reply", mac |-> job.mac, offer |-> job.offer, ip |-> a,
                      stolen |-> FALSE]

(* The client has a lease, and the pool agrees.                            *)
Reuse(a) ==
  /\ job.at = "reuse" /\ a \in Mine /\ owner[job.mac] = a
  /\ IF ~job.offer /\ job.pref # a
     THEN Granted(None) /\ UNCHANGED leases
     ELSE Granted(a) /\ leases' = [leases EXCEPT ![a].ttl = Extended(a)]
  /\ UNCHANGED <<declined, owner, acked, packets>>

(* The pool gave the address to somebody else: the lease is stale.         *)
Stale(a) ==
  /\ job.at = "reuse" /\ a \in Mine /\ owner[job.mac] # a
  /\ leases' = [leases EXCEPT ![a] = NoLease] /\ Stage("prefer")
  /\ UNCHANGED <<declined, owner, acked, packets>>

NotLeased ==
  /\ job.at = "reuse" /\ Mine = {} /\ Stage("prefer")
  /\ UNCHANGED <<leases, declined, owner, acked, packets>>

BugAskable(a) ==
  /\ a \in Window /\ declined[a] = 0 /\ leases[a] = NoLease /\ owner[job.mac] = None

(* The address may be taken by name: allocate_fixed_unclaimed.             *)
Askable(a) ==
  /\ a \in Window /\ declined[a] = 0 /\ leases[a] = NoLease /\ owner[job.mac] = None
  /\ Free(a) /\ a \notin Reserved

(* The key holds the address and nobody else does, with a lease for Hold.  *)
Take(a) ==
  /\ owner' = [k \in DOMAIN owner |-> IF k = job.mac THEN a
                                      ELSE IF owner[k] = a THEN None ELSE owner[k]]
  /\ leases' = [leases EXCEPT ![a] = [mac |-> job.mac, ttl |-> Hold]]
  /\ Granted(a)

Prefer ==
  /\ job.at = "prefer"
  /\ IF Askable(job.pref) THEN Take(job.pref)
     ELSE /\ (IF job.offer THEN Stage("dynamic") ELSE Granted(None))
          /\ UNCHANGED <<leases, owner>>
  /\ UNCHANGED <<declined, acked, packets>>

(* allocate_in_range_excluding: the first address of the window that       *)
(* nobody holds.                                                           *)
Candidates == {a \in Window : declined[a] = 0 /\ a \notin Reserved /\ Free(a)}

Dynamic ==
  /\ job.at = "dynamic"
  /\ IF Candidates = {} THEN Granted(None) /\ UNCHANGED <<leases, owner>>
     ELSE Take(CHOOSE a \in Candidates : \A b \in Candidates : a <= b)
  /\ UNCHANGED <<declined, acked, packets>>

(* OFFER or nothing; ACK, NAK, or nothing to a REQUEST that names nothing. *)
(* A NAK may be lost, so the client is taken to keep what it has.          *)
Reply ==
  /\ job.at = "reply" /\ job' = Idle
  /\ acked' = IF job.offer \/ job.ip = None \/ job.stolen THEN acked
              ELSE [acked EXCEPT ![job.mac] = [addr |-> job.ip, ttl |-> LeaseTime]]
  /\ UNCHANGED <<leases, declined, owner, packets>>

-----------------------------------------------------------------------------
(* RELEASE and DECLINE of an address.                                      *)
Returned(m, a) ==
  /\ leases' = [leases EXCEPT ![a] = NoLease]
  /\ owner' = IF owner[m] = a THEN [owner EXCEPT ![m] = None] ELSE owner

GiveUp(m, a, quarantine) ==
  /\ job = Idle /\ packets < MaxPackets
  /\ packets' = packets + 1
  /\ acked' = IF acked[m].addr = a THEN [acked EXCEPT ![m] = NoAck] ELSE acked
  /\ IF leases[a].mac = m
     THEN /\ Returned(m, a)
          /\ declined' = IF quarantine THEN [declined EXCEPT ![a] = QuarantineTime] ELSE declined
     ELSE UNCHANGED <<leases, owner, declined>>
  /\ UNCHANGED job

-----------------------------------------------------------------------------
(* The VPN side of the pool: dynamic and static addresses, teardown.       *)
VpnAllocate(u, a) ==
  /\ owner[u] = None /\ Free(a) /\ a \notin Reserved
  /\ owner' = [owner EXCEPT ![u] = a]
  /\ UNCHANGED <<leases, declined, job, acked, packets>>

(* A static address is taken from whoever holds it; a DHCP client is not   *)
(* told.                                                                   *)
VpnFixed(u, a) ==
  /\ owner[u] # a
  /\ owner' = [k \in DOMAIN owner |-> IF k = u THEN a
                                      ELSE IF owner[k] = a THEN None ELSE owner[k]]
  /\ acked' = [m \in Mac |-> IF acked[m].addr = a THEN NoAck ELSE acked[m]]
  /\ job' = IF job.at = "reply" THEN [job EXCEPT !.stolen = @ \/ job.ip = a] ELSE job
  /\ UNCHANGED <<leases, declined, packets>>

VpnRelease(u) ==
  /\ owner[u] # None /\ owner' = [owner EXCEPT ![u] = None]
  /\ UNCHANGED <<leases, declined, job, acked, packets>>

-----------------------------------------------------------------------------
Next ==
  \/ Tick \/ ReaperTick \/ NotLeased \/ Prefer \/ Dynamic \/ Reply
  \/ \E m \in Mac : \/ \E a \in Addr \cup {None}, offer \in BOOLEAN : Receive(m, a, offer)
                    \/ \E a \in Window, q \in BOOLEAN : GiveUp(m, a, q)
  \/ \E a \in Window : Reuse(a) \/ Stale(a)
  \/ \E u \in User : VpnRelease(u) \/ \E a \in Addr : VpnAllocate(u, a) \/ VpnFixed(u, a)

Spec == Init /\ [][Next]_vars

(* The clock runs, the timer is served, and the task finishes a packet.    *)
Fairness ==
  /\ WF_vars(Tick) /\ WF_vars(ReaperTick)
  /\ WF_vars(NotLeased \/ Prefer \/ Dynamic \/ Reply \/ \E a \in Window : Reuse(a) \/ Stale(a))

-----------------------------------------------------------------------------
TypeOK ==
  /\ leases \in [Window -> [mac : Mac \cup {None}, ttl : Nat]]
  /\ declined \in [Window -> Nat] /\ packets \in 0..MaxPackets
  /\ owner \in [Mac \cup User -> Addr \cup {None}]
  /\ \A m \in Mac : owner[m] \in Window \cup {None}
  /\ job.at \in {"idle", "reuse", "prefer", "dynamic", "reply"}
  /\ acked \in [Mac -> [addr : Window \cup {None}, ttl : Nat]]

(* What a client was ACKed is kept for it as long as it was told: neither  *)
(* the reaper, a repeated DISCOVER, a NAKed REQUEST nor another client     *)
(* takes it, only a static address of the VPN.                             *)
AckIsHonoured ==
  \A m \in Mac : LET a == acked[m] IN
    a # NoAck => /\ owner[m] = a.addr
                 /\ leases[a.addr].mac = m /\ leases[a.addr].ttl >= a.ttl

(* An address the pool holds for a DHCP client has a lease that can        *)
(* expire, else it would be lost to everyone for ever.                     *)
NoLeakedAddress ==
  \A m \in Mac : owner[m] # None => leases[owner[m]].mac = m

(* A client has at most one lease, so a lease that expires or is released  *)
(* cannot free the address of a newer one.                                 *)
OneLeasePerClient ==
  \A a, b \in Window : leases[a].mac = leases[b].mac /\ leases[a].mac # None => a = b

(* A declined address is not leased before its quarantine is over.         *)
QuarantineHolds == \A a \in Window : declined[a] > 0 => leases[a] = NoLease

(* All of this together: what a DHCP client was told holds.                *)
PromisesHold ==
  TypeOK /\ AckIsHonoured /\ QuarantineHolds /\ OneLeasePerClient /\ NoLeakedAddress

(* An address never goes from a VPN session straight to a DHCP client: no  *)
(* packet takes what somebody holds.                                       *)
NotTakenFromVpn == \A u \in User, m \in Mac : owner[u] # None => owner'[m] # owner[u]

DhcpPromisesHold == []PromisesHold /\ [][NotTakenFromVpn]_vars

(* Once the clients fall silent, every address comes back: offers that     *)
(* were never requested, leases that went stale, abandoned clients.        *)
AddressesReturn == <>[](\A m \in Mac : owner[m] = None)
=============================================================================
