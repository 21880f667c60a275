---------------------------- MODULE ServerSessions ----------------------------
(***************************************************************************)
(* Who owns a tunnel address on one server profile: authentication over    *)
(* TCP and UDP (src/qeli/src/server/handler.rs, udp_handler.rs), eviction  *)
(* of older sessions, the session map, the address leases and the kernel   *)
(* routes behind a client, with every way a session ends: its last stream, *)
(* a kick (control.rs), quota, expiry or policy (server/mod.rs), the UDP   *)
(* idle reaper.                                                            *)
(*                                                                         *)
(* Everything that changes the map, the leases and the routes together is  *)
(* done under the profile's admission lock, over several awaits; streams   *)
(* come and go, JOINs look a session up and attach later, and sessions are *)
(* flagged from snapshots, all without that lock.                          *)
(*                                                                         *)
(* The pool is the lease table that AddressPool implements, with one       *)
(* address per lease.  Sessions are numbered in the order of admission     *)
(* (connected_at); a number stands for the random session id.  Sessions    *)
(* with authenticated resume are the subject of TcpRoaming.  Deleting a    *)
(* kernel route is assumed to work (the code ignores the error).           *)
(***************************************************************************)
EXTENDS Naturals, FiniteSets

CONSTANTS
  Kinds,          \* transports of the profile: "tcp", "udp"
  Key,            \* device keys
  User,           \* Key -> login
  Fixed,          \* Key -> static address, or NoAddr
  Mac,            \* DHCP clients of the same pool
  Addr,           \* the addresses of the pool
  Subnets,        \* Key -> the client_subnets of its user
  MaxSessions,    \* per login, 0 = no cap
  MaxClients,     \* performance.connection.max_clients
  MaxStreams,     \* bonded streams per session
  Sid,            \* bound: sessions 1..n ever admitted
  MaxJoins        \* bound: JOINs per session

NoAddr == 0
NoSession == 0
Cidr == UNION {Subnets[k] : k \in Key}

VARIABLES
  lock,           \* the admission lock: "free", "admit" or "retire"
  step,           \* how far the admission that holds it has come
  last,           \* the newest session number
  sess,           \* per number: key, addr, kind, revoked
  byIp,           \* the session map
  lease,          \* the pool: device or MAC -> address
  victims,        \* sessions the admission evicts
  retiring,       \* sessions removed by a teardown that still owes the release
  routes,         \* client_routes: network -> owning address
  pendingDel,     \* networks whose kernel route the lock holder still deletes
  kernel,         \* kernel routes into the TUN
  streams,        \* attached streams per session
  lookups,        \* JOINs that found the session
  joining,        \* those that have not attached yet
  primary,        \* per session: "none", "due" after AUTH OK, "over"
  torn,           \* last-stream teardowns waiting for the lock
  flagged         \* snapshots: sessions to evict or to reap

admission == <<lock, step, last, victims, retiring, pendingDel>>
owned == <<byIp, lease, routes, kernel>>
flow == <<streams, lookups, joining, primary, torn>>
vars == <<lock, step, last, sess, byIp, lease, victims, retiring, routes,
          pendingDel, kernel, streams, lookups, joining, primary, torn, flagged>>

Blank == [key |-> CHOOSE k \in Key : TRUE, addr |-> NoAddr, kind |-> "tcp",
          revoked |-> FALSE]

Init ==
  /\ lock = "free" /\ step = "idle" /\ last = 0
  /\ sess = [s \in Sid |-> Blank]
  /\ byIp = [a \in Addr |-> NoSession]
  /\ lease = [k \in Key \cup Mac |-> NoAddr]
  /\ victims = {} /\ retiring = {}
  /\ routes = [c \in Cidr |-> NoAddr] /\ pendingDel = {} /\ kernel = {}
  /\ streams = [s \in Sid |-> 0]
  /\ lookups = [s \in Sid |-> 0] /\ joining = [s \in Sid |-> 0]
  /\ primary = [s \in Sid |-> "none"] /\ torn = [s \in Sid |-> 0]
  /\ flagged = {}

Live == {byIp[a] : a \in Addr} \ {NoSession}
IsCurrent(s) == sess[s].addr # NoAddr /\ byIp[sess[s].addr] = s

Unmapped(S) == [a \in Addr |-> IF byIp[a] \in S THEN NoSession ELSE byIp[a]]
Addresses(S) == {sess[s].addr : s \in S}
RoutesOf(S) == {c \in Cidr : routes[c] \in Addresses(S)}
Unrouted(S) == [c \in Cidr |-> IF c \in RoutesOf(S) THEN NoAddr ELSE routes[c]]
Released(ks) == [k \in DOMAIN lease |-> IF k \in ks THEN NoAddr ELSE lease[k]]
Keys(S) == {sess[s].key : s \in S}
Revoked(S) == [s \in Sid |-> IF s \in S THEN [sess[s] EXCEPT !.revoked = TRUE] ELSE sess[s]]

-----------------------------------------------------------------------------
(* An admission.  self is the session it builds.                           *)

OldestBeyondCap(S, room) ==
  {s \in S : Cardinality({t \in S : t > s}) >= room}

(* supersede_admission_sessions: the device's own sessions, the holder of  *)
(* its static address, and the login's oldest beyond the cap.              *)
Victims(key) ==
  LET mine == {s \in Live : sess[s].key = key}
      holder == {s \in Live : Fixed[key] # NoAddr /\ sess[s].addr = Fixed[key]}
      others == {s \in Live : User[sess[s].key] = User[key]} \ (mine \cup holder)
  IN mine \cup holder
       \cup (IF MaxSessions = 0 THEN {} ELSE OldestBeyondCap(others, MaxSessions - 1))

Begin(key, kind) ==
  /\ lock = "free" /\ last + 1 \in Sid
  /\ lock' = "admit" /\ step' = "evict" /\ last' = last + 1
  /\ sess' = [sess EXCEPT ![last + 1] = [Blank EXCEPT !.key = key, !.kind = kind]]
  /\ victims' = Victims(key)
  /\ UNCHANGED <<owned, retiring, pendingDel, flow, flagged>>

self == last
me == sess[last].key

(* The terminal notice has been delivered or has timed out: revoke, and    *)
(* remove those that are still who they were.                              *)
Evict ==
  LET gone == {s \in victims : IsCurrent(s)} IN
  /\ lock = "admit" /\ step = "evict"
  /\ step' = "capacity"
  /\ sess' = Revoked(victims)
  /\ victims' = gone
  /\ byIp' = Unmapped(gone)
  /\ routes' = Unrouted(gone) /\ pendingDel' = RoutesOf(gone)
  /\ UNCHANGED <<lock, last, lease, retiring, kernel, flow, flagged>>

Unlocked == lock' = "free" /\ step' = "idle" /\ victims' = {}

(* max_clients reached: the evicted devices and this one give up.          *)
TooMany ==
  /\ lock = "admit" /\ step = "capacity" /\ Cardinality(Live) >= MaxClients
  /\ lease' = Released(Keys(victims) \cup {me})
  /\ kernel' = kernel \ pendingDel /\ pendingDel' = {}
  /\ Unlocked
  /\ UNCHANGED <<last, sess, byIp, retiring, routes, flow, flagged>>

Room ==
  /\ lock = "admit" /\ step = "capacity" /\ Cardinality(Live) < MaxClients
  /\ step' = "lease"
  /\ kernel' = kernel \ pendingDel /\ pendingDel' = {}
  /\ UNCHANGED <<lock, last, sess, byIp, lease, victims, retiring, routes, flow, flagged>>

(* One pool lock: give back what was evicted, then take ours, by name from *)
(* whoever holds it, our old one, or any free one.                         *)
Grants(table) ==
  IF Fixed[me] # NoAddr
  THEN {[k \in DOMAIN table |->
           IF k = me THEN Fixed[me] ELSE IF table[k] = Fixed[me] THEN NoAddr ELSE table[k]]}
  ELSE IF table[me] # NoAddr THEN {table}
  ELSE {[table EXCEPT ![me] = a] : a \in Addr \ {table[k] : k \in DOMAIN table}}

GiveBack == Released(Keys(victims) \ {me})

Allocate ==
  /\ lock = "admit" /\ step = "lease"
  /\ lease' \in Grants(GiveBack)
  /\ step' = "insert"
  /\ sess' = [sess EXCEPT ![self].addr = lease'[me]]
  /\ UNCHANGED <<lock, last, byIp, victims, retiring, routes, pendingDel, kernel, flow,
                 flagged>>

Exhausted ==
  /\ lock = "admit" /\ step = "lease" /\ Grants(GiveBack) = {}
  /\ lease' = [GiveBack EXCEPT ![me] = NoAddr]
  /\ Unlocked
  /\ UNCHANGED <<last, sess, byIp, retiring, routes, pendingDel, kernel, flow, flagged>>

(* No wire-record pool, or the usage counters cannot be registered.        *)
SetupFails ==
  /\ lock = "admit" /\ step = "insert"
  /\ lease' = Released({me})
  /\ Unlocked
  /\ UNCHANGED <<last, sess, byIp, retiring, routes, pendingDel, kernel, flow, flagged>>

(* The session goes into the map; an owner found at the address, which     *)
(* admission should have excluded, loses its routes, streams and lease.    *)
(* The client's networks are registered, first claim wins.                 *)
Insert ==
  LET a == sess[self].addr
      old == {byIp[a]} \ {NoSession}
      free == Unrouted(old)
  IN /\ lock = "admit" /\ step = "insert"
     /\ step' = "program"
     /\ byIp' = [byIp EXCEPT ![a] = self]
     /\ sess' = Revoked(old)
     /\ lease' = Released(Keys(old) \ {me})
     /\ kernel' = kernel \ RoutesOf(old)
     /\ routes' = [c \in Cidr |->
                     IF c \in Subnets[me] /\ free[c] = NoAddr THEN a ELSE free[c]]
     /\ UNCHANGED <<lock, last, victims, retiring, pendingDel, flow, flagged>>

Program ==
  /\ lock = "admit" /\ step = "program"
  /\ step' = "answer"
  /\ kernel' = kernel \cup RoutesOf({self})
  /\ UNCHANGED <<lock, last, sess, byIp, lease, victims, retiring, routes, pendingDel,
                 flow, flagged>>

(* Take the session, its routes and its lease back.                        *)
BugRollback ==
  /\ byIp' = Unmapped({self})
  /\ routes' = Unrouted({self}) /\ kernel' = kernel \ RoutesOf({self})
  /\ Unlocked
  /\ UNCHANGED <<last, lease, retiring, pendingDel, flow, flagged>>

Rollback ==
  /\ byIp' = Unmapped({self})
  /\ routes' = Unrouted({self}) /\ kernel' = kernel \ RoutesOf({self})
  /\ lease' = Released({me})
  /\ Unlocked
  /\ UNCHANGED <<last, retiring, pendingDel, flow, flagged>>

(* A host route cannot be owned.                                           *)
ProgramFails ==
  /\ lock = "admit" /\ step = "program" /\ RoutesOf({self}) # {}
  /\ Rollback /\ UNCHANGED sess

(* AUTH OK cannot be delivered before the handshake deadline; only the UDP *)
(* path revokes the session it takes back.                                 *)
AnswerFails ==
  /\ lock = "admit" /\ step = "answer"
  /\ Rollback
  /\ sess' = IF sess[self].kind = "udp" THEN Revoked({self}) ELSE sess

Answer ==
  /\ lock = "admit" /\ step = "answer"
  /\ Unlocked
  /\ primary' = [primary EXCEPT ![self] = IF sess[self].kind = "tcp" THEN "due" ELSE "over"]
  /\ UNCHANGED <<last, sess, owned, retiring, pendingDel, streams, lookups, joining, torn, flagged>>

-----------------------------------------------------------------------------
(* Streams of a TCP session.                                               *)

(* try_add_stream, under the session's streams lock.                       *)
MayAttach(s) == ~sess[s].revoked /\ streams[s] < MaxStreams

Attached(s) == [streams EXCEPT ![s] = IF MayAttach(s) THEN @ + 1 ELSE @]

(* run_stream of the primary; a refusal returns without a detach.          *)
AttachPrimary(s) ==
  /\ primary[s] = "due"
  /\ primary' = [primary EXCEPT ![s] = "over"]
  /\ streams' = Attached(s)
  /\ UNCHANGED <<admission, sess, owned, lookups, joining, torn, flagged>>

(* JOIN: the token leads to a live session with room.                      *)
JoinLookup(s) ==
  /\ s \in Live /\ sess[s].kind = "tcp" /\ primary[s] # "none"
  /\ MayAttach(s) /\ lookups[s] < MaxJoins
  /\ lookups' = [lookups EXCEPT ![s] = @ + 1]
  /\ joining' = [joining EXCEPT ![s] = @ + 1]
  /\ UNCHANGED <<admission, sess, owned, streams, primary, torn, flagged>>

JoinAttach(s) ==
  /\ joining[s] > 0
  /\ joining' = [joining EXCEPT ![s] = @ - 1]
  /\ streams' = Attached(s)
  /\ UNCHANGED <<admission, sess, owned, lookups, primary, torn, flagged>>

(* detach_stream: the stream is gone, the last one owes the teardown.      *)
StreamEnds(s) ==
  /\ streams[s] > 0
  /\ streams' = [streams EXCEPT ![s] = @ - 1]
  /\ torn' = [torn EXCEPT ![s] = IF streams[s] = 1 THEN @ + 1 ELSE @]
  /\ UNCHANGED <<admission, sess, owned, lookups, joining, primary, flagged>>

(* A malformed control frame revokes the session from its own reader.      *)
Violate(s) ==
  /\ streams[s] > 0 /\ ~sess[s].revoked
  /\ sess' = Revoked({s})
  /\ UNCHANGED <<admission, owned, flow, flagged>>

-----------------------------------------------------------------------------
(* The other holders of the lock remove sessions from the map first and    *)
(* release their leases afterwards.                                        *)

Retire(S) ==
  /\ lock = "free" /\ retiring' = S
  /\ lock' = IF S = {} THEN "free" ELSE "retire"
  /\ byIp' = Unmapped(S)
  /\ routes' = Unrouted(S) /\ pendingDel' = RoutesOf(S)
  /\ UNCHANGED <<step, last, lease, victims, kernel>>

Retired ==
  /\ retiring # {}
  /\ lease' = Released(Keys(retiring))
  /\ kernel' = kernel \ pendingDel /\ pendingDel' = {}
  /\ retiring' = {} /\ lock' = IF lock = "retire" THEN "free" ELSE lock
  /\ UNCHANGED <<step, last, sess, byIp, victims, routes, flow, flagged>>

BugTeardown(s) ==
  /\ torn[s] > 0 /\ torn' = [torn EXCEPT ![s] = @ - 1]
  /\ Retire({byIp[sess[s].addr]} \ {NoSession})
  /\ UNCHANGED <<sess, streams, lookups, joining, primary, flagged>>

(* The fire-once teardown after the last stream.                           *)
Teardown(s) ==
  /\ torn[s] > 0 /\ torn' = [torn EXCEPT ![s] = @ - 1]
  /\ Retire({t \in {s} : IsCurrent(t)})
  /\ UNCHANGED <<sess, streams, lookups, joining, primary, flagged>>

(* kick_matching_sessions_on_profile, for one login.  The sessions leave   *)
(* the map before kick_all reaches them; admission is locked throughout,   *)
(* and until its flag is set a stream goes on as before the kick.          *)
Kick(u) ==
  LET S == {s \in Live : User[sess[s].key] = u} IN
  /\ S # {} /\ Retire(S)
  /\ sess' = Revoked(S)
  /\ UNCHANGED <<flow, flagged>>

(* The usage enforcer, the policy scan and the UDP reaper note sessions    *)
(* from a snapshot of the map.                                             *)
Flag(s) ==
  /\ s \in Live \ flagged
  /\ flagged' = flagged \cup {s}
  /\ UNCHANGED <<admission, sess, owned, flow>>

(* Over quota, expired or denied, and still the same session.              *)
Expel(s) ==
  LET S == {t \in {s} : IsCurrent(t)} IN
  /\ s \in flagged /\ flagged' = flagged \ {s}
  /\ Retire(S) /\ sess' = Revoked(S)
  /\ UNCHANGED flow

(* Idle UDP session: the same, and the lease of a device without a live    *)
(* session is released in any case.                                        *)
ReapStale(s) ==
  /\ s \in flagged /\ flagged' = flagged \ {s}
  /\ sess[s].kind = "udp" /\ lock = "free" /\ ~IsCurrent(s)
  /\ lease' = IF sess[s].key \in Keys(Live) THEN lease ELSE Released({sess[s].key})
  /\ UNCHANGED <<admission, sess, byIp, routes, kernel, flow>>

(* DHCP shares the pool and takes no part in admission.                    *)
DhcpLease(m) ==
  /\ lease[m] = NoAddr
  /\ \E a \in Addr \ {lease[k] : k \in DOMAIN lease} : lease' = [lease EXCEPT ![m] = a]
  /\ UNCHANGED <<admission, sess, byIp, routes, kernel, flow, flagged>>

DhcpRelease(m) ==
  /\ lease[m] # NoAddr
  /\ lease' = Released({m})
  /\ UNCHANGED <<admission, sess, byIp, routes, kernel, flow, flagged>>

-----------------------------------------------------------------------------
Admit == \/ Evict \/ TooMany \/ Room \/ Allocate \/ Exhausted \/ SetupFails
         \/ Insert \/ Program \/ ProgramFails \/ AnswerFails \/ Answer

Next ==
  \/ \E key \in Key, kind \in Kinds : Begin(key, kind)
  \/ Evict \/ TooMany \/ Room \/ Allocate \/ Exhausted \/ SetupFails
  \/ Insert \/ Program \/ ProgramFails \/ AnswerFails \/ Answer
  \/ Retired
  \/ \E s \in Sid : \/ AttachPrimary(s) \/ JoinLookup(s) \/ JoinAttach(s)
                    \/ StreamEnds(s) \/ Violate(s) \/ Teardown(s)
                    \/ Flag(s) \/ Expel(s) \/ ReapStale(s)
  \/ \E k \in Key : Kick(User[k])
  \/ \E m \in Mac : DhcpLease(m) \/ DhcpRelease(m)

Spec == Init /\ [][Next]_vars

(* Lock holders go on and release the lock, waiters get their turn, a      *)
(* connection that was answered is run.                                    *)
Fairness ==
  /\ WF_vars(Admit) /\ WF_vars(Retired)
  /\ \A s \in Sid : WF_vars(AttachPrimary(s)) /\ SF_vars(Teardown(s))

-----------------------------------------------------------------------------
TypeOK ==
  /\ lock \in {"free", "admit", "retire"}
  /\ step \in {"idle", "evict", "capacity", "lease", "insert", "program", "answer"}
  /\ last \in Sid \cup {0}
  /\ sess \in [Sid -> [key : Key, addr : Addr \cup {NoAddr}, kind : {"tcp", "udp"},
                       revoked : BOOLEAN]]
  /\ byIp \in [Addr -> Sid \cup {NoSession}]
  /\ lease \in [Key \cup Mac -> Addr \cup {NoAddr}]
  /\ victims \subseteq Sid /\ retiring \subseteq Sid /\ flagged \subseteq Sid
  /\ routes \in [Cidr -> Addr \cup {NoAddr}]
  /\ pendingDel \subseteq Cidr /\ kernel \subseteq Cidr
  /\ streams \in [Sid -> 0..MaxStreams]
  /\ lookups \in [Sid -> 0..MaxJoins] /\ joining \in [Sid -> 0..MaxJoins]
  /\ primary \in [Sid -> {"none", "due", "over"}] /\ torn \in [Sid -> 0..(MaxJoins + 1)]

(* Every session in the map holds the lease of the address it is reached   *)
(* at: no teardown of an older session, no eviction and no allocation for  *)
(* somebody else frees or takes the address of a live session.             *)
LiveSessionsOwnTheirAddress ==
  \A a \in Addr : byIp[a] # NoSession =>
     sess[byIp[a]].addr = a /\ lease[sess[byIp[a]].key] = a

(* No lease without a session: with no admission and no teardown under     *)
(* way, every leased device has a session in the map, whichever step of    *)
(* whichever admission failed.                                             *)
NoOrphanLease ==
  lock = "free" /\ retiring = {} => \A k \in Key : lease[k] # NoAddr => k \in Keys(Live)

(* The kernel routes are those of the live sessions: with the lock free,   *)
(* every registered network belongs to a live session that asked for it,   *)
(* and exactly the registered ones are in the kernel.                      *)
RoutesFollowSessions ==
  lock = "free" =>
     /\ kernel = {c \in Cidr : routes[c] # NoAddr}
     /\ \A c \in kernel : byIp[routes[c]] # NoSession
                            /\ c \in Subnets[sess[byIp[routes[c]]].key]

(* max_clients and max_sessions hold in every state, admissions and        *)
(* evictions in progress included.                                         *)
CapsHold ==
  /\ Cardinality(Live) <= MaxClients
  /\ MaxSessions > 0 => \A k \in Key :
       Cardinality({s \in Live : User[sess[s].key] = User[k]}) <= MaxSessions

(* Together: the map, the leases, the routes and the limits agree.         *)
SessionsOwnTheirResources ==
  /\ TypeOK /\ LiveSessionsOwnTheirAddress /\ NoOrphanLease
  /\ RoutesFollowSessions /\ CapsHold

(* A session leaves the map only on its own account: chosen by the         *)
(* admission under way, flagged itself, kicked, out of streams, or taken   *)
(* back by its own admission; never because a stale snapshot or an old     *)
(* teardown names the address it now has.                                  *)
LeavesOnItsOwn ==
  \A s \in Live : ~(\E a \in Addr : byIp'[a] = s) =>
    \/ s \in victims \cup flagged \/ torn[s] > 0
    \/ s = self /\ step \in {"program", "answer"}
    \/ Kick(User[sess[s].key])

(* No stream attaches to a revoked session, whenever its JOIN looked it    *)
(* up: a kick is final.                                                    *)
NoStreamAfterKick == \A s \in Sid : sess[s].revoked => streams'[s] <= streams[s]

(* Together: what ends a session is its own.                               *)
EndsOnItsOwn == LeavesOnItsOwn /\ NoStreamAfterKick
NobodyElseEndsASession == [][EndsOnItsOwn]_vars

(* A session none of whose streams is left is eventually out of the map,   *)
(* with its address and its max_clients slot.                              *)
EndedSessionsLeave ==
  \A s \in Sid :
    (/\ s \in Live /\ sess[s].kind = "tcp" /\ primary[s] = "over"
     /\ streams[s] = 0 /\ joining[s] = 0)
      ~> (s \notin Live \/ streams[s] + joining[s] > 0)

(* What the comments on run_stream and detach_stream say: the session is   *)
(* torn down when its last stream is gone, so a stream that is attached    *)
(* and not revoked belongs to a session in the map.                        *)
AttachedStreamsHaveASession ==
  \A s \in Sid : streams[s] > 0 /\ ~sess[s].revoked => s \in Live
=============================================================================
