---------------------------- MODULE ServerProofs ----------------------------
(***************************************************************************)
(* Proofs about the sessions of a server profile (ServerSessions), for any *)
(* number of devices, logins, addresses, networks, sessions and streams,   *)
(* and any limits: the session map, the leases, the kernel routes and the  *)
(* caps agree in every state, and a session ends on its own account only.  *)
(*                                                                         *)
(* The second part is about the UDP handshake that comes before a session  *)
(* (UdpHandshake): what a source costs before it is known, and that an     *)
(* AUTH task keeps the handshake it verifies.                              *)
(***************************************************************************)
EXTENDS ServerSessions, Integers, FiniteSetTheorems, WellFoundedInduction, TLAPS

\* What the profile's configuration guarantees: a static address is one of the
\* pool, a MAC is no device key, 0 is no address and no session.
SessionConstants ==
  /\ Kinds \subseteq {"tcp", "udp"} /\ Key # {} /\ Key \cap Mac = {} /\ 0 \notin Addr
  /\ \A k \in Key : Fixed[k] \in Addr \cup {0}
  /\ Sid \subseteq Nat \ {0} /\ IsFiniteSet(Sid)
  /\ MaxSessions \in Nat /\ MaxClients \in Nat /\ MaxStreams \in Nat /\ MaxJoins \in Nat

Session == [key : Key, addr : Addr \cup {0}, kind : {"tcp", "udp"}, revoked : BOOLEAN]

-----------------------------------------------------------------------------
(* The inductive invariant.                                                *)

\* The type invariant, in two parts: what the lock covers, and the streams.
CoreTypes ==
  /\ lock \in {"free", "admit", "retire"}
  /\ step \in {"idle", "evict", "capacity", "lease", "insert", "program", "answer"}
  /\ last \in Sid \cup {0}
  /\ sess \in [Sid -> Session]
  /\ byIp \in [Addr -> Sid \cup {0}]
  /\ lease \in [Key \cup Mac -> Addr \cup {0}]
  /\ victims \subseteq Sid /\ retiring \subseteq Sid
  /\ routes \in [Cidr -> Addr \cup {0}]
  /\ pendingDel \subseteq Cidr /\ kernel \subseteq Cidr
FlowTypes ==
  /\ flagged \subseteq Sid
  /\ streams \in [Sid -> 0..MaxStreams]
  /\ lookups \in [Sid -> 0..MaxJoins] /\ joining \in [Sid -> 0..MaxJoins]
  /\ primary \in [Sid -> {"none", "due", "over"}] /\ torn \in [Sid -> 0..(MaxJoins + 1)]

\* A teardown is owed for a stream that was attached: by the answered primary, or
\* by a JOIN that had looked the session up.
Due(s) == IF primary[s] = "over" THEN 0 ELSE 1
StreamsAreCounted ==
  /\ \A s \in Sid : /\ joining[s] <= lookups[s]
                    /\ torn[s] + streams[s] + joining[s] + Due(s) <= lookups[s] + 1
  /\ \A s \in Sid : s > last \/ (s = last /\ lock = "admit") => primary[s] = "none"

\* What the admission lock covers: who holds it determines what is in progress.
LockIsExclusive ==
  /\ lock = "free" => retiring = {}
  /\ lock # "admit" => step = "idle" /\ victims = {}
  /\ lock = "admit" => step # "idle" /\ retiring = {} /\ last \in Sid
  /\ lock = "free" \/ (lock = "admit" /\ step # "capacity") => pendingDel = {}

\* The device k has a session in the map.
HasSession(k) == \E a \in Addr : byIp[a] # 0 /\ sess[byIp[a]].key = k

\* No two holders share an address, and no number in the map is yet to be given out.
LeasesAreExclusive ==
  /\ \A j, k \in Key \cup Mac : lease[j] # 0 /\ lease[j] = lease[k] => j = k
  /\ \A a \in Addr : byIp[a] <= last

\* Devices whose sessions were taken out of the map have no other one, and the
\* device that is admitted owns its address before it enters the map.
AdmissionIsClear ==
  /\ \A s \in retiring : ~HasSession(sess[s].key)
  /\ step = "evict" =>
        /\ victims \subseteq Live
        /\ \A s \in Live : sess[s].key = sess[last].key => s \in victims
        /\ Fixed[sess[last].key] # 0 => byIp[Fixed[sess[last].key]] \in victims \cup {0}
  /\ step \in {"evict", "capacity", "lease"} => sess[last].addr = 0
  /\ step \in {"capacity", "lease"} =>
        /\ \A s \in victims : ~HasSession(sess[s].key)
        /\ Fixed[sess[last].key] # 0 => byIp[Fixed[sess[last].key]] = 0
  /\ step \in {"capacity", "lease", "insert"} => ~HasSession(sess[last].key)
  /\ step = "insert" => sess[last].addr # 0 /\ lease[sess[last].key] = sess[last].addr
  /\ step \in {"program", "answer"} => sess[last].addr # 0 /\ byIp[sess[last].addr] = last

\* Whoever holds a lease has a session, or is one the lock's holder will release.
LeasesAreAccountedFor ==
  \A k \in Key : lease[k] # 0 =>
    \/ HasSession(k)
    \/ \E s \in retiring : sess[s].key = k
    \/ lock = "admit" /\ k = sess[last].key
    \/ step \in {"capacity", "lease"} /\ \E s \in victims : sess[s].key = k

\* A registered network belongs to the session at that address; the kernel has
\* those, and the ones the lock's holder still deletes, but not yet those of the
\* session that is being admitted.
Routed == {c \in Cidr : routes[c] # 0}
RoutesHaveOwners ==
  \A c \in Cidr : routes[c] # 0 => byIp[routes[c]] # 0 /\ c \in Subnets[sess[byIp[routes[c]]].key]
RoutesAreOwned ==
  /\ RoutesHaveOwners /\ pendingDel \cap Routed = {}
  /\ step # "program" => kernel = Routed \cup pendingDel
  /\ step = "program" => kernel = {c \in Cidr : routes[c] \notin {0, sess[last].addr}}

\* The live sessions of the login of device k.
LiveOf(k) == {s \in Live : User[sess[s].key] = User[k]}

\* The caps hold, with room for the session that is being admitted.
RoomIsReserved ==
  /\ CapsHold
  /\ step = "evict" /\ MaxSessions > 0 =>
        Cardinality(LiveOf(sess[last].key) \ victims) < MaxSessions
  /\ step \in {"lease", "insert"} => Cardinality(Live) < MaxClients
  /\ step \in {"capacity", "lease", "insert"} /\ MaxSessions > 0 =>
        Cardinality(LiveOf(sess[last].key)) < MaxSessions

OwnershipInv ==
  /\ CoreTypes /\ LockIsExclusive /\ LiveSessionsOwnTheirAddress /\ LeasesAreExclusive
  /\ AdmissionIsClear /\ LeasesAreAccountedFor

SessionInv ==
  /\ OwnershipInv /\ FlowTypes /\ StreamsAreCounted /\ RoutesAreOwned /\ RoomIsReserved

-----------------------------------------------------------------------------
(* What the operators of the model return.                                 *)

\* Some number of a non-empty set is the least.
LEMMA LeastNumber ==
  ASSUME NEW S \in SUBSET Nat, S # {}
  PROVE  \E x \in S : \A y \in S : x <= y
<1> DEFINE R == OpToRel(<, Nat)
<1>1. IsWellFoundedOn(R, Nat)
  BY NatLessThanWellFounded
<1>2. \A x, y \in Nat : x < y => <<x, y>> \in R
  BY DEF OpToRel
<1> HIDE DEF R
<1>3. PICK x \in S : \A y \in S : ~(<<y, x>> \in R)
  BY <1>1, WFMin
<1>4. \A y \in S : ~(y < x)
  BY <1>2, <1>3
<1>5. \A y \in S : x <= y
  BY <1>4
<1> QED
  BY <1>5

\* Evicting the oldest beyond the cap leaves no more than the room there is.
LEMMA NewestFitTheRoom ==
  ASSUME NEW S \in SUBSET Nat, IsFiniteSet(S), NEW room \in Nat
  PROVE  /\ IsFiniteSet(S \ OldestBeyondCap(S, room))
         /\ Cardinality(S \ OldestBeyondCap(S, room)) <= room
<1> DEFINE kept == S \ OldestBeyondCap(S, room)
<1>0. \A s : s \in kept <=> s \in S /\ ~(Cardinality({t \in S : t > s}) >= room)
  BY DEF OldestBeyondCap
<1>1. IsFiniteSet(kept)
  BY FS_Subset
<1> HIDE DEF kept
<1>2. CASE kept = {}
  <2>1. Cardinality(kept) = 0
    BY <1>2, FS_EmptySet
  <2> QED
    BY <1>1, <2>1 DEF kept
<1>3. CASE kept # {}
  <2>1. PICK x \in kept : \A y \in kept : x <= y
    BY <1>0, <1>3, LeastNumber
  <2> DEFINE newer == {t \in S : t > x}
  <2>2. IsFiniteSet(newer) /\ Cardinality(newer) \in Nat
    BY FS_Subset, FS_CardinalityType
  <2>3. Cardinality(newer) < room
    BY <1>0, <2>1, <2>2
  <2>4. kept \ {x} \subseteq newer
    <3>1. ASSUME NEW y \in kept, y # x PROVE y \in S /\ y > x
      <4>1. y \in S /\ y \in Nat /\ x \in Nat
        BY <1>0, <2>1
      <4>2. x <= y
        BY <2>1
      <4> QED
        BY <3>1, <4>1, <4>2
    <3> QED
      BY <3>1
  <2> HIDE DEF newer
  <2>5. Cardinality(kept \ {x}) <= Cardinality(newer)
    BY <2>2, <2>4, FS_Subset
  <2>6. Cardinality(kept \ {x}) = Cardinality(kept) - 1 /\ Cardinality(kept) \in Nat
    BY <1>1, <2>1, FS_RemoveElement, FS_CardinalityType
  <2> QED
    BY <1>1, <2>2, <2>3, <2>5, <2>6 DEF kept
<1> QED
  BY <1>2, <1>3

\* Sessions are numbered from 1.
LEMMA SessionNumbers ==
  ASSUME SessionConstants
  PROVE  Sid \subseteq Nat /\ 0 \notin Sid /\ \A s : s \in Sid \cup {0} => s \in Nat
<1>1. Sid \subseteq Nat \ {0}
  BY DEF SessionConstants
<1>2. \A s \in Sid : s \in Nat /\ s # 0
  BY <1>1
<1>3. 0 \in Nat
  OBVIOUS
<1> QED
  BY <1>2, <1>3, Zenon

\* A fresh session has no address.
LEMMA BlankSession ==
  ASSUME SessionConstants
  PROVE  Blank \in Session /\ Blank.addr = 0
BY DEF SessionConstants, Blank, Session, NoAddr

\* The map names sessions that were numbered.
LEMMA LiveSessions ==
  ASSUME SessionConstants, CoreTypes
  PROVE  /\ \A s : s \in Live <=> s # 0 /\ \E a \in Addr : byIp[a] = s
         /\ Live \subseteq Sid /\ IsFiniteSet(Live) /\ Cardinality(Live) \in Nat
<1>1. \A s : s \in Live <=> s # 0 /\ \E a \in Addr : byIp[a] = s
  BY DEF Live, NoSession
<1>2. Live \subseteq Sid
  BY <1>1 DEF CoreTypes
<1> QED
  BY <1>1, <1>2, FS_Subset, FS_CardinalityType DEF SessionConstants

\* A revocation changes nothing else about a session.
LEMMA RevokedSession ==
  ASSUME CoreTypes, NEW S
  PROVE  /\ Revoked(S) \in [Sid -> Session]
         /\ \A s \in Sid : /\ Revoked(S)[s].key = sess[s].key /\ Revoked(S)[s].addr = sess[s].addr
                           /\ Revoked(S)[s].kind = sess[s].kind
                           /\ sess[s].revoked => Revoked(S)[s].revoked
BY DEF CoreTypes, Revoked, Session

\* What a session was given stays well typed.
LEMMA GrantedLease ==
  ASSUME SessionConstants, CoreTypes, last \in Sid, NEW table \in Grants(GiveBack)
  PROVE  /\ table \in [Key \cup Mac -> Addr \cup {0}]
         /\ table[me] \in Addr
         /\ \A k \in Key \cup Mac : k # me =>
               \/ table[k] = GiveBack[k] \/ (table[k] = 0 /\ GiveBack[k] = Fixed[me])
         /\ Fixed[me] = 0 => \A k \in Key \cup Mac : k # me => table[k] = GiveBack[k]
         /\ Fixed[me] # 0 => \A k \in Key \cup Mac : k # me => table[k] # table[me]
         /\ Fixed[me] = 0 => \/ table[me] = GiveBack[me]
                             \/ \A k \in Key \cup Mac : GiveBack[k] # table[me]
<1> DEFINE old == GiveBack
<1>1. me \in Key /\ Fixed[me] \in Addr \cup {0} /\ 0 \notin Addr
  BY DEF SessionConstants, CoreTypes, Session, me
<1>2. old \in [Key \cup Mac -> Addr \cup {0}] /\ DOMAIN old = Key \cup Mac
  BY DEF CoreTypes, GiveBack, Released, NoAddr
<1> HIDE DEF old
<1>3. CASE Fixed[me] # 0
  <2>1. table = [k \in Key \cup Mac |->
                   IF k = me THEN Fixed[me] ELSE IF old[k] = Fixed[me] THEN 0 ELSE old[k]]
    BY <1>2, <1>3 DEF Grants, NoAddr, old
  <2> QED
    BY <1>1, <1>2, <1>3, <2>1 DEF old
<1>4. CASE Fixed[me] = 0 /\ old[me] # 0
  <2>1. table = old
    BY <1>4 DEF Grants, NoAddr, old
  <2> QED
    BY <1>1, <1>2, <1>4, <2>1 DEF old
<1>5. CASE Fixed[me] = 0 /\ old[me] = 0
  <2>1. PICK a \in Addr \ {old[k] : k \in Key \cup Mac} : table = [old EXCEPT ![me] = a]
    BY <1>2, <1>5 DEF Grants, NoAddr, old
  <2> QED
    BY <1>1, <1>2, <1>5, <2>1 DEF old
<1> QED
  BY <1>3, <1>4, <1>5

-----------------------------------------------------------------------------
(* Every step is well typed, and counts the streams.                       *)

\* A step of a stream, a flag or nothing at all touches neither map nor leases.
Quiet ==
  /\ UNCHANGED <<lock, step, last, victims, retiring, pendingDel, byIp, lease, routes, kernel>>
  /\ \A s \in Sid : sess'[s].key = sess[s].key /\ sess'[s].addr = sess[s].addr

\* A holder of the lock takes the sessions S out of the map.
Removed(S) ==
  /\ lock = "free" /\ retiring' = S /\ lock' = IF S = {} THEN "free" ELSE "retire"
  /\ byIp' = Unmapped(S) /\ routes' = Unrouted(S) /\ pendingDel' = RoutesOf(S)
  /\ UNCHANGED <<step, last, lease, victims, kernel>>
  /\ \A s \in Sid : sess'[s].key = sess[s].key /\ sess'[s].addr = sess[s].addr

\* A step of the streams, of the flags, or none, leaves the lock's state alone.
LEMMA QuietStep ==
  ASSUME SessionConstants, CoreTypes,
         \/ \E s \in Sid : \/ AttachPrimary(s) \/ JoinLookup(s) \/ JoinAttach(s)
                           \/ StreamEnds(s) \/ Violate(s) \/ Flag(s)
         \/ UNCHANGED vars
  PROVE  Quiet /\ sess' \in [Sid -> Session]
<1>0. sess \in [Sid -> Session]
  BY DEF CoreTypes
<1>1. CASE UNCHANGED vars
  BY <1>0, <1>1 DEF vars, Quiet
<1>2. ASSUME NEW s \in Sid,
             \/ AttachPrimary(s) \/ JoinLookup(s) \/ JoinAttach(s) \/ StreamEnds(s) \/ Flag(s)
      PROVE  Quiet /\ sess' \in [Sid -> Session]
  BY <1>0, <1>2 DEF AttachPrimary, JoinLookup, JoinAttach, StreamEnds, Flag, admission, owned, Quiet
<1>3. ASSUME NEW s \in Sid, Violate(s) PROVE Quiet /\ sess' \in [Sid -> Session]
  <2>1. UNCHANGED <<lock, step, last, victims, retiring, pendingDel, byIp, lease, routes, kernel>>
    BY <1>3 DEF Violate, admission, owned
  <2>2. sess' = Revoked({s})
    BY <1>3 DEF Violate
  <2> QED
    BY <2>1, <2>2, RevokedSession DEF Quiet
<1> QED
  BY <1>1, <1>2, <1>3

\* The other holders of the lock remove sessions that are in the map.
LEMMA RemovalStep ==
  ASSUME SessionConstants, CoreTypes, LiveSessionsOwnTheirAddress,
         \/ \E s \in Sid : Teardown(s) \/ Expel(s)
         \/ \E k \in Key : Kick(User[k])
  PROVE  \E S \in SUBSET Live : Removed(S) /\ sess' \in [Sid -> Session]
<1>0. sess \in [Sid -> Session]
  BY DEF CoreTypes
<1>1. ASSUME NEW s \in Sid PROVE {t \in {s} : IsCurrent(t)} \in SUBSET Live
  BY <1>0, LiveSessions DEF IsCurrent, NoAddr, Session, SessionConstants
<1>2. ASSUME NEW s \in Sid, Teardown(s)
      PROVE  \E S \in SUBSET Live : Removed(S) /\ sess' \in [Sid -> Session]
  <2>1. Removed({t \in {s} : IsCurrent(t)}) /\ sess' = sess
    BY <1>2 DEF Teardown, Retire, Removed
  <2> QED
    BY <1>0, <1>1, <2>1
<1>3. ASSUME NEW s \in Sid, Expel(s)
      PROVE  \E S \in SUBSET Live : Removed(S) /\ sess' \in [Sid -> Session]
  <2> DEFINE S == {t \in {s} : IsCurrent(t)}
  <2>1. Retire(S) /\ sess' = Revoked(S)
    BY <1>3 DEF Expel
  <2>2. Removed(S) /\ sess' \in [Sid -> Session]
    BY <2>1, RevokedSession DEF Retire, Removed
  <2> QED
    BY <1>1, <2>2
<1>4. ASSUME NEW k \in Key, Kick(User[k])
      PROVE  \E S \in SUBSET Live : Removed(S) /\ sess' \in [Sid -> Session]
  <2> DEFINE S == {s \in Live : User[sess[s].key] = User[k]}
  <2>1. Retire(S) /\ sess' = Revoked(S)
    BY <1>4 DEF Kick
  <2>2. Removed(S) /\ sess' \in [Sid -> Session]
    BY <2>1, RevokedSession DEF Retire, Removed
  <2> QED
    BY <2>2
<1> QED
  BY <1>2, <1>3, <1>4

\* The type invariant is the two.
LEMMA TypesInParts == TypeOK <=> CoreTypes /\ FlowTypes
BY DEF TypeOK, CoreTypes, FlowTypes, Session, NoAddr, NoSession

\* Streams attach after a lookup or an answer, and are torn down once.
LEMMA StreamStep ==
  ASSUME SessionConstants, CoreTypes, FlowTypes, StreamsAreCounted, NEW s \in Sid,
         AttachPrimary(s) \/ JoinLookup(s) \/ JoinAttach(s) \/ StreamEnds(s) \/ Teardown(s)
  PROVE  FlowTypes' /\ StreamsAreCounted'
<1> USE DEF SessionConstants, FlowTypes
<1>1. /\ last' = last /\ last \in Nat /\ (lock' = "admit" => lock = "admit")
      /\ flagged' \subseteq Sid
  <2>1. last \in Nat
    BY DEF CoreTypes
  <2>2. CASE Teardown(s)
    BY <2>1, <2>2 DEF Teardown, Retire
  <2>3. CASE AttachPrimary(s) \/ JoinLookup(s) \/ JoinAttach(s) \/ StreamEnds(s)
    BY <2>1, <2>3 DEF AttachPrimary, JoinLookup, JoinAttach, StreamEnds, admission
  <2> QED
    BY <2>2, <2>3
<1>2. /\ joining[s] <= lookups[s] /\ torn[s] + streams[s] + joining[s] + Due(s) <= lookups[s] + 1
      /\ s > last \/ (s = last /\ lock = "admit") => primary[s] = "none"
  BY DEF StreamsAreCounted
<1>3. CASE AttachPrimary(s)
  <2>1. streams[s]' \in 0..MaxStreams /\ streams[s]' <= streams[s] + 1
    BY <1>3 DEF AttachPrimary, Attached, MayAttach
  <2>2. /\ primary[s] = "due" /\ primary' = [primary EXCEPT ![s] = "over"]
        /\ streams' = [streams EXCEPT ![s] = streams[s]']
        /\ UNCHANGED <<lookups, joining, torn>>
    BY <1>3 DEF AttachPrimary, Attached
  <2>3. FlowTypes'
    BY <1>1, <2>1, <2>2
  <2>4. StreamsAreCounted'
    BY <1>1, <1>2, <2>1, <2>2 DEF StreamsAreCounted, Due
  <2> QED
    BY <2>3, <2>4
<1>4. CASE JoinLookup(s)
  <2>1. /\ lookups[s] < MaxJoins /\ lookups' = [lookups EXCEPT ![s] = @ + 1]
        /\ joining' = [joining EXCEPT ![s] = @ + 1] /\ UNCHANGED <<streams, primary, torn>>
    BY <1>4 DEF JoinLookup
  <2>2. FlowTypes'
    BY <1>1, <1>2, <2>1
  <2>3. StreamsAreCounted'
    BY <1>1, <1>2, <2>1 DEF StreamsAreCounted, Due
  <2> QED
    BY <2>2, <2>3
<1>5. CASE JoinAttach(s)
  <2>1. streams[s]' \in 0..MaxStreams /\ streams[s]' <= streams[s] + 1
    BY <1>5 DEF JoinAttach, Attached, MayAttach
  <2>2. /\ joining[s] > 0 /\ joining' = [joining EXCEPT ![s] = @ - 1]
        /\ streams' = [streams EXCEPT ![s] = streams[s]']
        /\ UNCHANGED <<lookups, primary, torn>>
    BY <1>5 DEF JoinAttach, Attached
  <2>3. FlowTypes'
    BY <1>1, <2>1, <2>2
  <2>4. StreamsAreCounted'
    BY <1>1, <1>2, <2>1, <2>2 DEF StreamsAreCounted, Due
  <2> QED
    BY <2>3, <2>4
<1>6. CASE StreamEnds(s)
  <2>1. /\ streams[s] > 0 /\ streams' = [streams EXCEPT ![s] = @ - 1]
        /\ torn' = [torn EXCEPT ![s] = IF streams[s] = 1 THEN @ + 1 ELSE @]
        /\ UNCHANGED <<lookups, joining, primary>>
    BY <1>6 DEF StreamEnds
  <2>2. Due(s) \in 0..1
    BY DEF Due
  <2>3. torn[s] + 1 <= MaxJoins + 1
    BY <1>2, <2>1, <2>2
  <2>4. FlowTypes'
    BY <1>1, <2>1, <2>3
  <2>5. StreamsAreCounted'
    BY <1>1, <1>2, <2>1 DEF StreamsAreCounted, Due
  <2> QED
    BY <2>4, <2>5
<1>7. CASE Teardown(s)
  <2>1. /\ torn[s] > 0 /\ torn' = [torn EXCEPT ![s] = @ - 1]
        /\ UNCHANGED <<streams, lookups, joining, primary>>
    BY <1>7 DEF Teardown
  <2>2. FlowTypes'
    BY <1>1, <2>1
  <2>3. StreamsAreCounted'
    BY <1>1, <1>2, <2>1 DEF StreamsAreCounted, Due
  <2> QED
    BY <2>2, <2>3
<1> QED
  BY <1>3, <1>4, <1>5, <1>6, <1>7

\* A step that leaves the streams alone.
LEMMA StreamsKept ==
  ASSUME SessionConstants, CoreTypes, FlowTypes, StreamsAreCounted,
         UNCHANGED flow, flagged' \subseteq Sid,
         \/ last' = last /\ (lock' = "admit" => lock = "admit")
         \/ last' = last + 1
  PROVE  FlowTypes' /\ StreamsAreCounted'
<1> USE DEF SessionConstants, FlowTypes, CoreTypes
<1>1. UNCHANGED <<streams, lookups, joining, primary, torn>>
  BY DEF flow
<1>2. FlowTypes'
  BY <1>1
<1>3. \A s \in Sid : s > last' \/ (s = last' /\ lock' = "admit")
                       => s > last \/ (s = last /\ lock = "admit")
  OBVIOUS
<1>4. StreamsAreCounted'
  BY <1>1, <1>3 DEF StreamsAreCounted, Due
<1> QED
  BY <1>2, <1>4

\* No step attaches a stream that nobody looked up or answered.
LEMMA FlowStep ==
  ASSUME SessionConstants, CoreTypes, FlowTypes, StreamsAreCounted, LockIsExclusive, [Next]_vars
  PROVE  FlowTypes' /\ StreamsAreCounted'
<1> USE DEF FlowTypes
<1>1. CASE UNCHANGED vars
  BY <1>1, StreamsKept DEF vars, flow
<1>2. ASSUME NEW key \in Key, NEW kind \in Kinds, Begin(key, kind)
      PROVE  FlowTypes' /\ StreamsAreCounted'
  BY <1>2, StreamsKept DEF Begin
<1>3. CASE \/ Evict \/ TooMany \/ Room \/ Allocate \/ Exhausted \/ SetupFails
           \/ Insert \/ Program \/ ProgramFails \/ AnswerFails
  BY <1>3, StreamsKept DEF Evict, TooMany, Room, Allocate, Exhausted, SetupFails,
     Insert, Program, ProgramFails, AnswerFails, Rollback, Unlocked
<1>4. CASE Retired
  BY <1>4, StreamsKept DEF Retired
<1>5. CASE Answer
  <2>1. /\ last \in Sid /\ lock = "admit" /\ last' = last /\ lock' = "free"
        /\ primary[last] = "none" /\ \A s \in Sid : s > last => primary[s] = "none"
    BY <1>5 DEF Answer, Unlocked, LockIsExclusive, StreamsAreCounted
  <2>2. /\ primary' \in [Sid -> {"none", "due", "over"}]
        /\ \A s \in Sid : s # last => primary'[s] = primary[s]
        /\ UNCHANGED <<streams, lookups, joining, torn, flagged>>
    BY <1>5, <2>1 DEF Answer, self
  <2>3. StreamsAreCounted'
    BY <2>1, <2>2 DEF StreamsAreCounted, Due, SessionConstants
  <2> QED
    BY <2>2, <2>3
<1>6. ASSUME NEW s \in Sid,
             AttachPrimary(s) \/ JoinLookup(s) \/ JoinAttach(s) \/ StreamEnds(s) \/ Teardown(s)
      PROVE  FlowTypes' /\ StreamsAreCounted'
  BY <1>6, StreamStep
<1>7. ASSUME NEW s \in Sid, Violate(s) \/ Flag(s) \/ Expel(s) \/ ReapStale(s)
      PROVE  FlowTypes' /\ StreamsAreCounted'
  BY <1>7, StreamsKept DEF Violate, Flag, Expel, ReapStale, Retire, admission
<1>8. ASSUME NEW k \in Key, Kick(User[k]) PROVE FlowTypes' /\ StreamsAreCounted'
  BY <1>8, StreamsKept DEF Kick, Retire
<1>9. ASSUME NEW m \in Mac, DhcpLease(m) \/ DhcpRelease(m)
      PROVE  FlowTypes' /\ StreamsAreCounted'
  BY <1>9, StreamsKept DEF DhcpLease, DhcpRelease, admission
<1> QED
  BY <1>1, <1>2, <1>3, <1>4, <1>5, <1>6, <1>7, <1>8, <1>9 DEF Next

-----------------------------------------------------------------------------
(* Who owns which address: one lemma per holder of the lock.               *)

\* A device has one session in the map, at the address it holds.
LEMMA OneSessionEach ==
  ASSUME SessionConstants, CoreTypes, LiveSessionsOwnTheirAddress
  PROVE  /\ \A a \in Addr : byIp[a] # 0 =>
              byIp[a] \in Sid /\ sess[byIp[a]].addr = a /\ lease[sess[byIp[a]].key] = a
                /\ sess[byIp[a]].key \in Key
         /\ \A a, b \in Addr : byIp[a] # 0 /\ byIp[b] # 0 /\ sess[byIp[a]].key = sess[byIp[b]].key
              => a = b
BY DEF CoreTypes, LiveSessionsOwnTheirAddress, Session, NoSession

\* Streams and flags do not change who owns what.
LEMMA QuietOwnership ==
  ASSUME SessionConstants, OwnershipInv, Quiet, sess' \in [Sid -> Session]
  PROVE  OwnershipInv'
<1> USE DEF SessionConstants, OwnershipInv
<1>1. /\ UNCHANGED <<lock, step, last, victims, retiring, pendingDel, byIp, lease, routes, kernel>>
      /\ \A s \in Sid : sess'[s].key = sess[s].key /\ sess'[s].addr = sess[s].addr
  BY DEF Quiet
<1>2. CoreTypes' /\ LockIsExclusive' /\ LeasesAreExclusive'
  BY <1>1 DEF CoreTypes, LockIsExclusive, LeasesAreExclusive
<1>3. LiveSessionsOwnTheirAddress'
  BY <1>1 DEF LiveSessionsOwnTheirAddress, CoreTypes, NoSession
<1>4. ASSUME NEW k PROVE HasSession(k)' <=> HasSession(k)
  <2>1. \A a \in Addr : byIp[a] # 0 => sess'[byIp[a]].key = sess[byIp[a]].key
    BY <1>1 DEF CoreTypes
  <2> QED
    BY <1>1, <2>1 DEF HasSession
<1>5. Live' = Live /\ Live \subseteq Sid
  BY <1>1 DEF Live, CoreTypes, NoSession
<1>6. AdmissionIsClear'
  BY <1>1, <1>4, <1>5 DEF AdmissionIsClear, CoreTypes, LockIsExclusive
<1>7. LeasesAreAccountedFor'
  BY <1>1, <1>4 DEF LeasesAreAccountedFor, CoreTypes, LockIsExclusive
<1> QED
  BY <1>2, <1>3, <1>6, <1>7

\* A new admission takes the next number and chooses whom it evicts.
LEMMA BeginOwnership ==
  ASSUME SessionConstants, OwnershipInv, NEW key \in Key, NEW kind \in Kinds, Begin(key, kind)
  PROVE  OwnershipInv'
<1> USE DEF SessionConstants, OwnershipInv
<1>1. /\ lock = "free" /\ last + 1 \in Sid /\ lock' = "admit" /\ step' = "evict"
      /\ last' = last + 1 /\ victims' = Victims(key)
      /\ UNCHANGED <<byIp, lease, routes, kernel, retiring, pendingDel>>
  BY DEF Begin, owned
<1>2. /\ sess' \in [Sid -> Session] /\ sess'[last'].key = key /\ sess'[last'].addr = 0
      /\ \A s \in Sid : s # last' => sess'[s] = sess[s]
  <2>1. [Blank EXCEPT !.key = key, !.kind = kind] \in Session
    BY BlankSession DEF Session
  <2>2. /\ [Blank EXCEPT !.key = key, !.kind = kind].key = key
        /\ [Blank EXCEPT !.key = key, !.kind = kind].addr = 0
    BY BlankSession DEF Session
  <2>3. sess' = [sess EXCEPT ![last + 1] = [Blank EXCEPT !.key = key, !.kind = kind]]
    BY DEF Begin
  <2> HIDE DEF SessionConstants
  <2> QED
    BY <1>1, <2>1, <2>2, <2>3 DEF CoreTypes
<1>3. retiring = {} /\ step = "idle" /\ victims = {} /\ pendingDel = {}
  BY <1>1 DEF LockIsExclusive
<1>4. \A a \in Addr : byIp[a] # last' /\ (byIp[a] # 0 => byIp[a] \in Sid) /\ byIp[a] <= last'
  <2>1. \A a \in Addr : byIp[a] \in Sid \cup {0} /\ byIp[a] <= last
    BY DEF LeasesAreExclusive, CoreTypes
  <2>2. last \in Nat /\ last' = last + 1
    BY <1>1 DEF CoreTypes
  <2>3. \A a \in Addr : byIp[a] \in Nat
    BY <2>1, SessionNumbers, Zenon
  <2>4. ASSUME NEW a \in Addr PROVE byIp[a] # last' /\ byIp[a] <= last'
    BY <2>1, <2>2, <2>3
  <2> QED
    BY <2>1, <2>4
<1>5. Live' = Live /\ Live \subseteq Sid /\ last' \notin Live
  BY <1>1, <1>4 DEF Live, CoreTypes, NoSession
<1>6. /\ Victims(key) \subseteq Live
      /\ \A s \in Live : sess[s].key = key => s \in Victims(key)
      /\ \A s \in Live : Fixed[key] # 0 /\ sess[s].addr = Fixed[key] => s \in Victims(key)
  BY DEF Victims, OldestBeyondCap, NoAddr
<1>7. CoreTypes'
  BY <1>1, <1>2, <1>5, <1>6 DEF CoreTypes
<1>8. LockIsExclusive'
  BY <1>1, <1>3 DEF LockIsExclusive
<1>9. LiveSessionsOwnTheirAddress'
  <2>1. \A a \in Addr : byIp[a] # 0 => sess'[byIp[a]] = sess[byIp[a]]
    BY <1>2, <1>4
  <2> QED
    BY <1>1, <2>1 DEF LiveSessionsOwnTheirAddress, NoSession
<1>10. LeasesAreExclusive'
  BY <1>1, <1>4 DEF LeasesAreExclusive
<1>11. AdmissionIsClear'
  <2>1. Fixed[key] # 0 => byIp[Fixed[key]] \in Victims(key) \cup {0}
    BY <1>5, <1>6, OneSessionEach DEF Live, NoSession
  <2> QED
    BY <1>1, <1>2, <1>3, <1>5, <1>6, <2>1 DEF AdmissionIsClear
<1>12. LeasesAreAccountedFor'
  <2>1. \A a \in Addr : byIp[a] # 0 => sess'[byIp[a]] = sess[byIp[a]]
    BY <1>2, <1>4
  <2>2. ASSUME NEW k, HasSession(k) PROVE HasSession(k)'
    BY <1>1, <2>1, <2>2 DEF HasSession
  <2> QED
    BY <1>1, <1>3, <2>2 DEF LeasesAreAccountedFor
<1> QED
  BY <1>7, <1>8, <1>9, <1>10, <1>11, <1>12

\* Before its admission is in the map, a session has no address there.
LEMMA NewcomerIsOut ==
  ASSUME SessionConstants, OwnershipInv, step \in {"evict", "capacity", "lease"}
  PROVE  last \in Sid /\ \A a \in Addr : byIp[a] # last
<1>1. last \in Sid /\ sess[last].addr = 0
  BY DEF OwnershipInv, LockIsExclusive, AdmissionIsClear, CoreTypes
<1> QED
  BY <1>1, OneSessionEach DEF OwnershipInv, SessionConstants

\* Sessions that are in the map leave it: each was its device's only one.
LEMMA MapShrinks ==
  ASSUME SessionConstants, CoreTypes, LiveSessionsOwnTheirAddress, LeasesAreExclusive,
         NEW S \in SUBSET Live,
         byIp' = Unmapped(S), lease' = lease, last' = last,
         \A s \in Sid : sess'[s].key = sess[s].key /\ sess'[s].addr = sess[s].addr
  PROVE  /\ byIp' \in [Addr -> Sid \cup {0}]
         /\ LiveSessionsOwnTheirAddress' /\ LeasesAreExclusive'
         /\ \A s \in S : ~HasSession(sess[s].key)'
         /\ \A k : HasSession(k)' => HasSession(k)
         /\ \A k : HasSession(k) => HasSession(k)' \/ \E s \in S : sess[s].key = k
         /\ \A a \in Addr : byIp'[a] = IF byIp[a] \in S THEN 0 ELSE byIp[a]
<1> USE DEF SessionConstants
<1>1. /\ byIp' \in [Addr -> Sid \cup {0}]
      /\ \A a \in Addr : byIp'[a] = IF byIp[a] \in S THEN 0 ELSE byIp[a]
  BY DEF Unmapped, CoreTypes, NoSession
<1>2. \A a \in Addr : byIp'[a] # 0 => byIp'[a] = byIp[a] /\ byIp[a] \in Sid /\ byIp[a] \notin S
  BY <1>1 DEF CoreTypes
<1>3. LiveSessionsOwnTheirAddress'
  <2>1. ASSUME NEW a \in Addr, byIp'[a] # 0
        PROVE  sess'[byIp'[a]].addr = a /\ lease'[sess'[byIp'[a]].key] = a
    <3>1. byIp'[a] = byIp[a] /\ byIp[a] \in Sid /\ byIp[a] # 0
      BY <1>2, <2>1
    <3> QED
      BY <3>1 DEF LiveSessionsOwnTheirAddress, NoSession
  <2> QED
    BY <2>1 DEF LiveSessionsOwnTheirAddress, NoSession
<1>4. LeasesAreExclusive'
  <2>1. \A a \in Addr : byIp'[a] <= last
    BY <1>1 DEF LeasesAreExclusive, CoreTypes
  <2> QED
    BY <2>1 DEF LeasesAreExclusive
<1>5. \A s \in S : \E a \in Addr : byIp[a] = s /\ s # 0
  BY DEF Live, NoSession
<1>6. \A a \in Addr : byIp[a] # 0 => sess'[byIp[a]].key = sess[byIp[a]].key
  BY DEF CoreTypes
<1>7. ASSUME NEW s \in S PROVE ~HasSession(sess[s].key)'
  <2>1. PICK a \in Addr : byIp[a] = s /\ s # 0
    BY <1>5
  <2>2. ASSUME NEW b \in Addr, byIp'[b] # 0, sess'[byIp'[b]].key = sess[s].key PROVE FALSE
    BY <1>2, <1>6, <2>1, <2>2, OneSessionEach
  <2>3. sess'[s].key = sess[s].key
    BY <2>1 DEF CoreTypes
  <2> QED
    BY <2>2, <2>3 DEF HasSession
<1>8. ASSUME NEW k, HasSession(k)' PROVE HasSession(k)
  BY <1>2, <1>6, <1>8 DEF HasSession
<1>9. ASSUME NEW k, HasSession(k) PROVE HasSession(k)' \/ \E s \in S : sess[s].key = k
  <2>1. PICK a \in Addr : byIp[a] # 0 /\ sess[byIp[a]].key = k
    BY <1>9 DEF HasSession
  <2> QED
    BY <1>1, <1>6, <2>1 DEF HasSession
<1> QED
  BY <1>1, <1>3, <1>4, <1>7, <1>8, <1>9

\* A session in the map is reached at its own address.
LEMMA LiveIsCurrent ==
  ASSUME SessionConstants, CoreTypes, LiveSessionsOwnTheirAddress, NEW s \in Live
  PROVE  IsCurrent(s) /\ s \in Sid /\ sess[s].addr \in Addr /\ byIp[sess[s].addr] = s
<1>1. PICK a \in Addr : byIp[a] = s /\ s # 0
  BY DEF Live, NoSession
<1>2. sess[s].addr = a /\ s \in Sid
  BY <1>1, OneSessionEach
<1>3. a # 0
  BY DEF SessionConstants
<1> QED
  BY <1>1, <1>2, <1>3 DEF IsCurrent, NoAddr

\* The victims leave the map, and the newcomer's device is clear.
LEMMA EvictOwnership ==
  ASSUME SessionConstants, OwnershipInv, Evict
  PROVE  OwnershipInv'
<1>0. /\ CoreTypes /\ LockIsExclusive /\ LiveSessionsOwnTheirAddress /\ LeasesAreExclusive
      /\ AdmissionIsClear /\ LeasesAreAccountedFor
  BY DEF OwnershipInv
<1>1. /\ lock = "admit" /\ step = "evict" /\ lock' = lock /\ step' = "capacity"
      /\ UNCHANGED <<last, lease, retiring, kernel>> /\ last \in Sid /\ retiring = {}
      /\ sess' = Revoked(victims)
  BY <1>0 DEF Evict, LockIsExclusive
<1>2. /\ victims \subseteq Live /\ \A s \in Live : sess[s].key = sess[last].key => s \in victims
      /\ Fixed[sess[last].key] # 0 => byIp[Fixed[sess[last].key]] \in victims \cup {0}
      /\ sess[last].addr = 0
  BY <1>0, <1>1 DEF AdmissionIsClear
<1>3. {s \in victims : IsCurrent(s)} = victims
  BY <1>0, <1>2, LiveIsCurrent
<1>4. /\ victims' = victims /\ byIp' = Unmapped(victims)
      /\ routes' = Unrouted(victims) /\ pendingDel' = RoutesOf(victims)
  BY <1>3 DEF Evict
<1>5. /\ sess' \in [Sid -> Session]
      /\ \A s \in Sid : sess'[s].key = sess[s].key /\ sess'[s].addr = sess[s].addr
  BY <1>0, <1>1, RevokedSession
<1>6. /\ byIp' \in [Addr -> Sid \cup {0}]
      /\ LiveSessionsOwnTheirAddress' /\ LeasesAreExclusive'
      /\ \A s \in victims : ~HasSession(sess[s].key)'
      /\ \A k : HasSession(k)' => HasSession(k)
      /\ \A k : HasSession(k) => HasSession(k)' \/ \E s \in victims : sess[s].key = k
      /\ \A a \in Addr : byIp'[a] = IF byIp[a] \in victims THEN 0 ELSE byIp[a]
  BY <1>0, <1>1, <1>2, <1>4, <1>5, MapShrinks
<1>7. CoreTypes'
  BY <1>0, <1>1, <1>4, <1>5, <1>6 DEF CoreTypes, Unrouted, RoutesOf, NoAddr
<1>8. LockIsExclusive'
  BY <1>0, <1>1 DEF LockIsExclusive
<1>9. ~HasSession(sess[last].key)'
  <2>1. ASSUME NEW a \in Addr, byIp'[a] # 0 PROVE sess'[byIp'[a]].key # sess[last].key
    <3>1. byIp'[a] = byIp[a] /\ byIp[a] # 0 /\ byIp[a] \notin victims
      BY <1>6, <2>1
    <3>2. byIp[a] \in Live /\ byIp[a] \in Sid
      BY <1>0, <3>1 DEF Live, NoSession, CoreTypes
    <3> QED
      BY <1>2, <1>5, <3>1, <3>2
  <2> QED
    BY <1>1, <1>5, <2>1 DEF HasSession
<1>10. AdmissionIsClear'
  <2>1. sess'[last].key = sess[last].key /\ sess'[last].addr = 0 /\ sess[last].key \in Key
    BY <1>0, <1>1, <1>2, <1>5 DEF CoreTypes, Session
  <2>2. Fixed[sess[last].key] # 0 => byIp'[Fixed[sess[last].key]] = 0
    BY <1>2, <1>6, <2>1 DEF SessionConstants
  <2> QED
    BY <1>1, <1>4, <1>6, <1>9, <2>1, <2>2 DEF AdmissionIsClear
<1>11. LeasesAreAccountedFor'
  <2>1. \A s \in victims : sess'[s].key = sess[s].key
    BY <1>0, <1>5 DEF CoreTypes
  <2>2. ASSUME NEW k \in Key, lease'[k] # 0
        PROVE  \/ HasSession(k)' \/ k = sess'[last].key \/ \E s \in victims : sess'[s].key = k
    BY <1>0, <1>1, <1>5, <1>6, <2>1, <2>2 DEF LeasesAreAccountedFor
  <2> QED
    BY <1>1, <1>4, <2>2 DEF LeasesAreAccountedFor
<1> QED
  BY <1>6, <1>7, <1>8, <1>10, <1>11 DEF OwnershipInv

\* The owners in the map keep their leases when somebody else's is released.
LEMMA ReleaseIsTargeted ==
  ASSUME SessionConstants, CoreTypes, LiveSessionsOwnTheirAddress, LeasesAreExclusive,
         NEW ks, \A k \in ks : ~HasSession(k),
         lease' = Released(ks), byIp' = byIp, last' = last,
         \A s \in Sid : sess'[s].key = sess[s].key /\ sess'[s].addr = sess[s].addr
  PROVE  /\ lease' \in [Key \cup Mac -> Addr \cup {0}]
         /\ LiveSessionsOwnTheirAddress' /\ LeasesAreExclusive'
         /\ \A k \in Key \cup Mac : lease'[k] = IF k \in ks THEN 0 ELSE lease[k]
         /\ \A k : HasSession(k)' <=> HasSession(k)
<1>1. /\ lease' \in [Key \cup Mac -> Addr \cup {0}]
      /\ \A k \in Key \cup Mac : lease'[k] = IF k \in ks THEN 0 ELSE lease[k]
  BY DEF CoreTypes, Released, NoAddr
<1>2. ASSUME NEW a \in Addr, byIp[a] # 0
      PROVE  /\ sess'[byIp[a]].key = sess[byIp[a]].key /\ sess'[byIp[a]].addr = a
             /\ sess[byIp[a]].key \in Key /\ lease'[sess[byIp[a]].key] = a
  <2>1. /\ byIp[a] \in Sid /\ sess[byIp[a]].addr = a /\ lease[sess[byIp[a]].key] = a
        /\ sess[byIp[a]].key \in Key
    BY <1>2, OneSessionEach
  <2>2. sess[byIp[a]].key \notin ks
    BY <1>2 DEF HasSession
  <2> QED
    BY <1>1, <2>1, <2>2
<1>3. LiveSessionsOwnTheirAddress'
  BY <1>2 DEF LiveSessionsOwnTheirAddress, NoSession
<1>4. LeasesAreExclusive'
  BY <1>1 DEF LeasesAreExclusive
<1>5. ASSUME NEW k PROVE HasSession(k)' <=> HasSession(k)
  BY <1>2 DEF HasSession
<1> QED
  BY <1>1, <1>3, <1>4, <1>5

\* An admission that gives up releases its device and, if it still owes them, the
\* evicted ones.
LEMMA GivingUp ==
  ASSUME SessionConstants, OwnershipInv, lock = "admit",
         step \in {"capacity", "lease", "insert"}, Unlocked,
         UNCHANGED <<last, sess, byIp, retiring, routes>>,
         NEW ks, lease' = Released(ks), sess[last].key \in ks,
         step = "insert" => ks = {sess[last].key},
         step # "insert" => ks = Keys(victims) \cup {sess[last].key},
         kernel' \subseteq Cidr, pendingDel' = {}
  PROVE  OwnershipInv'
<1>0. /\ CoreTypes /\ LockIsExclusive /\ LiveSessionsOwnTheirAddress /\ LeasesAreExclusive
      /\ AdmissionIsClear /\ LeasesAreAccountedFor
  BY DEF OwnershipInv
<1>1. \A k \in ks : ~HasSession(k)
  <2>1. CASE step = "insert"
    BY <1>0, <2>1 DEF AdmissionIsClear
  <2>2. CASE step # "insert"
    BY <1>0, <2>2 DEF AdmissionIsClear, Keys
  <2> QED
    BY <2>1, <2>2
<1>2. /\ lease' \in [Key \cup Mac -> Addr \cup {0}]
      /\ LiveSessionsOwnTheirAddress' /\ LeasesAreExclusive'
      /\ \A k \in Key \cup Mac : lease'[k] = IF k \in ks THEN 0 ELSE lease[k]
      /\ \A k : HasSession(k)' <=> HasSession(k)
  BY <1>0, <1>1, ReleaseIsTargeted
<1>3. lock' = "free" /\ step' = "idle" /\ victims' = {} /\ retiring' = {}
  BY <1>0 DEF Unlocked, LockIsExclusive
<1>4. CoreTypes'
  BY <1>0, <1>2, <1>3 DEF CoreTypes
<1>5. LockIsExclusive' /\ AdmissionIsClear'
  BY <1>3 DEF LockIsExclusive, AdmissionIsClear
<1>6. LeasesAreAccountedFor'
  <2>1. ASSUME NEW k \in Key, lease'[k] # 0 PROVE HasSession(k)
    <3>1. lease[k] # 0 /\ k \notin ks
      BY <1>2, <2>1
    <3>2. retiring = {}
      BY <1>0 DEF LockIsExclusive
    <3> QED
      BY <1>0, <3>1, <3>2 DEF LeasesAreAccountedFor, Keys
  <2> QED
    BY <1>2, <2>1 DEF LeasesAreAccountedFor
<1> QED
  BY <1>2, <1>4, <1>5, <1>6 DEF OwnershipInv

\* The ways an admission gives up before its session is in the map.
LEMMA GiveUpOwnership ==
  ASSUME SessionConstants, OwnershipInv, TooMany \/ Exhausted \/ SetupFails
  PROVE  OwnershipInv'
<1>0. CoreTypes /\ LockIsExclusive /\ kernel \subseteq Cidr
  BY DEF OwnershipInv, CoreTypes
<1>1. CASE TooMany
  <2>1. lease' = Released(Keys(victims) \cup {sess[last].key})
    BY <1>1 DEF TooMany, me
  <2> QED
    BY <1>0, <1>1, <2>1, GivingUp DEF TooMany
<1>2. CASE Exhausted
  <2>1. lease' = Released(Keys(victims) \cup {sess[last].key})
    BY <1>0, <1>2 DEF Exhausted, GiveBack, Released, me, CoreTypes
  <2>2. pendingDel' = {} /\ kernel' = kernel
    BY <1>0, <1>2 DEF Exhausted, LockIsExclusive
  <2> QED
    BY <1>0, <1>2, <2>1, <2>2, GivingUp DEF Exhausted
<1>3. CASE SetupFails
  <2>1. lease' = Released({sess[last].key})
    BY <1>3 DEF SetupFails, me
  <2>2. pendingDel' = {} /\ kernel' = kernel
    BY <1>0, <1>3 DEF SetupFails, LockIsExclusive
  <2> QED
    BY <1>0, <1>3, <2>1, <2>2, GivingUp DEF SetupFails
<1> QED
  BY <1>1, <1>2, <1>3

\* A step that changes neither the map nor the leases nor whom they wait for.
LEMMA StepOwnership ==
  ASSUME SessionConstants, OwnershipInv, Room \/ Program \/ Answer
  PROVE  OwnershipInv'
<1>0. /\ CoreTypes /\ LockIsExclusive /\ LiveSessionsOwnTheirAddress /\ LeasesAreExclusive
      /\ AdmissionIsClear /\ LeasesAreAccountedFor
  BY DEF OwnershipInv
<1>1. UNCHANGED <<last, sess, byIp, lease, retiring, routes>>
  BY DEF Room, Program, Answer, owned
<1>2. \A k : HasSession(k)' <=> HasSession(k)
  BY <1>1 DEF HasSession
<1>3. Live' = Live
  BY <1>1 DEF Live
<1>4. LiveSessionsOwnTheirAddress' /\ LeasesAreExclusive'
  BY <1>0, <1>1 DEF LiveSessionsOwnTheirAddress, LeasesAreExclusive
<1>5. CASE Room
  BY <1>0, <1>1, <1>2, <1>4, <1>5 DEF Room, OwnershipInv, CoreTypes, LockIsExclusive,
     AdmissionIsClear, LeasesAreAccountedFor
<1>6. CASE Program
  <2>1. RoutesOf({self}) \subseteq Cidr
    BY DEF RoutesOf
  <2> QED
    BY <1>0, <1>1, <1>2, <1>4, <1>6, <2>1 DEF Program, OwnershipInv, CoreTypes, LockIsExclusive,
       AdmissionIsClear, LeasesAreAccountedFor
<1>7. CASE Answer
  <2>1. /\ lock = "admit" /\ step = "answer" /\ lock' = "free" /\ step' = "idle" /\ victims' = {}
        /\ retiring' = {} /\ pendingDel' = {} /\ kernel' = kernel /\ retiring = {} /\ last \in Sid
    BY <1>0, <1>7 DEF Answer, Unlocked, LockIsExclusive, owned
  <2>2. sess[last].addr \in Addr /\ byIp[sess[last].addr] = last /\ last # 0
    BY <1>0, <2>1, SessionNumbers DEF AdmissionIsClear, CoreTypes, Session
  <2>3. HasSession(sess[last].key)
    BY <2>2 DEF HasSession
  <2>4. LeasesAreAccountedFor'
    BY <1>0, <1>1, <1>2, <2>1, <2>3 DEF LeasesAreAccountedFor
  <2>5. CoreTypes' /\ LockIsExclusive' /\ AdmissionIsClear'
    BY <1>0, <1>1, <2>1 DEF CoreTypes, LockIsExclusive, AdmissionIsClear
  <2> QED
    BY <1>4, <2>4, <2>5 DEF OwnershipInv
<1> QED
  BY <1>5, <1>6, <1>7

\* Nobody else in the map held the address that the newcomer takes.
LEMMA AllocateOwnership ==
  ASSUME SessionConstants, OwnershipInv, Allocate
  PROVE  OwnershipInv'
<1>0. /\ CoreTypes /\ LockIsExclusive /\ LiveSessionsOwnTheirAddress /\ LeasesAreExclusive
      /\ AdmissionIsClear /\ LeasesAreAccountedFor
  BY DEF OwnershipInv
<1>1. /\ lock = "admit" /\ step = "lease" /\ lock' = lock /\ step' = "insert"
      /\ UNCHANGED <<last, byIp, victims, retiring, routes, pendingDel, kernel>>
      /\ lease' \in Grants(GiveBack) /\ sess' = [sess EXCEPT ![last].addr = lease'[me]]
      /\ last \in Sid /\ retiring = {} /\ pendingDel = {}
  BY <1>0 DEF Allocate, self, LockIsExclusive
<1>2. /\ sess[last].addr = 0 /\ ~HasSession(me) /\ me = sess[last].key /\ me \in Key
      /\ \A s \in victims : ~HasSession(sess[s].key)
      /\ Fixed[me] # 0 => byIp[Fixed[me]] = 0
  BY <1>0, <1>1 DEF AdmissionIsClear, me, CoreTypes, Session
<1>3. \A k \in Key \cup Mac :
         GiveBack[k] = IF k \in Keys(victims) \ {me} THEN 0 ELSE lease[k]
  BY <1>0 DEF GiveBack, Released, NoAddr, CoreTypes
<1>4. /\ lease' \in [Key \cup Mac -> Addr \cup {0}]
      /\ lease'[me] \in Addr
      /\ \A k \in Key \cup Mac : k # me =>
            \/ lease'[k] = GiveBack[k] \/ (lease'[k] = 0 /\ GiveBack[k] = Fixed[me])
      /\ Fixed[me] = 0 => \A k \in Key \cup Mac : k # me => lease'[k] = GiveBack[k]
      /\ Fixed[me] # 0 => \A k \in Key \cup Mac : k # me => lease'[k] # lease'[me]
      /\ Fixed[me] = 0 => \/ lease'[me] = GiveBack[me]
                          \/ \A k \in Key \cup Mac : GiveBack[k] # lease'[me]
  BY <1>0, <1>1, GrantedLease
<1>5. /\ sess' \in [Sid -> Session] /\ sess'[last].addr = lease'[me]
      /\ \A s \in Sid : sess'[s].key = sess[s].key
      /\ \A s \in Sid : s # last => sess'[s].addr = sess[s].addr
  BY <1>0, <1>1, <1>4 DEF CoreTypes, Session
<1>6. \A j, k \in Key \cup Mac : lease'[j] # 0 /\ lease'[j] = lease'[k] => j = k
  <2>1. \A j, k \in Key \cup Mac : lease[j] # 0 /\ lease[j] = lease[k] => j = k
    BY <1>0 DEF LeasesAreExclusive
  <2>2. \A j, k \in Key \cup Mac : j # me /\ k # me /\ lease'[j] # 0 /\ lease'[j] = lease'[k] => j = k
    BY <1>3, <1>4, <2>1
  <2>3. \A k \in Key \cup Mac : k # me => lease'[k] # lease'[me]
    <3>1. CASE Fixed[me] # 0
      BY <1>4, <3>1
    <3>2. CASE Fixed[me] = 0
      <4>1. ASSUME NEW k \in Key \cup Mac, k # me, lease'[k] = lease'[me] PROVE FALSE
        <5>1. lease'[k] = GiveBack[k] /\ lease'[me] # 0
          BY <1>4, <3>2, <4>1 DEF SessionConstants
        <5>2. GiveBack[k] = lease[k] /\ GiveBack[me] = lease[me]
          BY <1>2, <1>3, <4>1, <5>1
        <5>3. lease'[me] = GiveBack[me]
          BY <1>4, <3>2, <4>1, <5>1
        <5> QED
          BY <1>2, <2>1, <4>1, <5>1, <5>2, <5>3
      <4> QED
        BY <4>1
    <3> QED
      BY <3>1, <3>2
  <2> QED
    BY <2>2, <2>3
<1>7. \A a \in Addr : byIp[a] # 0 =>
         /\ byIp[a] \in Sid /\ byIp[a] # last
         /\ sess[byIp[a]].addr = a /\ lease[sess[byIp[a]].key] = a /\ sess[byIp[a]].key \in Key
         /\ sess[byIp[a]].key # me /\ sess[byIp[a]].key \notin Keys(victims)
  <2>1. ASSUME NEW a \in Addr, byIp[a] # 0
        PROVE  sess[byIp[a]].key # me /\ sess[byIp[a]].key \notin Keys(victims)
    BY <1>2, <2>1 DEF HasSession, Keys
  <2> QED
    BY <1>0, <1>1, <2>1, OneSessionEach, NewcomerIsOut
<1>8. ASSUME NEW a \in Addr, byIp[a] # 0
      PROVE  lease'[sess[byIp[a]].key] = a
  <2> DEFINE k == sess[byIp[a]].key
  <2>1. k \in Key /\ k # me /\ k \notin Keys(victims) /\ lease[k] = a
    BY <1>7, <1>8
  <2>2. GiveBack[k] = a
    BY <1>3, <2>1
  <2>3. Fixed[me] # a
    BY <1>2, <1>8 DEF SessionConstants
  <2> HIDE DEF k
  <2>4. lease'[k] = a
    BY <1>4, <2>1, <2>2, <2>3
  <2> QED
    BY <2>4 DEF k
<1>9. LiveSessionsOwnTheirAddress'
  BY <1>1, <1>5, <1>7, <1>8 DEF LiveSessionsOwnTheirAddress, NoSession
<1>10. LeasesAreExclusive'
  BY <1>0, <1>1, <1>6 DEF LeasesAreExclusive
<1>11. \A k : HasSession(k)' <=> HasSession(k)
  BY <1>1, <1>5, <1>7 DEF HasSession
<1>12. CoreTypes' /\ LockIsExclusive'
  BY <1>0, <1>1, <1>4, <1>5 DEF CoreTypes, LockIsExclusive
<1>13. AdmissionIsClear'
  BY <1>1, <1>2, <1>4, <1>5, <1>11 DEF AdmissionIsClear, SessionConstants
<1>14. LeasesAreAccountedFor'
  <2>1. ASSUME NEW k \in Key, lease'[k] # 0, k # me PROVE HasSession(k)
    <3>1. lease'[k] = GiveBack[k] /\ GiveBack[k] = lease[k] /\ k \notin Keys(victims)
      BY <1>3, <1>4, <2>1
    <3> QED
      BY <1>0, <1>1, <1>2, <2>1, <3>1 DEF LeasesAreAccountedFor, Keys
  <2> QED
    BY <1>1, <1>2, <1>5, <1>11, <2>1 DEF LeasesAreAccountedFor
<1> QED
  BY <1>9, <1>10, <1>12, <1>13, <1>14 DEF OwnershipInv

\* The address of the newcomer is free when its session goes into the map: the
\* fallback for an owner found there never has anything to do.
LEMMA AddressIsFree ==
  ASSUME SessionConstants, OwnershipInv, step = "insert"
  PROVE  /\ last \in Sid /\ sess[last].addr \in Addr /\ byIp[sess[last].addr] = 0
         /\ sess[last].key \in Key /\ lease[sess[last].key] = sess[last].addr
<1>0. /\ CoreTypes /\ LockIsExclusive /\ LiveSessionsOwnTheirAddress /\ LeasesAreExclusive
      /\ AdmissionIsClear
  BY DEF OwnershipInv
<1>1. last \in Sid /\ sess[last].addr # 0 /\ lease[sess[last].key] = sess[last].addr
      /\ ~HasSession(sess[last].key)
  BY <1>0 DEF LockIsExclusive, AdmissionIsClear, CoreTypes
<1>2. sess[last].key \in Key /\ sess[last].addr \in Addr
  BY <1>0, <1>1 DEF CoreTypes, Session
<1>3. byIp[sess[last].addr] = 0
  BY <1>0, <1>1, <1>2, OneSessionEach DEF LeasesAreExclusive, HasSession
<1> QED
  BY <1>1, <1>2, <1>3

\* What Insert does, then.
LEMMA InsertShape ==
  ASSUME SessionConstants, OwnershipInv, Insert
  PROVE  LET a == sess[last].addr IN
         /\ lock = "admit" /\ step = "insert" /\ step' = "program" /\ a \in Addr /\ byIp[a] = 0
         /\ last \in Sid /\ byIp' = [byIp EXCEPT ![a] = last] /\ lease' = lease
         /\ sess' \in [Sid -> Session]
         /\ \A s \in Sid : sess'[s].key = sess[s].key /\ sess'[s].addr = sess[s].addr
         /\ kernel' = kernel
         /\ routes' = [c \in Cidr |-> IF c \in Subnets[sess[last].key] /\ routes[c] = 0
                                      THEN a ELSE routes[c]]
         /\ UNCHANGED <<lock, last, victims, retiring, pendingDel>>
<1> DEFINE a == sess[last].addr
<1>0. CoreTypes /\ step = "insert"
  BY DEF OwnershipInv, Insert
<1>1. /\ last \in Sid /\ a \in Addr /\ byIp[a] = 0 /\ sess[last].key \in Key
  BY <1>0, AddressIsFree
<1>2. {byIp[a]} \ {NoSession} = {}
  BY <1>1 DEF NoSession
<1>3. RoutesOf({}) = {} /\ Unrouted({}) = routes /\ Keys({}) = {} /\ Released({} \ {me}) = lease
  BY <1>0 DEF RoutesOf, Unrouted, Addresses, Keys, Released, CoreTypes
<1>4. /\ lock = "admit" /\ step' = "program" /\ byIp' = [byIp EXCEPT ![a] = last]
      /\ sess' = Revoked({}) /\ lease' = Released(Keys({}) \ {me})
      /\ kernel' = kernel \ RoutesOf({})
      /\ routes' = [c \in Cidr |-> IF c \in Subnets[me] /\ Unrouted({})[c] = NoAddr
                                   THEN a ELSE Unrouted({})[c]]
      /\ UNCHANGED <<lock, last, victims, retiring, pendingDel>>
  BY <1>2 DEF Insert, self
<1>5. /\ sess' \in [Sid -> Session]
      /\ \A s \in Sid : sess'[s].key = sess[s].key /\ sess'[s].addr = sess[s].addr
  BY <1>0, <1>4, RevokedSession
<1> QED
  BY <1>0, <1>1, <1>3, <1>4, <1>5 DEF me, NoAddr

\* The newcomer enters the map at the address it holds.
LEMMA InsertOwnership ==
  ASSUME SessionConstants, OwnershipInv, Insert
  PROVE  OwnershipInv'
<1> DEFINE a == sess[last].addr
<1>0. /\ CoreTypes /\ LockIsExclusive /\ LiveSessionsOwnTheirAddress /\ LeasesAreExclusive
      /\ AdmissionIsClear /\ LeasesAreAccountedFor
  BY DEF OwnershipInv
<1>1. /\ lock = "admit" /\ step = "insert" /\ step' = "program" /\ a \in Addr /\ byIp[a] = 0
      /\ last \in Sid /\ byIp' = [byIp EXCEPT ![a] = last] /\ lease' = lease
      /\ sess' \in [Sid -> Session]
      /\ \A s \in Sid : sess'[s].key = sess[s].key /\ sess'[s].addr = sess[s].addr
      /\ kernel' = kernel
      /\ routes' = [c \in Cidr |-> IF c \in Subnets[sess[last].key] /\ routes[c] = 0
                                   THEN a ELSE routes[c]]
      /\ UNCHANGED <<lock, last, victims, retiring, pendingDel>>
  BY InsertShape
<1>2. lease[sess[last].key] = a /\ sess[last].key \in Key
  BY <1>1, AddressIsFree
<1>3. /\ byIp' \in [Addr -> Sid \cup {0}] /\ byIp'[a] = last
      /\ \A b \in Addr : b # a => byIp'[b] = byIp[b]
  BY <1>0, <1>1 DEF CoreTypes
<1>4. CoreTypes' /\ LockIsExclusive'
  BY <1>0, <1>1, <1>3 DEF CoreTypes, LockIsExclusive
<1>5. LiveSessionsOwnTheirAddress'
  <2>1. ASSUME NEW b \in Addr, byIp'[b] # 0
        PROVE  sess'[byIp'[b]].addr = b /\ lease'[sess'[byIp'[b]].key] = b
    <3>1. CASE b = a
      BY <1>1, <1>2, <1>3, <3>1
    <3>2. CASE b # a
      BY <1>0, <1>1, <1>3, <2>1, <3>2, OneSessionEach
    <3> QED
      BY <3>1, <3>2
  <2> QED
    BY <2>1 DEF LiveSessionsOwnTheirAddress, NoSession
<1>6. LeasesAreExclusive'
  <2>1. last <= last
    BY <1>1, SessionNumbers
  <2>2. \A b \in Addr : byIp'[b] <= last
    <3>1. ASSUME NEW b \in Addr PROVE byIp'[b] <= last
      <4>1. CASE b = a
        BY <1>3, <2>1, <4>1
      <4>2. CASE b # a
        BY <1>0, <1>3, <4>2 DEF LeasesAreExclusive
      <4> QED
        BY <4>1, <4>2
    <3> QED
      BY <3>1
  <2> QED
    BY <1>0, <1>1, <2>2 DEF LeasesAreExclusive
<1>7. AdmissionIsClear'
  <2>1. a # 0 /\ retiring = {}
    BY <1>0, <1>1 DEF SessionConstants, LockIsExclusive
  <2> QED
    BY <1>1, <1>3, <2>1 DEF AdmissionIsClear
<1>8. LeasesAreAccountedFor'
  <2>1. ASSUME NEW k, HasSession(k) PROVE HasSession(k)'
    <3>1. PICK b \in Addr : byIp[b] # 0 /\ sess[byIp[b]].key = k
      BY <2>1 DEF HasSession
    <3>2. byIp'[b] = byIp[b] /\ byIp[b] \in Sid
      BY <1>0, <1>1, <1>3, <3>1 DEF CoreTypes
    <3> QED
      BY <1>1, <3>1, <3>2 DEF HasSession
  <2>2. retiring = {}
    BY <1>0, <1>1 DEF LockIsExclusive
  <2> QED
    BY <1>0, <1>1, <2>1, <2>2 DEF LeasesAreAccountedFor
<1> QED
  BY <1>4, <1>5, <1>6, <1>7, <1>8 DEF OwnershipInv

\* What a rollback takes back is exactly what the admission put in.
LEMMA RollbackShape ==
  ASSUME SessionConstants, OwnershipInv, ProgramFails \/ AnswerFails
  PROVE  /\ lock = "admit" /\ step \in {"program", "answer"} /\ last \in Sid
         /\ sess[last].addr \in Addr /\ byIp[sess[last].addr] = last /\ {last} \subseteq Live
         /\ sess' \in [Sid -> Session]
         /\ \A s \in Sid : sess'[s].key = sess[s].key /\ sess'[s].addr = sess[s].addr
         /\ byIp' = Unmapped({last}) /\ lease' = Released({sess[last].key})
         /\ routes' = Unrouted({last}) /\ kernel' = kernel \ RoutesOf({last})
         /\ lock' = "free" /\ step' = "idle" /\ victims' = {}
         /\ UNCHANGED <<last, retiring, pendingDel>> /\ retiring = {} /\ pendingDel = {}
<1>0. CoreTypes /\ LockIsExclusive /\ AdmissionIsClear
  BY DEF OwnershipInv
<1>1. /\ lock = "admit" /\ step \in {"program", "answer"} /\ Rollback
      /\ sess' = sess \/ sess' = Revoked({last})
  BY DEF ProgramFails, AnswerFails, self
<1>2. last \in Sid /\ retiring = {} /\ pendingDel = {} /\ last # 0
  BY <1>0, <1>1, SessionNumbers DEF LockIsExclusive
<1>3. sess[last].addr \in Addr /\ byIp[sess[last].addr] = last
  BY <1>0, <1>1, <1>2 DEF AdmissionIsClear, CoreTypes, Session
<1>4. /\ sess' \in [Sid -> Session]
      /\ \A s \in Sid : sess'[s].key = sess[s].key /\ sess'[s].addr = sess[s].addr
  BY <1>0, <1>1, RevokedSession DEF CoreTypes
<1>5. {last} \subseteq Live
  BY <1>2, <1>3 DEF Live, NoSession
<1> QED
  BY <1>1, <1>2, <1>3, <1>4, <1>5 DEF Rollback, Unlocked, self, me

\* A rollback leaves nothing of the admission behind.
LEMMA RollbackOwnership ==
  ASSUME SessionConstants, OwnershipInv, ProgramFails \/ AnswerFails
  PROVE  OwnershipInv'
<1> DEFINE k0 == sess[last].key
<1>0. /\ CoreTypes /\ LockIsExclusive /\ LiveSessionsOwnTheirAddress /\ LeasesAreExclusive
      /\ AdmissionIsClear /\ LeasesAreAccountedFor
  BY DEF OwnershipInv
<1>1. /\ lock = "admit" /\ step \in {"program", "answer"} /\ last \in Sid
      /\ sess[last].addr \in Addr /\ byIp[sess[last].addr] = last
      /\ sess' \in [Sid -> Session]
      /\ \A s \in Sid : sess'[s].key = sess[s].key /\ sess'[s].addr = sess[s].addr
      /\ byIp' = Unmapped({last}) /\ lease' = Released({k0})
      /\ routes' = Unrouted({last}) /\ kernel' = kernel \ RoutesOf({last})
      /\ lock' = "free" /\ step' = "idle" /\ victims' = {}
      /\ UNCHANGED <<last, retiring, pendingDel>> /\ retiring = {} /\ pendingDel = {}
  BY RollbackShape
<1>2. last # 0
  BY <1>1, SessionNumbers
<1>3. /\ byIp' \in [Addr -> Sid \cup {0}]
      /\ \A a \in Addr : byIp'[a] = IF byIp[a] = last THEN 0 ELSE byIp[a]
  BY <1>0, <1>1 DEF Unmapped, CoreTypes, NoSession
<1>4. /\ lease' \in [Key \cup Mac -> Addr \cup {0}]
      /\ \A k \in Key \cup Mac : lease'[k] = IF k = k0 THEN 0 ELSE lease[k]
  BY <1>0, <1>1 DEF CoreTypes, Released, NoAddr
<1>5. ASSUME NEW a \in Addr, byIp'[a] # 0
      PROVE  /\ byIp'[a] = byIp[a] /\ byIp[a] \in Sid /\ sess[byIp[a]].key # k0
             /\ sess'[byIp'[a]].key = sess[byIp[a]].key
             /\ sess'[byIp'[a]].addr = a /\ lease'[sess'[byIp'[a]].key] = a
  <2>1. byIp'[a] = byIp[a] /\ byIp[a] # 0 /\ byIp[a] # last
    BY <1>3, <1>5
  <2>2. byIp[a] \in Sid /\ sess[byIp[a]].addr = a /\ lease[sess[byIp[a]].key] = a
        /\ sess[byIp[a]].key \in Key
    BY <1>0, <2>1, OneSessionEach
  <2>3. sess[byIp[a]].key # k0
    BY <1>0, <1>1, <1>2, <2>1, OneSessionEach
  <2>4. sess'[byIp'[a]].key = sess[byIp[a]].key /\ sess'[byIp'[a]].addr = a
    BY <1>1, <2>1, <2>2
  <2>5. lease'[sess[byIp[a]].key] = a
    BY <1>4, <2>2, <2>3
  <2> HIDE DEF k0
  <2> QED
    BY <2>1, <2>2, <2>3, <2>4, <2>5
<1>6. LiveSessionsOwnTheirAddress'
  BY <1>5 DEF LiveSessionsOwnTheirAddress, NoSession
<1>7. LeasesAreExclusive'
  <2>1. \A a \in Addr : byIp'[a] <= last
    BY <1>0, <1>3, SessionNumbers DEF LeasesAreExclusive, CoreTypes
  <2>2. \A j, k \in Key \cup Mac : lease'[j] # 0 /\ lease'[j] = lease'[k] => j = k
    BY <1>0, <1>4 DEF LeasesAreExclusive
  <2> QED
    BY <1>1, <2>1, <2>2 DEF LeasesAreExclusive
<1>8. CoreTypes'
  <2>1. routes' \in [Cidr -> Addr \cup {0}] /\ kernel' \subseteq Cidr
    BY <1>0, <1>1 DEF CoreTypes, Unrouted, NoAddr
  <2> QED
    BY <1>0, <1>1, <1>3, <1>4, <2>1 DEF CoreTypes
<1>9. LockIsExclusive' /\ AdmissionIsClear'
  BY <1>1 DEF LockIsExclusive, AdmissionIsClear
<1>10. LeasesAreAccountedFor'
  <2>1. ASSUME NEW k \in Key, lease'[k] # 0 PROVE HasSession(k)'
    <3>1. lease[k] # 0 /\ k # k0
      BY <1>4, <2>1
    <3>2. HasSession(k)
      BY <1>0, <1>1, <3>1 DEF LeasesAreAccountedFor
    <3>3. PICK a \in Addr : byIp[a] # 0 /\ sess[byIp[a]].key = k
      BY <3>2 DEF HasSession
    <3>4. byIp'[a] = byIp[a] /\ byIp'[a] # 0
      BY <1>3, <3>1, <3>3
    <3>5. sess'[byIp'[a]].key = k
      BY <1>5, <3>3, <3>4
    <3> QED
      BY <3>4, <3>5 DEF HasSession
  <2> QED
    BY <2>1 DEF LeasesAreAccountedFor
<1> QED
  BY <1>6, <1>7, <1>8, <1>9, <1>10 DEF OwnershipInv

\* Removed sessions stay on the books of the holder of the lock.
LEMMA RemovedOwnership ==
  ASSUME SessionConstants, OwnershipInv, NEW S \in SUBSET Live, Removed(S),
         sess' \in [Sid -> Session]
  PROVE  OwnershipInv'
<1>0. /\ CoreTypes /\ LockIsExclusive /\ LiveSessionsOwnTheirAddress /\ LeasesAreExclusive
      /\ AdmissionIsClear /\ LeasesAreAccountedFor
  BY DEF OwnershipInv
<1>1. /\ lock = "free" /\ retiring' = S /\ lock' = IF S = {} THEN "free" ELSE "retire"
      /\ byIp' = Unmapped(S) /\ routes' = Unrouted(S) /\ pendingDel' = RoutesOf(S)
      /\ UNCHANGED <<step, last, lease, victims, kernel>>
      /\ \A s \in Sid : sess'[s].key = sess[s].key /\ sess'[s].addr = sess[s].addr
  BY DEF Removed
<1>2. /\ byIp' \in [Addr -> Sid \cup {0}]
      /\ LiveSessionsOwnTheirAddress' /\ LeasesAreExclusive'
      /\ \A s \in S : ~HasSession(sess[s].key)'
      /\ \A k : HasSession(k) => HasSession(k)' \/ \E s \in S : sess[s].key = k
  BY <1>0, <1>1, MapShrinks
<1>3. S \subseteq Sid
  BY <1>0, LiveSessions
<1>4. CoreTypes'
  <2>1. routes' \in [Cidr -> Addr \cup {0}] /\ pendingDel' \subseteq Cidr
    BY <1>0, <1>1 DEF CoreTypes, Unrouted, RoutesOf, NoAddr
  <2>2. lock' \in {"free", "admit", "retire"}
    BY <1>1
  <2> QED
    BY <1>0, <1>1, <1>2, <1>3, <2>1, <2>2 DEF CoreTypes
<1>5. step' = "idle" /\ victims' = {}
  BY <1>0, <1>1 DEF LockIsExclusive
<1>6. LockIsExclusive'
  <2>1. S = {} => RoutesOf(S) = {}
    BY DEF RoutesOf, Addresses
  <2>2. lock' # "admit" /\ (lock' = "free" => S = {})
    BY <1>1
  <2> QED
    BY <1>1, <1>5, <2>1, <2>2 DEF LockIsExclusive
<1>7. AdmissionIsClear'
  BY <1>1, <1>2, <1>5 DEF AdmissionIsClear
<1>8. LeasesAreAccountedFor'
  <2>1. ASSUME NEW k \in Key, lease'[k] # 0
        PROVE  HasSession(k)' \/ \E s \in S : sess'[s].key = k
    <3>1. HasSession(k)
      BY <1>0, <1>1, <2>1 DEF LeasesAreAccountedFor, LockIsExclusive
    <3> QED
      BY <1>1, <1>2, <1>3, <3>1
  <2> QED
    BY <1>1, <2>1 DEF LeasesAreAccountedFor
<1> QED
  BY <1>2, <1>4, <1>6, <1>7, <1>8 DEF OwnershipInv

\* Their leases are released before anybody else holds the lock.
LEMMA RetiredOwnership ==
  ASSUME SessionConstants, OwnershipInv, Retired
  PROVE  OwnershipInv'
<1>0. /\ CoreTypes /\ LockIsExclusive /\ LiveSessionsOwnTheirAddress /\ LeasesAreExclusive
      /\ AdmissionIsClear /\ LeasesAreAccountedFor
  BY DEF OwnershipInv
<1>1. /\ retiring # {} /\ lease' = Released(Keys(retiring))
      /\ kernel' = kernel \ pendingDel /\ pendingDel' = {} /\ retiring' = {}
      /\ lock' = (IF lock = "retire" THEN "free" ELSE lock)
      /\ UNCHANGED <<step, last, sess, byIp, victims, routes>>
  BY DEF Retired
<1>2. lock = "retire" /\ lock' = "free" /\ step = "idle" /\ victims = {}
  BY <1>0, <1>1 DEF LockIsExclusive, CoreTypes
<1>3. \A k \in Keys(retiring) : ~HasSession(k)
  BY <1>0 DEF AdmissionIsClear, Keys
<1>4. /\ lease' \in [Key \cup Mac -> Addr \cup {0}]
      /\ LiveSessionsOwnTheirAddress' /\ LeasesAreExclusive'
      /\ \A k \in Key \cup Mac : lease'[k] = IF k \in Keys(retiring) THEN 0 ELSE lease[k]
      /\ \A k : HasSession(k)' <=> HasSession(k)
  BY <1>0, <1>1, <1>3, ReleaseIsTargeted
<1>5. CoreTypes' /\ LockIsExclusive' /\ AdmissionIsClear'
  BY <1>0, <1>1, <1>2, <1>4 DEF CoreTypes, LockIsExclusive, AdmissionIsClear
<1>6. LeasesAreAccountedFor'
  <2>1. ASSUME NEW k \in Key, lease'[k] # 0 PROVE HasSession(k)'
    <3>1. lease[k] # 0 /\ k \notin Keys(retiring)
      BY <1>4, <2>1
    <3> QED
      BY <1>0, <1>2, <1>4, <3>1 DEF LeasesAreAccountedFor, Keys
  <2> QED
    BY <2>1 DEF LeasesAreAccountedFor
<1> QED
  BY <1>4, <1>5, <1>6 DEF OwnershipInv

\* The reaper's late release and DHCP take nothing from a session.
LEMMA PoolOwnership ==
  ASSUME SessionConstants, OwnershipInv,
         \/ \E s \in Sid : ReapStale(s)
         \/ \E m \in Mac : DhcpLease(m) \/ DhcpRelease(m)
  PROVE  OwnershipInv'
<1>0. /\ CoreTypes /\ LockIsExclusive /\ LiveSessionsOwnTheirAddress /\ LeasesAreExclusive
      /\ AdmissionIsClear /\ LeasesAreAccountedFor
  BY DEF OwnershipInv
<1>1. UNCHANGED <<lock, step, last, sess, byIp, victims, retiring, routes, pendingDel, kernel>>
  BY DEF ReapStale, DhcpLease, DhcpRelease, admission
<1>2. \A k : HasSession(k)' <=> HasSession(k)
  BY <1>1 DEF HasSession
<1>3. Live' = Live /\ Key \cap Mac = {} /\ 0 \notin Addr
  BY <1>1 DEF Live, SessionConstants
<1>4. ASSUME NEW ks, lease' = Released(ks), \A k \in ks : ~HasSession(k),
             lock = "free" \/ ks \cap Key = {}
      PROVE  OwnershipInv'
  <2>1. /\ lease' \in [Key \cup Mac -> Addr \cup {0}]
        /\ LiveSessionsOwnTheirAddress' /\ LeasesAreExclusive'
        /\ \A k \in Key \cup Mac : lease'[k] = IF k \in ks THEN 0 ELSE lease[k]
    BY <1>0, <1>1, <1>4, ReleaseIsTargeted
  <2>2. CoreTypes' /\ LockIsExclusive'
    BY <1>0, <1>1, <2>1 DEF CoreTypes, LockIsExclusive
  <2>3. AdmissionIsClear'
    <3>1. step = "insert" => lease'[sess[last].key] = lease[sess[last].key]
      BY <1>0, <1>4, <2>1 DEF LockIsExclusive, CoreTypes, Session
    <3> QED
      BY <1>0, <1>1, <1>2, <1>3, <3>1 DEF AdmissionIsClear
  <2>4. LeasesAreAccountedFor'
    BY <1>0, <1>1, <1>2, <2>1 DEF LeasesAreAccountedFor
  <2> QED
    BY <2>1, <2>2, <2>3, <2>4 DEF OwnershipInv
<1>5. CASE lease' = lease
  <2>1. Quiet /\ sess' \in [Sid -> Session]
    BY <1>0, <1>1, <1>5 DEF Quiet, CoreTypes
  <2> QED
    BY <2>1, QuietOwnership
<1>6. ASSUME NEW s \in Sid, ReapStale(s) PROVE OwnershipInv'
  <2>1. CASE sess[s].key \in Keys(Live)
    BY <1>5, <1>6, <2>1 DEF ReapStale
  <2>2. CASE sess[s].key \notin Keys(Live)
    <3>1. ~HasSession(sess[s].key)
      BY <2>2 DEF HasSession, Keys, Live, NoSession
    <3> QED
      BY <1>4, <1>6, <2>2, <3>1 DEF ReapStale
  <2> QED
    BY <2>1, <2>2
<1>7. ASSUME NEW m \in Mac, DhcpRelease(m) PROVE OwnershipInv'
  <2>1. ~HasSession(m)
    BY <1>0, <1>3, OneSessionEach DEF HasSession
  <2> QED
    BY <1>3, <1>4, <1>7, <2>1 DEF DhcpRelease
<1>8. ASSUME NEW m \in Mac, DhcpLease(m) PROVE OwnershipInv'
  <2>1. PICK a \in Addr \ {lease[k] : k \in DOMAIN lease} : lease' = [lease EXCEPT ![m] = a]
    BY <1>8 DEF DhcpLease
  <2>2. /\ lease' \in [Key \cup Mac -> Addr \cup {0}] /\ lease'[m] = a
        /\ \A k \in Key \cup Mac : lease[k] # a /\ (k # m => lease'[k] = lease[k])
    BY <1>0, <2>1 DEF CoreTypes
  <2>3. \A k \in Key : lease'[k] = lease[k]
    BY <1>3, <2>2
  <2>4. CoreTypes' /\ LockIsExclusive'
    BY <1>0, <1>1, <2>2 DEF CoreTypes, LockIsExclusive
  <2>5. LeasesAreExclusive'
    <3>1. \A j, k \in Key \cup Mac : lease'[j] # 0 /\ lease'[j] = lease'[k] => j = k
      BY <1>0, <2>2 DEF LeasesAreExclusive
    <3> QED
      BY <1>0, <1>1, <3>1 DEF LeasesAreExclusive
  <2>6. LiveSessionsOwnTheirAddress'
    BY <1>0, <1>1, <2>3, OneSessionEach DEF LiveSessionsOwnTheirAddress, NoSession
  <2>7. AdmissionIsClear'
    <3>1. step = "insert" => lease'[sess[last].key] = lease[sess[last].key]
      BY <1>0, <2>3 DEF LockIsExclusive, CoreTypes, Session
    <3> QED
      BY <1>0, <1>1, <1>2, <1>3, <3>1 DEF AdmissionIsClear
  <2>8. LeasesAreAccountedFor'
    BY <1>0, <1>1, <1>2, <2>3 DEF LeasesAreAccountedFor
  <2> QED
    BY <2>4, <2>5, <2>6, <2>7, <2>8 DEF OwnershipInv
<1> QED
  BY <1>6, <1>7, <1>8

\* Every step leaves every address with its owner.
LEMMA OwnershipStep ==
  ASSUME SessionConstants, OwnershipInv, [Next]_vars
  PROVE  OwnershipInv'
<1>0. CoreTypes /\ LiveSessionsOwnTheirAddress
  BY DEF OwnershipInv
<1>1. CASE \/ \E s \in Sid : \/ AttachPrimary(s) \/ JoinLookup(s) \/ JoinAttach(s)
                             \/ StreamEnds(s) \/ Violate(s) \/ Flag(s)
           \/ UNCHANGED vars
  BY <1>0, <1>1, QuietStep, QuietOwnership
<1>2. CASE \E key \in Key, kind \in Kinds : Begin(key, kind)
  BY <1>2, BeginOwnership
<1>3. CASE Evict
  BY <1>3, EvictOwnership
<1>4. CASE TooMany \/ Exhausted \/ SetupFails
  BY <1>4, GiveUpOwnership
<1>5. CASE Room \/ Program \/ Answer
  BY <1>5, StepOwnership
<1>6. CASE Allocate
  BY <1>6, AllocateOwnership
<1>7. CASE Insert
  BY <1>7, InsertOwnership
<1>8. CASE ProgramFails \/ AnswerFails
  BY <1>8, RollbackOwnership
<1>9. CASE Retired
  BY <1>9, RetiredOwnership
<1>10. CASE \/ \E s \in Sid : Teardown(s) \/ Expel(s)
            \/ \E k \in Key : Kick(User[k])
  BY <1>0, <1>10, RemovalStep, RemovedOwnership
<1>11. CASE \/ \E s \in Sid : ReapStale(s)
            \/ \E m \in Mac : DhcpLease(m) \/ DhcpRelease(m)
  BY <1>11, PoolOwnership
<1> QED
  BY <1>1, <1>2, <1>3, <1>4, <1>5, <1>6, <1>7, <1>8, <1>9, <1>10, <1>11 DEF Next

-----------------------------------------------------------------------------
(* The kernel routes.                                                      *)

\* The networks of sessions that leave the map go with them, and only those.
LEMMA RoutesShrink ==
  ASSUME SessionConstants, CoreTypes, LiveSessionsOwnTheirAddress, RoutesHaveOwners,
         NEW S \in SUBSET Live, byIp' = Unmapped(S), routes' = Unrouted(S),
         \A s \in Sid : sess'[s].key = sess[s].key /\ sess'[s].addr = sess[s].addr
  PROVE  /\ RoutesHaveOwners' /\ Routed' = Routed \ RoutesOf(S) /\ RoutesOf(S) \subseteq Routed
<1>0. routes \in [Cidr -> Addr \cup {0}] /\ byIp \in [Addr -> Sid \cup {0}] /\ 0 \notin Addr
  BY DEF CoreTypes, SessionConstants
<1>1. \A c \in Cidr : routes'[c] = IF c \in RoutesOf(S) THEN 0 ELSE routes[c]
  BY DEF Unrouted, NoAddr
<1>2. \A a \in Addr : byIp'[a] = IF byIp[a] \in S THEN 0 ELSE byIp[a]
  BY DEF Unmapped, NoSession
<1>3. \A s \in S : s \in Sid /\ sess[s].addr \in Addr /\ byIp[sess[s].addr] = s
  BY LiveIsCurrent
<1>4. \A a \in Addr : byIp[a] \in S => sess[byIp[a]].addr = a
  <2>1. ASSUME NEW a \in Addr, byIp[a] \in S PROVE sess[byIp[a]].addr = a
    <3>1. byIp[a] # 0
      BY <1>3, <2>1, SessionNumbers
    <3> QED
      BY <3>1, OneSessionEach
  <2> QED
    BY <2>1
<1>5. RoutesOf(S) \subseteq Routed
  BY <1>0, <1>3 DEF RoutesOf, Addresses, Routed
<1>6. Routed' = Routed \ RoutesOf(S)
  BY <1>1 DEF Routed
<1>7. ASSUME NEW c \in Cidr, routes'[c] # 0
      PROVE  byIp'[routes'[c]] # 0 /\ c \in Subnets[sess'[byIp'[routes'[c]]].key]
  <2>1. c \notin RoutesOf(S) /\ routes'[c] = routes[c] /\ routes[c] \in Addr
    BY <1>0, <1>1, <1>7
  <2>2. byIp[routes[c]] # 0 /\ c \in Subnets[sess[byIp[routes[c]]].key]
    BY <1>7, <2>1 DEF RoutesHaveOwners
  <2>3. byIp[routes[c]] \notin S
    BY <1>4, <2>1 DEF RoutesOf, Addresses
  <2>4. byIp'[routes[c]] = byIp[routes[c]] /\ byIp[routes[c]] \in Sid
    BY <1>0, <1>2, <2>1, <2>2, <2>3
  <2>5. sess'[byIp[routes[c]]].key = sess[byIp[routes[c]]].key
    BY <2>4
  <2> QED
    BY <2>1, <2>2, <2>4, <2>5
<1>8. RoutesHaveOwners'
  BY <1>7 DEF RoutesHaveOwners
<1> QED
  BY <1>5, <1>6, <1>8

\* A step that changes neither the map nor the register keeps the owners.
LEMMA RoutesKept ==
  ASSUME RoutesHaveOwners, CoreTypes, UNCHANGED <<byIp, routes>>,
         \A a \in Addr : byIp[a] # 0 => sess'[byIp[a]].key = sess[byIp[a]].key
  PROVE  RoutesHaveOwners' /\ Routed' = Routed
<1>1. \A c \in Cidr : routes[c] \in Addr \cup {0}
  BY DEF CoreTypes
<1>2. Routed' = Routed
  BY DEF Routed
<1>3. ASSUME NEW c \in Cidr, routes'[c] # 0
      PROVE  byIp'[routes'[c]] # 0 /\ c \in Subnets[sess'[byIp'[routes'[c]]].key]
  <2>1. routes[c] # 0 /\ routes[c] \in Addr /\ byIp' = byIp /\ routes' = routes
    BY <1>1, <1>3
  <2>2. byIp[routes[c]] # 0 /\ c \in Subnets[sess[byIp[routes[c]]].key]
    BY <2>1 DEF RoutesHaveOwners
  <2>3. sess'[byIp[routes[c]]].key = sess[byIp[routes[c]]].key
    BY <2>1, <2>2
  <2> QED
    BY <2>1, <2>2, <2>3
<1> QED
  BY <1>2, <1>3 DEF RoutesHaveOwners

\* Every step leaves every network with its owner, and the kernel up to date.
LEMMA RoutesStep ==
  ASSUME SessionConstants, OwnershipInv, RoutesAreOwned, [Next]_vars
  PROVE  RoutesAreOwned'
<1>0. /\ CoreTypes /\ LockIsExclusive /\ LiveSessionsOwnTheirAddress /\ AdmissionIsClear
      /\ RoutesHaveOwners /\ pendingDel \cap Routed = {}
      /\ step # "program" => kernel = Routed \cup pendingDel
      /\ step = "program" => kernel = {c \in Cidr : routes[c] \notin {0, sess[last].addr}}
  BY DEF OwnershipInv, RoutesAreOwned
<1>1. \A a \in Addr : byIp[a] # 0 => byIp[a] \in Sid
  BY <1>0 DEF CoreTypes
<1>2. CASE \/ \E s \in Sid : \/ AttachPrimary(s) \/ JoinLookup(s) \/ JoinAttach(s)
                             \/ StreamEnds(s) \/ Violate(s) \/ Flag(s)
           \/ UNCHANGED vars
  <2>1. /\ UNCHANGED <<step, last, pendingDel, byIp, routes, kernel>>
        /\ \A s \in Sid : sess'[s].key = sess[s].key /\ sess'[s].addr = sess[s].addr
    BY <1>0, <1>2, QuietStep DEF Quiet
  <2>2. RoutesHaveOwners' /\ Routed' = Routed
    BY <1>0, <1>1, <2>1, RoutesKept
  <2>3. step = "program" => last \in Sid
    BY <1>0 DEF LockIsExclusive, CoreTypes
  <2> QED
    BY <1>0, <2>1, <2>2, <2>3 DEF RoutesAreOwned
<1>3. CASE \/ Exhausted \/ SetupFails \/ Answer \/ (\E s \in Sid : ReapStale(s))
           \/ \E m \in Mac : DhcpLease(m) \/ DhcpRelease(m)
  <2>1. /\ UNCHANGED <<last, sess, pendingDel, byIp, routes, kernel>>
        /\ step' = step \/ (step # "program" /\ step' = "idle")
    BY <1>3 DEF Exhausted, SetupFails, Answer, ReapStale, DhcpLease, DhcpRelease, Unlocked,
       admission, owned
  <2>2. RoutesHaveOwners' /\ Routed' = Routed
    BY <1>0, <2>1, RoutesKept
  <2> QED
    BY <1>0, <2>1, <2>2 DEF RoutesAreOwned
<1>4. CASE TooMany \/ Room \/ Retired
  <2>1. /\ UNCHANGED <<last, sess, byIp, routes>> /\ kernel' = kernel \ pendingDel
        /\ pendingDel' = {} /\ step # "program" /\ step' # "program"
    BY <1>0, <1>4 DEF TooMany, Room, Retired, Unlocked, LockIsExclusive
  <2>2. RoutesHaveOwners' /\ Routed' = Routed
    BY <1>0, <2>1, RoutesKept
  <2> QED
    BY <1>0, <2>1, <2>2 DEF RoutesAreOwned
<1>5. ASSUME NEW key \in Key, NEW kind \in Kinds, Begin(key, kind) PROVE RoutesAreOwned'
  <2>1. /\ UNCHANGED <<byIp, routes, kernel, pendingDel>> /\ lock = "free" /\ step' = "evict"
        /\ sess' = [sess EXCEPT ![last + 1] = [Blank EXCEPT !.key = key, !.kind = kind]]
    BY <1>5 DEF Begin, owned
  <2>2. \A a \in Addr : byIp[a] # 0 => byIp[a] # last + 1
    <3>1. \A a \in Addr : byIp[a] <= last /\ byIp[a] \in Nat /\ last \in Nat
      BY <1>0, SessionNumbers DEF OwnershipInv, LeasesAreExclusive, CoreTypes
    <3> QED
      BY <3>1
  <2>3. \A a \in Addr : byIp[a] # 0 => sess'[byIp[a]].key = sess[byIp[a]].key
    BY <1>0, <1>1, <2>1, <2>2 DEF CoreTypes
  <2>4. RoutesHaveOwners' /\ Routed' = Routed
    BY <1>0, <2>1, <2>3, RoutesKept
  <2> QED
    BY <1>0, <2>1, <2>4 DEF RoutesAreOwned, LockIsExclusive
<1>6. CASE Allocate
  <2>1. /\ UNCHANGED <<last, byIp, routes, kernel, pendingDel>> /\ step = "lease" /\ step' = "insert"
        /\ sess' = [sess EXCEPT ![last].addr = lease'[me]]
    BY <1>6 DEF Allocate, self
  <2>2. \A a \in Addr : byIp[a] # 0 => sess'[byIp[a]].key = sess[byIp[a]].key
    BY <1>0, <1>1, <2>1 DEF CoreTypes, Session
  <2>3. RoutesHaveOwners' /\ Routed' = Routed
    BY <1>0, <2>1, <2>2, RoutesKept
  <2> QED
    BY <1>0, <2>1, <2>3 DEF RoutesAreOwned
<1>7. CASE Evict
  <2>1. /\ victims \in SUBSET Live /\ step = "evict" /\ step' = "capacity" /\ pendingDel = {}
        /\ sess' = Revoked(victims) /\ UNCHANGED kernel
    BY <1>0, <1>7 DEF Evict, AdmissionIsClear, LockIsExclusive
  <2>2. {s \in victims : IsCurrent(s)} = victims
    BY <1>0, <2>1, LiveIsCurrent
  <2>3. byIp' = Unmapped(victims) /\ routes' = Unrouted(victims) /\ pendingDel' = RoutesOf(victims)
    BY <1>7, <2>2 DEF Evict
  <2>4. /\ RoutesHaveOwners' /\ Routed' = Routed \ RoutesOf(victims)
        /\ RoutesOf(victims) \subseteq Routed
    BY <1>0, <2>1, <2>3, RevokedSession, RoutesShrink
  <2> QED
    BY <1>0, <2>1, <2>3, <2>4 DEF RoutesAreOwned
<1>8. CASE \/ \E s \in Sid : Teardown(s) \/ Expel(s)
           \/ \E k \in Key : Kick(User[k])
  <2>1. PICK S \in SUBSET Live : Removed(S)
    BY <1>0, <1>8, RemovalStep
  <2>2. RoutesHaveOwners' /\ Routed' = Routed \ RoutesOf(S) /\ RoutesOf(S) \subseteq Routed
    BY <1>0, <2>1, RoutesShrink DEF Removed
  <2>3. step = "idle" /\ step' = step /\ pendingDel = {} /\ pendingDel' = RoutesOf(S)
        /\ kernel' = kernel
    BY <1>0, <2>1 DEF Removed, LockIsExclusive
  <2> QED
    BY <1>0, <2>2, <2>3 DEF RoutesAreOwned
<1>9. CASE ProgramFails \/ AnswerFails
  <2> DEFINE a == sess[last].addr
  <2>1. /\ step \in {"program", "answer"} /\ {last} \in SUBSET Live /\ a \in Addr
        /\ \A s \in Sid : sess'[s].key = sess[s].key /\ sess'[s].addr = sess[s].addr
        /\ byIp' = Unmapped({last}) /\ routes' = Unrouted({last})
        /\ kernel' = kernel \ RoutesOf({last}) /\ step' = "idle"
        /\ pendingDel' = {} /\ pendingDel = {}
    BY <1>9, RollbackShape
  <2>2. RoutesHaveOwners' /\ Routed' = Routed \ RoutesOf({last}) /\ RoutesOf({last}) \subseteq Routed
    BY <1>0, <2>1, RoutesShrink
  <2>3. RoutesOf({last}) = {c \in Cidr : routes[c] = a}
    BY DEF RoutesOf, Addresses
  <2>4. kernel' = Routed'
    <3>1. CASE step = "program"
      BY <1>0, <2>1, <2>2, <2>3, <3>1 DEF Routed
    <3>2. CASE step = "answer"
      BY <1>0, <2>1, <2>2, <3>2
    <3> QED
      BY <2>1, <3>1, <3>2
  <2> QED
    BY <2>1, <2>2, <2>4 DEF RoutesAreOwned
<1>10. CASE Program
  <2>1. /\ UNCHANGED <<last, sess, byIp, routes, pendingDel>> /\ step = "program" /\ step' = "answer"
        /\ kernel' = kernel \cup RoutesOf({last}) /\ pendingDel = {} /\ last \in Sid
    BY <1>0, <1>10 DEF Program, self, LockIsExclusive, CoreTypes
  <2>2. RoutesHaveOwners' /\ Routed' = Routed
    BY <1>0, <2>1, RoutesKept
  <2>3. RoutesOf({last}) = {c \in Cidr : routes[c] = sess[last].addr} /\ sess[last].addr # 0
    BY <1>0, <2>1 DEF RoutesOf, Addresses, AdmissionIsClear
  <2>4. kernel' = Routed
    BY <1>0, <2>1, <2>3 DEF Routed
  <2> QED
    BY <2>1, <2>2, <2>4 DEF RoutesAreOwned
<1>11. CASE Insert
  <2> DEFINE a == sess[last].addr
  <2>1. /\ step = "insert" /\ step' = "program" /\ a \in Addr /\ byIp[a] = 0 /\ last \in Sid
        /\ byIp' = [byIp EXCEPT ![a] = last] /\ kernel' = kernel
        /\ \A s \in Sid : sess'[s].key = sess[s].key /\ sess'[s].addr = sess[s].addr
        /\ routes' = [c \in Cidr |-> IF c \in Subnets[sess[last].key] /\ routes[c] = 0
                                     THEN a ELSE routes[c]]
        /\ UNCHANGED <<last, pendingDel>> /\ pendingDel = {}
    BY <1>0, <1>11, InsertShape DEF LockIsExclusive
  <2>2. a # 0 /\ last # 0
    BY <2>1, SessionNumbers DEF SessionConstants
  <2>3. \A c \in Cidr : routes[c] # 0 => routes[c] \in Addr /\ routes[c] # a
    BY <1>0, <2>1 DEF RoutesHaveOwners, CoreTypes
  <2>4. byIp'[a] = last /\ \A b \in Addr : b # a => byIp'[b] = byIp[b]
    BY <1>0, <2>1 DEF CoreTypes
  <2>5. ASSUME NEW c \in Cidr, routes'[c] # 0
        PROVE  byIp'[routes'[c]] # 0 /\ c \in Subnets[sess'[byIp'[routes'[c]]].key]
    <3>1. CASE routes[c] = 0
      <4>1. c \in Subnets[sess[last].key] /\ routes'[c] = a
        BY <2>1, <2>5, <3>1
      <4> QED
        BY <2>1, <2>2, <2>4, <4>1
    <3>2. CASE routes[c] # 0
      <4>1. routes'[c] = routes[c] /\ routes[c] \in Addr /\ routes[c] # a
        BY <2>1, <2>3, <3>2
      <4>2. byIp[routes[c]] # 0 /\ c \in Subnets[sess[byIp[routes[c]]].key]
        BY <1>0, <3>2 DEF RoutesHaveOwners
      <4>3. byIp'[routes[c]] = byIp[routes[c]] /\ byIp[routes[c]] \in Sid
        BY <1>1, <2>4, <4>1, <4>2
      <4>4. sess'[byIp[routes[c]]].key = sess[byIp[routes[c]]].key
        BY <2>1, <4>3
      <4> QED
        BY <4>1, <4>2, <4>3, <4>4
    <3> QED
      BY <3>1, <3>2
  <2>6. RoutesHaveOwners'
    BY <2>5 DEF RoutesHaveOwners
  <2>7. kernel' = {c \in Cidr : routes'[c] \notin {0, a}}
    <3>1. kernel = {c \in Cidr : routes[c] # 0}
      BY <1>0, <2>1 DEF Routed
    <3>2. \A c \in Cidr : routes[c] # 0 <=> routes'[c] \notin {0, a}
      BY <2>1, <2>3
    <3> QED
      BY <2>1, <3>1, <3>2
  <2> QED
    BY <2>1, <2>6, <2>7 DEF RoutesAreOwned
<1> QED
  BY <1>2, <1>3, <1>4, <1>5, <1>6, <1>7, <1>8, <1>9, <1>10, <1>11 DEF Next

-----------------------------------------------------------------------------
(* The limits.                                                             *)

\* The sessions of a login are finitely many.
LEMMA LoginSessions ==
  ASSUME SessionConstants, CoreTypes, NEW k
  PROVE  IsFiniteSet(LiveOf(k)) /\ Cardinality(LiveOf(k)) \in Nat /\ LiveOf(k) \subseteq Live
<1>1. LiveOf(k) \subseteq Live
  BY DEF LiveOf
<1> QED
  BY <1>1, LiveSessions, FS_Subset, FS_CardinalityType

\* Sessions that leave make room.
LEMMA CapsShrink ==
  ASSUME SessionConstants, CoreTypes, CapsHold, Live' \subseteq Live,
         \A s \in Live : sess'[s].key = sess[s].key
  PROVE  /\ CapsHold' /\ Cardinality(Live') \in Nat /\ Cardinality(Live') <= Cardinality(Live)
         /\ \A k : /\ LiveOf(k)' = LiveOf(k) \cap Live' /\ Cardinality(LiveOf(k)') \in Nat
                   /\ Cardinality(LiveOf(k)') <= Cardinality(LiveOf(k))
<1>1. MaxClients \in Nat /\ MaxSessions \in Nat
  BY DEF SessionConstants
<1>2. IsFiniteSet(Live) /\ Cardinality(Live) \in Nat
  BY LiveSessions
<1>3. Cardinality(Live') <= Cardinality(Live) /\ Cardinality(Live') \in Nat
  BY <1>2, FS_Subset, FS_CardinalityType
<1>4. ASSUME NEW k
      PROVE  /\ LiveOf(k)' = LiveOf(k) \cap Live' /\ Cardinality(LiveOf(k)') \in Nat
             /\ Cardinality(LiveOf(k)') <= Cardinality(LiveOf(k))
  <2>1. LiveOf(k)' = LiveOf(k) \cap Live'
    BY DEF LiveOf
  <2>2. IsFiniteSet(LiveOf(k)) /\ LiveOf(k)' \subseteq LiveOf(k)
    BY <2>1, LoginSessions
  <2> QED
    BY <2>1, <2>2, FS_Subset, FS_CardinalityType
<1>5. MaxSessions > 0 => \A k \in Key : Cardinality(LiveOf(k)) <= MaxSessions
  BY DEF CapsHold, LiveOf
<1>6. Cardinality(Live') <= MaxClients
  BY <1>1, <1>2, <1>3 DEF CapsHold
<1>7. MaxSessions > 0 => \A k \in Key : Cardinality(LiveOf(k)') <= MaxSessions
  <2>1. ASSUME MaxSessions > 0, NEW k \in Key PROVE Cardinality(LiveOf(k)') <= MaxSessions
    BY <1>1, <1>4, <1>5, <2>1, LoginSessions
  <2> QED
    BY <2>1
<1>8. CapsHold'
  BY <1>6, <1>7 DEF CapsHold, LiveOf
<1> QED
  BY <1>3, <1>4, <1>8

\* A new admission chooses its victims so that there is room for one more.
LEMMA VictimsMakeRoom ==
  ASSUME SessionConstants, CoreTypes, MaxSessions > 0, NEW key \in Key
  PROVE  Cardinality(LiveOf(key) \ Victims(key)) < MaxSessions
<1> DEFINE mine == {s \in Live : sess[s].key = key}
           holder == {s \in Live : Fixed[key] # NoAddr /\ sess[s].addr = Fixed[key]}
           others == {s \in Live : User[sess[s].key] = User[key]} \ (mine \cup holder)
           left == others \ OldestBeyondCap(others, MaxSessions - 1)
<1>1. MaxSessions \in Nat /\ MaxSessions - 1 \in Nat
  BY DEF SessionConstants
<1>2. others \in SUBSET Nat /\ IsFiniteSet(others)
  <2>1. others \subseteq Live /\ Live \subseteq Nat /\ IsFiniteSet(Live)
    BY LiveSessions, SessionNumbers
  <2> QED
    BY <2>1, FS_Subset
<1>3. LiveOf(key) \ Victims(key) \subseteq left
  BY <1>1 DEF LiveOf, Victims
<1> HIDE DEF others
<1>4. IsFiniteSet(left) /\ Cardinality(left) <= MaxSessions - 1
  BY <1>1, <1>2, NewestFitTheRoom
<1> HIDE DEF left
<1>5. /\ Cardinality(LiveOf(key) \ Victims(key)) <= Cardinality(left)
      /\ Cardinality(left) \in Nat /\ Cardinality(LiveOf(key) \ Victims(key)) \in Nat
  BY <1>3, <1>4, FS_Subset, FS_CardinalityType
<1> QED
  BY <1>1, <1>4, <1>5

\* The limits hold in every state, whatever is in progress.
LEMMA CapsStep ==
  ASSUME SessionConstants, OwnershipInv, RoomIsReserved, [Next]_vars
  PROVE  RoomIsReserved'
<1>0. /\ CoreTypes /\ LockIsExclusive /\ LiveSessionsOwnTheirAddress /\ AdmissionIsClear
      /\ CapsHold
  BY DEF OwnershipInv, RoomIsReserved
<1>1. Live \subseteq Sid /\ IsFiniteSet(Live) /\ Cardinality(Live) \in Nat
  BY <1>0, LiveSessions
<1>2. step # "idle" => last \in Sid
  BY <1>0 DEF LockIsExclusive, CoreTypes
<1>3. ASSUME UNCHANGED <<step, last, byIp, victims>>,
             \A s \in Sid : sess'[s].key = sess[s].key
      PROVE  RoomIsReserved'
  <2>1. Live' = Live
    BY <1>3 DEF Live
  <2>2. CapsHold' /\ \A k : LiveOf(k)' = LiveOf(k)
    <3>1. CapsHold' /\ \A k : LiveOf(k)' = LiveOf(k) \cap Live'
      BY <1>0, <1>1, <1>3, <2>1, CapsShrink
    <3> QED
      BY <2>1, <3>1 DEF LiveOf
  <2>3. step # "idle" => LiveOf(sess[last].key)' = LiveOf(sess[last].key)
    BY <1>2, <1>3, <2>1, <1>1 DEF LiveOf
  <2> QED
    BY <1>3, <2>1, <2>2, <2>3 DEF RoomIsReserved
<1>4. CASE \/ \E s \in Sid : \/ AttachPrimary(s) \/ JoinLookup(s) \/ JoinAttach(s)
                             \/ StreamEnds(s) \/ Violate(s) \/ Flag(s)
           \/ UNCHANGED vars
  BY <1>0, <1>3, <1>4, QuietStep DEF Quiet
<1>5. CASE \/ \E s \in Sid : ReapStale(s)
           \/ \E m \in Mac : DhcpLease(m) \/ DhcpRelease(m)
  BY <1>3, <1>5 DEF ReapStale, DhcpLease, DhcpRelease, admission
<1>6. ASSUME Live' \subseteq Live, \A s \in Live : sess'[s].key = sess[s].key,
             step' \in {"idle", "program", "answer"}
      PROVE  RoomIsReserved'
  <2>1. CapsHold'
    BY <1>0, <1>6, CapsShrink
  <2> QED
    BY <1>6, <2>1 DEF RoomIsReserved
<1>7. CASE TooMany \/ Exhausted \/ SetupFails \/ Program \/ Answer \/ Retired
  <2>1. Live' = Live /\ sess' = sess /\ step' \in {"idle", "program", "answer"}
    BY <1>0, <1>7 DEF TooMany, Exhausted, SetupFails, Program, Answer, Retired, Unlocked, owned,
       LockIsExclusive, Live
  <2> QED
    BY <1>6, <2>1
<1>8. CASE ProgramFails \/ AnswerFails
  <2>1. byIp' = Unmapped({last}) /\ step' = "idle" /\ \A s \in Sid : sess'[s].key = sess[s].key
    BY <1>8, RollbackShape
  <2>2. Live' \subseteq Live
    BY <2>1 DEF Live, Unmapped, NoSession
  <2> QED
    BY <1>1, <1>6, <2>1, <2>2
<1>9. CASE \/ \E s \in Sid : Teardown(s) \/ Expel(s)
           \/ \E k \in Key : Kick(User[k])
  <2>1. PICK S \in SUBSET Live : Removed(S)
    BY <1>0, <1>9, RemovalStep
  <2>2. byIp' = Unmapped(S) /\ step' = "idle" /\ \A s \in Sid : sess'[s].key = sess[s].key
    BY <1>0, <2>1 DEF Removed, LockIsExclusive
  <2>3. Live' \subseteq Live
    BY <2>2 DEF Live, Unmapped, NoSession
  <2> QED
    BY <1>1, <1>6, <2>2, <2>3
<1>10. ASSUME NEW key \in Key, NEW kind \in Kinds, Begin(key, kind) PROVE RoomIsReserved'
  <2>1. /\ byIp' = byIp /\ step' = "evict" /\ last' = last + 1 /\ last + 1 \in Sid
        /\ victims' = Victims(key)
        /\ sess' = [sess EXCEPT ![last + 1] = [Blank EXCEPT !.key = key, !.kind = kind]]
    BY <1>10 DEF Begin, owned
  <2>2. Live' = Live
    BY <2>1 DEF Live
  <2>3. \A s \in Live : s # last + 1
    <3>1. \A a \in Addr : byIp[a] <= last /\ byIp[a] \in Nat /\ last \in Nat
      BY <1>0, SessionNumbers DEF OwnershipInv, LeasesAreExclusive, CoreTypes
    <3> QED
      BY <3>1 DEF Live
  <2>4. \A s \in Live : sess'[s].key = sess[s].key
    BY <1>0, <1>1, <2>1, <2>3 DEF CoreTypes
  <2>5. sess'[last'].key = key
    <3>1. [Blank EXCEPT !.key = key, !.kind = kind].key = key
      BY BlankSession DEF Session
    <3> QED
      BY <1>0, <2>1, <3>1 DEF CoreTypes
  <2>6. CapsHold'
    BY <1>0, <2>2, <2>4, CapsShrink
  <2>7. LiveOf(sess[last].key)' = LiveOf(key)
    BY <2>2, <2>4, <2>5 DEF LiveOf
  <2>8. MaxSessions > 0 => Cardinality(LiveOf(key) \ Victims(key)) < MaxSessions
    BY <1>0, VictimsMakeRoom
  <2> QED
    BY <2>1, <2>6, <2>7, <2>8 DEF RoomIsReserved
<1>11. CASE Evict
  <2>1. /\ victims \subseteq Live /\ step = "evict" /\ step' = "capacity" /\ last' = last
        /\ sess' = Revoked(victims) /\ last \in Sid
    BY <1>0, <1>2, <1>11 DEF Evict, AdmissionIsClear
  <2>2. {s \in victims : IsCurrent(s)} = victims
    BY <1>0, <2>1, LiveIsCurrent
  <2>3. byIp' = Unmapped(victims)
    BY <1>11, <2>2 DEF Evict
  <2>4. Live' = Live \ victims
    BY <1>1, <2>1, <2>3, SessionNumbers DEF Live, Unmapped, NoSession
  <2>5. \A s \in Sid : sess'[s].key = sess[s].key
    BY <1>0, <2>1, RevokedSession
  <2>6. CapsHold'
    BY <1>0, <1>1, <2>4, <2>5, CapsShrink
  <2>7. LiveOf(sess[last].key)' = LiveOf(sess[last].key) \ victims
    BY <1>1, <2>1, <2>4, <2>5 DEF LiveOf
  <2> QED
    BY <2>1, <2>6, <2>7 DEF RoomIsReserved
<1>12. CASE Room \/ Allocate
  <2>1. /\ last \in Sid /\ last' = last /\ byIp' = byIp
        /\ \/ step = "capacity" /\ step' = "lease" /\ Cardinality(Live) < MaxClients
           \/ step = "lease" /\ step' = "insert"
    BY <1>2, <1>12 DEF Room, Allocate
  <2>2. Live' = Live
    BY <2>1 DEF Live
  <2>3. \A s \in Sid : sess'[s].key = sess[s].key
    BY <1>0, <1>12 DEF Room, Allocate, CoreTypes, Session
  <2>4. CapsHold'
    BY <1>0, <1>1, <2>2, <2>3, CapsShrink
  <2>5. LiveOf(sess[last].key)' = LiveOf(sess[last].key)
    BY <1>1, <2>1, <2>2, <2>3 DEF LiveOf
  <2> QED
    BY <2>1, <2>2, <2>4, <2>5 DEF RoomIsReserved
<1>13. CASE Insert
  <2>1. /\ step = "insert" /\ step' = "program" /\ last \in Sid
        /\ byIp' = [byIp EXCEPT ![sess[last].addr] = last] /\ byIp[sess[last].addr] = 0
        /\ sess[last].addr \in Addr
        /\ \A s \in Sid : sess'[s].key = sess[s].key
    BY <1>13, InsertShape
  <2>2. Live' = Live \cup {last}
    BY <1>0, <2>1, SessionNumbers DEF Live, NoSession, CoreTypes
  <2>3. /\ Cardinality(Live) < MaxClients /\ MaxClients \in Nat /\ MaxSessions \in Nat
        /\ MaxSessions > 0 => Cardinality(LiveOf(sess[last].key)) < MaxSessions
    BY <2>1 DEF RoomIsReserved, SessionConstants
  <2>4. \A S : IsFiniteSet(S) => /\ Cardinality(S \cup {last}) <= Cardinality(S) + 1
                                 /\ Cardinality(S) \in Nat /\ Cardinality(S \cup {last}) \in Nat
    <3>1. ASSUME NEW S, IsFiniteSet(S)
          PROVE  /\ Cardinality(S \cup {last}) <= Cardinality(S) + 1
                 /\ Cardinality(S) \in Nat /\ Cardinality(S \cup {last}) \in Nat
      <4>1. Cardinality(S) \in Nat
        BY <3>1, FS_CardinalityType
      <4>2. Cardinality(S \cup {last}) = IF last \in S THEN Cardinality(S) ELSE Cardinality(S) + 1
        BY <3>1, FS_AddElement
      <4> QED
        BY <4>1, <4>2
    <3> QED
      BY <3>1
  <2>5. Cardinality(Live') <= MaxClients
    BY <1>1, <2>2, <2>3, <2>4
  <2>6. ASSUME MaxSessions > 0, NEW k \in Key PROVE Cardinality(LiveOf(k)') <= MaxSessions
    <3>1. IsFiniteSet(LiveOf(k)) /\ Cardinality(LiveOf(k)) \in Nat
      BY <1>0, LoginSessions
    <3>2. CASE User[sess[last].key] = User[k]
      <4>1. LiveOf(k)' = LiveOf(k) \cup {last}
        BY <1>1, <2>1, <2>2, <3>2 DEF LiveOf
      <4>2. LiveOf(k) = LiveOf(sess[last].key)
        BY <3>2 DEF LiveOf
      <4>3. Cardinality(LiveOf(k)) < MaxSessions
        BY <2>3, <2>6, <4>2
      <4> QED
        BY <2>3, <2>4, <3>1, <4>1, <4>3
    <3>3. CASE User[sess[last].key] # User[k]
      <4>1. LiveOf(k)' = LiveOf(k)
        BY <1>1, <2>1, <2>2, <3>3 DEF LiveOf
      <4> QED
        BY <1>0, <2>6, <4>1 DEF CapsHold, LiveOf
    <3> QED
      BY <3>2, <3>3
  <2>7. CapsHold'
    BY <2>5, <2>6 DEF CapsHold, LiveOf
  <2> QED
    BY <2>1, <2>7 DEF RoomIsReserved
<1> QED
  BY <1>4, <1>5, <1>7, <1>8, <1>9, <1>10, <1>11, <1>12, <1>13 DEF Next

-----------------------------------------------------------------------------
(* The theorems.                                                           *)

\* An idle profile with nothing in its map is in order.
LEMMA SessionInit ==
  ASSUME SessionConstants, Init
  PROVE  SessionInv
<1>0. /\ lock = "free" /\ step = "idle" /\ last = 0 /\ sess = [s \in Sid |-> Blank]
      /\ byIp = [a \in Addr |-> 0] /\ lease = [k \in Key \cup Mac |-> 0]
      /\ victims = {} /\ retiring = {} /\ routes = [c \in Cidr |-> 0]
      /\ pendingDel = {} /\ kernel = {}
  BY DEF Init, NoAddr, NoSession
<1>1. CoreTypes
  BY <1>0, BlankSession DEF CoreTypes
<1>2. LockIsExclusive /\ LiveSessionsOwnTheirAddress /\ LeasesAreExclusive
  BY <1>0 DEF LockIsExclusive, LiveSessionsOwnTheirAddress, LeasesAreExclusive, NoSession
<1>3. AdmissionIsClear /\ LeasesAreAccountedFor /\ RoutesAreOwned
  BY <1>0 DEF AdmissionIsClear, LeasesAreAccountedFor, RoutesAreOwned, RoutesHaveOwners, Routed
<1>4. FlowTypes /\ StreamsAreCounted
  <2>1. /\ streams = [s \in Sid |-> 0] /\ lookups = [s \in Sid |-> 0] /\ joining = [s \in Sid |-> 0]
        /\ primary = [s \in Sid |-> "none"] /\ torn = [s \in Sid |-> 0] /\ flagged = {}
    BY DEF Init
  <2> QED
    BY <2>1 DEF FlowTypes, StreamsAreCounted, Due, SessionConstants
<1>5. CapsHold
  <2>1. Live = {} /\ Cardinality({}) = 0
    BY <1>0, FS_EmptySet DEF Live, NoSession
  <2>2. \A k : {s \in Live : User[sess[s].key] = User[k]} = {}
    BY <2>1
  <2>3. MaxClients \in Nat /\ MaxSessions \in Nat
    BY DEF SessionConstants
  <2> QED
    BY <2>1, <2>2, <2>3 DEF CapsHold
<1>6. RoomIsReserved
  BY <1>0, <1>5 DEF RoomIsReserved
<1> QED
  BY <1>1, <1>2, <1>3, <1>4, <1>6 DEF SessionInv, OwnershipInv

\* The invariant is inductive.
LEMMA SessionStep ==
  ASSUME SessionConstants, SessionInv, [Next]_vars
  PROVE  SessionInv'
<1>1. OwnershipInv /\ CoreTypes /\ LockIsExclusive /\ FlowTypes /\ StreamsAreCounted
      /\ RoutesAreOwned /\ RoomIsReserved
  BY DEF SessionInv, OwnershipInv
<1> QED
  BY <1>1, OwnershipStep, FlowStep, RoutesStep, CapsStep DEF SessionInv

\* What it says when the lock is free, and of the limits at any time.
LEMMA SessionOwnership ==
  ASSUME SessionConstants, SessionInv
  PROVE  SessionsOwnTheirResources
<1>0. /\ CoreTypes /\ LockIsExclusive /\ LiveSessionsOwnTheirAddress /\ LeasesAreAccountedFor
      /\ FlowTypes /\ RoutesAreOwned /\ CapsHold
  BY DEF SessionInv, OwnershipInv, RoomIsReserved
<1>1. TypeOK
  BY <1>0, TypesInParts
<1>2. NoOrphanLease
  <2>1. ASSUME lock = "free", retiring = {}, NEW k \in Key, lease[k] # 0 PROVE k \in Keys(Live)
    <3>1. HasSession(k)
      BY <1>0, <2>1 DEF LeasesAreAccountedFor, LockIsExclusive
    <3> QED
      BY <3>1 DEF HasSession, Keys, Live, NoSession
  <2> QED
    BY <2>1 DEF NoOrphanLease, NoAddr
<1>3. RoutesFollowSessions
  <2>1. ASSUME lock = "free"
        PROVE  /\ kernel = {c \in Cidr : routes[c] # 0}
               /\ \A c \in kernel : byIp[routes[c]] # 0 /\ c \in Subnets[sess[byIp[routes[c]]].key]
    BY <1>0, <2>1 DEF RoutesAreOwned, RoutesHaveOwners, Routed, LockIsExclusive
  <2> QED
    BY <2>1 DEF RoutesFollowSessions, NoAddr, NoSession
<1> QED
  BY <1>0, <1>1, <1>2, <1>3 DEF SessionsOwnTheirResources

\* The map, the leases, the kernel routes and the limits agree at any time: every
\* session in the map holds the lease of its address, no lease and no kernel route
\* is left behind by a failed admission, an eviction or a teardown, and neither
\* max_clients nor max_sessions is exceeded, for any number of devices, logins,
\* addresses, sessions and streams.
THEOREM SessionResources ==
  ASSUME SessionConstants
  PROVE  Spec => []SessionsOwnTheirResources
<1>1. Init => SessionInv
  BY SessionInit
<1>2. SessionInv /\ [Next]_vars => SessionInv'
  BY SessionStep
<1>3. SessionInv => SessionsOwnTheirResources
  BY SessionOwnership
<1> QED
  BY <1>1, <1>2, <1>3, PTL DEF Spec

\* Sessions that stay in the map are no concern of the property.
LEMMA StaysInTheMap ==
  ASSUME SessionConstants, CoreTypes, NEW s \in Live, NEW S, byIp' = Unmapped(S), s \notin S
  PROVE  \E a \in Addr : byIp'[a] = s
<1>1. PICK a \in Addr : byIp[a] = s
  BY LiveSessions
<1>2. byIp'[a] = s
  BY <1>1 DEF Unmapped
<1> QED
  BY <1>2

\* Whoever leaves the map was named by the step that removes it.
LEMMA LeavingStep ==
  ASSUME SessionConstants, OwnershipInv, [Next]_vars
  PROVE  LeavesOnItsOwn
<1>0. CoreTypes /\ LiveSessionsOwnTheirAddress /\ AdmissionIsClear
  BY DEF OwnershipInv
<1> SUFFICES ASSUME NEW s \in Live, ~(\E a \in Addr : byIp'[a] = s)
             PROVE  \/ s \in victims \cup flagged \/ torn[s] > 0
                    \/ s = self /\ step \in {"program", "answer"}
                    \/ Kick(User[sess[s].key])
  BY Zenon DEF LeavesOnItsOwn
<1>1. byIp' # byIp
  BY <1>0, LiveSessions
<1>2. CASE Evict
  <2>1. byIp' = Unmapped({t \in victims : IsCurrent(t)})
    BY <1>2 DEF Evict
  <2> QED
    BY <1>0, <2>1, StaysInTheMap
<1>3. CASE Insert
  <2>1. /\ sess[last].addr \in Addr /\ byIp[sess[last].addr] = 0
        /\ byIp' = [byIp EXCEPT ![sess[last].addr] = last]
    BY <1>3, InsertShape
  <2>2. PICK a \in Addr : byIp[a] = s /\ s # 0
    BY <1>0, LiveSessions
  <2>3. byIp'[a] = s
    BY <1>0, <2>1, <2>2 DEF CoreTypes
  <2> QED
    BY <2>3
<1>4. CASE ProgramFails \/ AnswerFails
  <2>1. step \in {"program", "answer"} /\ byIp' = Unmapped({last})
    BY <1>4, RollbackShape
  <2> QED
    BY <1>0, <2>1, StaysInTheMap DEF self
<1>5. ASSUME NEW t \in Sid, Teardown(t) PROVE torn[s] > 0
  <2>1. torn[t] > 0 /\ byIp' = Unmapped({x \in {t} : IsCurrent(x)})
    BY <1>5 DEF Teardown, Retire
  <2> QED
    BY <1>0, <2>1, StaysInTheMap
<1>6. ASSUME NEW t \in Sid, Expel(t) PROVE s \in flagged
  <2>1. t \in flagged /\ byIp' = Unmapped({x \in {t} : IsCurrent(x)})
    BY <1>6 DEF Expel, Retire
  <2> QED
    BY <1>0, <2>1, StaysInTheMap
<1>7. ASSUME NEW k \in Key, Kick(User[k]) PROVE Kick(User[sess[s].key])
  <2>1. byIp' = Unmapped({x \in Live : User[sess[x].key] = User[k]})
    BY <1>7 DEF Kick, Retire
  <2>2. User[sess[s].key] = User[k]
    BY <1>0, <2>1, StaysInTheMap
  <2> QED
    BY <1>7, <2>2
<1>8. ASSUME UNCHANGED byIp PROVE FALSE
  BY <1>1, <1>8
<1>9. CASE UNCHANGED vars
  BY <1>8, <1>9 DEF vars
<1>10. ASSUME NEW key \in Key, NEW kind \in Kinds, Begin(key, kind) PROVE FALSE
  BY <1>8, <1>10 DEF Begin, owned
<1>11. CASE TooMany \/ Room \/ Allocate \/ Exhausted \/ SetupFails \/ Program \/ Answer \/ Retired
  BY <1>8, <1>11 DEF TooMany, Room, Allocate, Exhausted, SetupFails, Program, Answer, Retired, owned
<1>12. ASSUME NEW t \in Sid,
              \/ AttachPrimary(t) \/ JoinLookup(t) \/ JoinAttach(t) \/ StreamEnds(t)
              \/ Violate(t) \/ Flag(t) \/ ReapStale(t)
       PROVE  FALSE
  BY <1>8, <1>12 DEF AttachPrimary, JoinLookup, JoinAttach, StreamEnds, Violate, Flag, ReapStale, owned
<1>13. ASSUME NEW m \in Mac, DhcpLease(m) \/ DhcpRelease(m) PROVE FALSE
  BY <1>8, <1>13 DEF DhcpLease, DhcpRelease
<1> QED
  BY <1>2, <1>3, <1>4, <1>5, <1>6, <1>7, <1>9, <1>10, <1>11, <1>12, <1>13 DEF Next

\* try_add_stream refuses a revoked session, whoever asks.
LEMMA RefusedStep ==
  ASSUME SessionConstants, FlowTypes, [Next]_vars
  PROVE  NoStreamAfterKick
<1> SUFFICES ASSUME NEW s \in Sid, sess[s].revoked PROVE streams'[s] <= streams[s]
  BY DEF NoStreamAfterKick
<1>0. streams \in [Sid -> Nat] /\ streams[s] <= streams[s]
  BY DEF FlowTypes, SessionConstants
<1>1. ASSUME NEW t \in Sid, streams' = Attached(t) PROVE streams'[s] <= streams[s]
  BY <1>0, <1>1 DEF Attached, MayAttach
<1>2. CASE streams' = streams
  BY <1>0, <1>2
<1>3. ASSUME NEW t \in Sid, AttachPrimary(t) \/ JoinAttach(t) PROVE streams'[s] <= streams[s]
  BY <1>1, <1>3 DEF AttachPrimary, JoinAttach
<1>4. ASSUME NEW t \in Sid, StreamEnds(t) PROVE streams'[s] <= streams[s]
  BY <1>0, <1>4 DEF StreamEnds
<1>5. ASSUME NEW t \in Sid,
             JoinLookup(t) \/ Violate(t) \/ Teardown(t) \/ Flag(t) \/ Expel(t) \/ ReapStale(t)
      PROVE  streams' = streams
  BY <1>5 DEF JoinLookup, Violate, Teardown, Flag, Expel, ReapStale, flow
<1>6. ASSUME NEW key \in Key, NEW kind \in Kinds, Begin(key, kind) PROVE streams' = streams
  BY <1>6 DEF Begin, flow
<1>7. CASE \/ Evict \/ TooMany \/ Room \/ Allocate \/ Exhausted \/ SetupFails
           \/ Insert \/ Program \/ ProgramFails \/ AnswerFails \/ Answer \/ Retired \/ UNCHANGED vars
  <2>1. streams' = streams
    BY <1>7 DEF Evict, TooMany, Room, Allocate, Exhausted, SetupFails, Insert, Program,
       ProgramFails, AnswerFails, Rollback, Answer, Retired, flow, vars
  <2> QED
    BY <1>2, <2>1
<1>8. ASSUME NEW k \in Key, Kick(User[k]) PROVE streams' = streams
  BY <1>8 DEF Kick, flow
<1>9. ASSUME NEW m \in Mac, DhcpLease(m) \/ DhcpRelease(m) PROVE streams' = streams
  BY <1>9 DEF DhcpLease, DhcpRelease, flow
<1> QED
  BY <1>2, <1>3, <1>4, <1>5, <1>6, <1>7, <1>8, <1>9 DEF Next

\* Both, for a step of anybody.
LEMMA EndingStep ==
  ASSUME SessionConstants, SessionInv, [Next]_vars
  PROVE  EndsOnItsOwn
BY LeavingStep, RefusedStep DEF SessionInv, EndsOnItsOwn

\* A session leaves the map on its own account only - evicted by the admission
\* under way, flagged itself, kicked, out of streams, or taken back by its own
\* admission - and no stream attaches to one that was revoked, whenever its JOIN
\* looked it up.
THEOREM SessionsEndOnTheirOwn ==
  ASSUME SessionConstants
  PROVE  Spec => NobodyElseEndsASession
<1>1. Init => SessionInv
  BY SessionInit
<1>2. SessionInv /\ [Next]_vars => SessionInv'
  BY SessionStep
<1>3. SessionInv /\ [Next]_vars => [EndsOnItsOwn]_vars
  BY EndingStep
<1> QED
  BY <1>1, <1>2, <1>3, PTL DEF Spec, NobodyElseEndsASession

-----------------------------------------------------------------------------
(* The UDP handshake (UdpHandshake), for any number of sources, any cap on *)
(* half-open entries, and a network that loses, repeats and reorders.      *)
(*                                                                         *)
(* An AUTH task keeps its entry until its answer is published: an eviction *)
(* and an expiry look at the lease, and a revocation, after which another  *)
(* AUTH may remove the entry, finds only sessions whose answer is out.     *)
(* Beyond that a new handshake of the address has a new number, so that    *)
(* the old task never drops the new one's lease.                           *)
(*                                                                         *)
(* What a source may still be sent is bounded over all the entries it      *)
(* ever has, while the code counts per entry: HandshakeInv says that the   *)
(* entry's own budget never exceeds what the source has earned.  That      *)
(* no traffic precedes the AuthOK needs the client too: a record that      *)
(* starts a second AUTH task comes from a client that holds an AuthOK.     *)

CONSTANTS Addrs, Cap, HelloLen, MaxReemits, Window, MaxHs, MaxRecv, MaxFaults, Dup, Ticks
VARIABLES cl, net, part, dir, task, made, faults, sentOk, cover, credit

HS == INSTANCE UdpHandshake

\* The reply to a ClientHello is at most three times as long (handle_new_udp_client
\* refuses to send a longer one), and the bound on what is counted is below the mark
\* of a proven address.
HandshakeConstants ==
  /\ IsFiniteSet(Addrs) /\ Cap \in Nat /\ MaxHs \in Nat /\ Window \in Nat
  /\ HelloLen \in Nat /\ HelloLen <= 6
  /\ MaxRecv \in 2..33

HalfOpenEntry ==
  [h : Nat \ {0}, state : {"awaiting", "authenticated"}, active : BOOLEAN,
   revoked : BOOLEAN, hello : BOOLEAN, answer : {"none", "ok", "error"}, sent : BOOLEAN,
   reemits : Nat, ampIn : Nat, ampOut : Nat, rx : SUBSET {"auth", "data"},
   born : Int, idle : Int]

Client == [phase : {"hello", "auth", "up", "failed"}, got : [HS!Frags -> Nat], hs : Nat]

Datagram ==
  [t : {"hello", "auth", "data", "shello", "authok", "autherr", "cover"}, a : Addrs,
   h : Nat, i : HS!Frags]

\* The fields the argument speaks of are well typed.
HandshakeTypes ==
  /\ dir \in [Addrs -> HalfOpenEntry \cup {HS!NoEntry}]
  /\ task \in [Addrs -> [h : Nat \ {0}, at : {"verify", "answered", "sent", "done"}]
                          \cup {HS!NoTask}]
  /\ part \in [Addrs -> SUBSET HS!Frags]
  /\ made \in [Addrs -> Nat]
  /\ credit \in [Addrs -> Int]
  /\ cl \in [Addrs -> Client]
  /\ net \subseteq Datagram

\* A partial ClientHello is held for an unknown source, which has earned a reply to it.
PartialsAreEarned ==
  \A a \in Addrs : part[a] # {} => dir[a] = HS!NoEntry /\ credit[a] >= 3

\* The budget of an entry is within what its source has earned; it is not used any
\* more once the verdict is cached.
BudgetIsEarned ==
  \A a \in Addrs : dir[a] # HS!NoEntry =>
    /\ dir[a].hello => 3 * dir[a].ampIn - dir[a].ampOut <= credit[a]
    /\ dir[a].ampIn <= MaxRecv
    /\ dir[a].answer # "none" => ~dir[a].hello

\* How far an AUTH task has come shows in the entry.
VerdictIsCached ==
  \A a \in Addrs : dir[a] # HS!NoEntry =>
    /\ dir[a].state = "authenticated" => dir[a].answer = "ok"
    /\ dir[a].sent => dir[a].answer # "none"
    /\ task[a].at = "verify" => dir[a].state = "awaiting"
    /\ task[a].at \in {"answered", "sent"} => dir[a].answer # "none"

\* Whoever was sent an AuthOK is on record: a session that has published it, a task
\* that has sent it, a client that is up, and what is on the wire because of it.
AuthOkIsOnRecord ==
  /\ \A a \in Addrs :
       /\ dir[a] # HS!NoEntry /\ dir[a].answer = "ok"
       /\ dir[a].sent \/ task[a].at = "sent"
       => <<a, dir[a].h>> \in sentOk
  /\ \A a \in Addrs : cl[a].phase = "up" => <<a, cl[a].hs>> \in sentOk
  /\ \A m \in net : m.t \in {"authok", "data"} => <<m.a, m.h>> \in sentOk

\* Handshake numbers of an address are given out in order.
NumbersAreFresh ==
  \A a \in Addrs :
    /\ dir[a] # HS!NoEntry => dir[a].h <= made[a]
    /\ task[a].h <= made[a]
    /\ \A h \in Nat : <<a, h>> \in sentOk => h <= made[a]

\* A session is admitted once and revoked only after its answer has been published: a
\* half-open entry has been sent no AuthOK, and a task before the end of its admission
\* finds an answer that is not out.
AdmittedOnce ==
  \A a \in Addrs : dir[a] # HS!NoEntry =>
    /\ dir[a].revoked => dir[a].sent
    /\ dir[a].state = "awaiting" => <<a, dir[a].h>> \notin sentOk
    /\ dir[a].answer = "ok" => dir[a].state = "authenticated"
    /\ task[a].at \in {"verify", "answered", "sent"} => ~dir[a].sent

HandshakeInv ==
  /\ HandshakeTypes /\ HS!HandshakesAreSound
  /\ PartialsAreEarned /\ BudgetIsEarned /\ VerdictIsCached /\ AuthOkIsOnRecord
  /\ NumbersAreFresh /\ AdmittedOnce

-----------------------------------------------------------------------------
(* The steps of the receive loops, by what becomes of the datagram.        *)

\* The lesser of two numbers.
LEMMA LesserOfTwo ==
  ASSUME NEW x \in Int, NEW y \in Int
  PROVE  HS!Min({x, y}) = IF x <= y THEN x ELSE y
<1> DEFINE z == IF x <= y THEN x ELSE y
<1>1. z \in {x, y} /\ \A w \in {x, y} : z <= w
  OBVIOUS
<1>2. \A v \in {x, y} : (\A w \in {x, y} : v <= w) => v = z
  OBVIOUS
<1>3. HS!Min({x, y}) = CHOOSE v \in {x, y} : \A w \in {x, y} : v <= w
  BY Zenon DEF HS!Min
<1> HIDE DEF z
<1>4. (CHOOSE v \in {x, y} : \A w \in {x, y} : v <= w) = z
  BY <1>1, <1>2
<1> QED
  BY <1>3, <1>4 DEF z

\* What a source has earned when a datagram of it has been answered with out units.
Earned(a, out) ==
  IF credit[a] = 100 THEN 100
  ELSE IF credit[a] + 3 - out <= 3 * MaxRecv THEN credit[a] + 3 - out ELSE 3 * MaxRecv

\* What the receive loop counts is Earned.
LEMMA CountedCredit ==
  ASSUME HandshakeConstants, HandshakeTypes, NEW a \in Addrs, NEW out \in Nat
  PROVE  HS!Counted(a, out) = [credit EXCEPT ![a] = Earned(a, out)] /\ Earned(a, out) \in Int
<1>1. credit \in [Addrs -> Int] /\ MaxRecv \in Nat
  BY DEF HandshakeTypes, HandshakeConstants
<1>2. CASE credit[a] = 100
  BY <1>1, <1>2 DEF HS!Counted, HS!Proven, Earned
<1>3. CASE credit[a] # 100
  <2>1. credit[a] + 3 - out \in Int /\ 3 * MaxRecv \in Int
    BY <1>1
  <2>2. HS!Min({credit[a] + 3 - out, 3 * MaxRecv}) = Earned(a, out)
    BY <1>3, <2>1, LesserOfTwo DEF Earned
  <2>3. HS!Counted(a, out) = [credit EXCEPT ![a] = HS!Min({credit[a] + 3 - out, 3 * MaxRecv})]
    BY <1>3 DEF HS!Counted, HS!Proven
  <2> QED
    BY <1>1, <1>3, <2>1, <2>2, <2>3 DEF Earned
<1> QED
  BY <1>2, <1>3

\* The entry of a source whose datagram has been counted.
Charged(a) ==
  [dir[a] EXCEPT !.ampIn = IF dir[a].hello THEN HS!Min({dir[a].ampIn + 1, MaxRecv})
                           ELSE dir[a].ampIn]

Grown(a) ==
  IF ~dir[a].hello THEN dir[a].ampIn
  ELSE IF dir[a].ampIn + 1 <= MaxRecv THEN dir[a].ampIn + 1 ELSE MaxRecv

\* amp_received of a known source grows by the datagram and stays an entry.
LEMMA ChargedEntry ==
  ASSUME HandshakeConstants, HandshakeTypes, NEW a \in Addrs, dir[a] # HS!NoEntry
  PROVE  /\ dir[a] \in HalfOpenEntry /\ Charged(a) \in HalfOpenEntry
         /\ Charged(a) = [dir[a] EXCEPT !.ampIn = Grown(a)] /\ Grown(a) \in Nat
<1>1. dir[a] \in HalfOpenEntry /\ MaxRecv \in Nat
  BY DEF HandshakeTypes, HandshakeConstants
<1>2. dir[a].ampIn + 1 \in Int /\ dir[a].ampIn \in Nat /\ dir[a].hello \in BOOLEAN
  BY <1>1 DEF HalfOpenEntry
<1>3. HS!Min({dir[a].ampIn + 1, MaxRecv})
        = IF dir[a].ampIn + 1 <= MaxRecv THEN dir[a].ampIn + 1 ELSE MaxRecv
  BY <1>1, <1>2, LesserOfTwo
<1> DEFINE n == IF dir[a].hello THEN HS!Min({dir[a].ampIn + 1, MaxRecv}) ELSE dir[a].ampIn
<1>4. n \in Nat /\ Charged(a) = [dir[a] EXCEPT !.ampIn = n]
  BY <1>1, <1>2, <1>3 DEF Charged
<1>5. n = Grown(a)
  BY <1>2, <1>3 DEF Grown
<1> HIDE DEF n
<1>6. Charged(a).ampIn = n /\ Charged(a) \in HalfOpenEntry
  BY <1>1, <1>4 DEF HalfOpenEntry
<1> QED
  BY <1>1, <1>4, <1>5, <1>6

\* What the argument needs of an entry, and that the entry of a becomes such a one.
Image(e) ==
  <<e.h, e.state, e.active, e.hello, e.answer, e.sent, e.ampIn, e.ampOut>>
Becomes(a, image) ==
  /\ \A b \in Addrs : b # a => dir'[b] = dir[b]
  /\ dir' \in [Addrs -> HalfOpenEntry \cup {HS!NoEntry}]
  /\ dir'[a] \in HalfOpenEntry /\ Image(dir'[a]) = image
  /\ dir'[a].revoked = dir[a].revoked

\* Only such datagrams come into the network.
Mail(kinds, a, h) ==
  \A n \in net' : n \in net \/ (n \in Datagram /\ n.t \in kinds /\ n.a = a /\ n.h = h)

\* The client, or the loss of a datagram: whoever comes up holds an AuthOK.
ClientSide ==
  /\ cl' \in [Addrs -> Client]
  /\ \A b \in Addrs : cl'[b].phase = "up" => <<b, cl'[b].hs>> \in sentOk
  /\ \A n \in net' : n \in net \/ (n \in Datagram /\ n.t \in {"hello", "auth"})
                     \/ (n \in Datagram /\ n.t = "data" /\ <<n.a, n.h>> \in sentOk)
  /\ UNCHANGED HS!server

Decides(a, verdict) ==
  /\ task[a].at = "verify" /\ dir[a] # HS!NoEntry
  /\ Becomes(a, <<dir[a].h, IF verdict = "ok" THEN "authenticated" ELSE dir[a].state,
                  dir[a].active, FALSE, verdict, dir[a].sent, dir[a].ampIn, dir[a].ampOut>>)
  /\ task' = [task EXCEPT ![a] = [h |-> task[a].h, at |-> "answered"]]
  /\ UNCHANGED <<cl, net, part, made, sentOk, cover, credit>>

Sends(a) ==
  /\ task[a].at = "answered" /\ dir[a] # HS!NoEntry
  /\ Mail({IF dir[a].answer = "ok" THEN "authok" ELSE "autherr"}, a, dir[a].h)
  /\ sentOk' = IF dir[a].answer = "ok" THEN sentOk \cup {<<a, dir[a].h>>} ELSE sentOk
  /\ task' = [task EXCEPT ![a] = [h |-> task[a].h, at |-> "sent"]]
  /\ UNCHANGED <<cl, part, dir, made, cover, credit>>

Publishes(a) ==
  /\ task[a].at = "sent" /\ dir[a] # HS!NoEntry
  /\ Becomes(a, <<dir[a].h, dir[a].state, dir[a].active, dir[a].hello, dir[a].answer, TRUE,
                  dir[a].ampIn, dir[a].ampOut>>)
  /\ task' = [task EXCEPT ![a] = [h |-> task[a].h, at |-> "done"]]
  /\ UNCHANGED <<cl, net, part, made, sentOk, cover, credit>>

Ends(a) ==
  /\ task[a].at = "done" /\ dir[a] # HS!NoEntry /\ dir[a].h = task[a].h
  /\ Becomes(a, <<dir[a].h, dir[a].state, FALSE, dir[a].hello, dir[a].answer, dir[a].sent,
                  dir[a].ampIn, dir[a].ampOut>>)
  /\ task' = [task EXCEPT ![a] = HS!NoTask]
  /\ UNCHANGED <<cl, net, part, made, sentOk, cover, credit>>

\* The entry the task was started for is gone, or has been replaced.
LeavesQuietly(a) ==
  /\ task[a].at = "done" /\ (dir[a] = HS!NoEntry \/ dir[a].h # task[a].h)
  /\ task' = [task EXCEPT ![a] = HS!NoTask]
  /\ UNCHANGED <<cl, net, part, dir, made, sentOk, cover, credit>>

Covers(a) ==
  /\ dir[a] # HS!NoEntry /\ dir[a].state = "authenticated" /\ dir[a].sent
  /\ Mail({"cover"}, a, dir[a].h)
  /\ cover' = cover \cup {<<a, dir[a].h>>}
  /\ UNCHANGED <<cl, part, dir, task, made, sentOk, credit>>

\* A kick or the clock: nothing changes that the argument is about.
Ages ==
  /\ dir' \in [Addrs -> HalfOpenEntry \cup {HS!NoEntry}]
  /\ \A b \in Addrs :
       \/ dir[b] = HS!NoEntry /\ dir'[b] = HS!NoEntry
       \/ /\ dir[b] # HS!NoEntry /\ dir'[b] \in HalfOpenEntry /\ Image(dir'[b]) = Image(dir[b])
          /\ dir'[b].revoked => dir[b].revoked \/ dir[b].sent
  /\ UNCHANGED <<cl, net, part, task, made, sentOk, cover, credit>>

Holds(m, rest) ==
  /\ dir[m.a] = HS!NoEntry
  /\ \/ \E b \in Addrs : part' = [part EXCEPT ![b] = {}, ![m.a] = {m.i}]
     \/ part' = [part EXCEPT ![m.a] = @ \cup {m.i}]
  /\ net' = rest /\ credit' = [credit EXCEPT ![m.a] = Earned(m.a, 0)]
  /\ UNCHANGED <<cl, dir, task, made, sentOk, cover>>

Admits(m, rest) ==
  /\ dir[m.a] = HS!NoEntry
  /\ part[m.a] # {} /\ part' = [part EXCEPT ![m.a] = {}]
  /\ \E victim \in Addrs :
       /\ \/ victim = m.a /\ HS!Cardinality(HS!HalfOpen) < Cap
          \/ /\ dir[victim] # HS!NoEntry /\ dir[victim].state = "awaiting"
             /\ ~dir[victim].active
       /\ \A b \in Addrs : b # m.a => dir'[b] = IF b = victim THEN HS!NoEntry ELSE dir[b]
  /\ dir' \in [Addrs -> HalfOpenEntry \cup {HS!NoEntry}] /\ dir'[m.a] \in HalfOpenEntry
  /\ Image(dir'[m.a]) = <<made[m.a] + 1, "awaiting", FALSE, TRUE, "none", FALSE, 2, HelloLen>>
  /\ dir'[m.a].revoked = FALSE
  /\ made' = [made EXCEPT ![m.a] = @ + 1]
  /\ Mail({"shello"}, m.a, made[m.a] + 1)
  /\ credit' = [credit EXCEPT ![m.a] = Earned(m.a, HelloLen)]
  /\ UNCHANGED <<cl, task, sentOk, cover>>

TurnsAway(m, rest) ==
  /\ dir[m.a] = HS!NoEntry
  /\ part' = part \/ part' = [part EXCEPT ![m.a] = {}]
  /\ net' = rest /\ credit' = [credit EXCEPT ![m.a] = Earned(m.a, 0)]
  /\ UNCHANGED <<cl, dir, task, made, sentOk, cover>>

Forgets(m, rest) ==
  /\ dir[m.a] # HS!NoEntry
  /\ dir' = dir \/ (~dir[m.a].active /\ dir' = [dir EXCEPT ![m.a] = HS!NoEntry])
  /\ net' = rest
  /\ UNCHANGED <<cl, part, task, made, sentOk, cover, credit>>

SaysHelloAgain(m, rest) ==
  /\ dir[m.a] # HS!NoEntry /\ dir[m.a].state = "awaiting" /\ dir[m.a].hello
  /\ dir[m.a].ampOut + HelloLen <= 3 * Grown(m.a)
  /\ Becomes(m.a, <<dir[m.a].h, dir[m.a].state, dir[m.a].active, dir[m.a].hello,
                    dir[m.a].answer, dir[m.a].sent, Grown(m.a), dir[m.a].ampOut + HelloLen>>)
  /\ Mail({"shello"}, m.a, dir[m.a].h)
  /\ credit' = [credit EXCEPT ![m.a] = Earned(m.a, HelloLen)]
  /\ UNCHANGED <<cl, part, task, made, sentOk, cover>>

AnswersAgain(m, rest) ==
  /\ dir[m.a] # HS!NoEntry /\ dir[m.a].answer # "none"
  /\ Becomes(m.a, <<dir[m.a].h, dir[m.a].state, dir[m.a].active, dir[m.a].hello,
                    dir[m.a].answer, dir[m.a].sent, Grown(m.a), dir[m.a].ampOut>>)
  /\ \/ net' = rest
     \/ /\ dir[m.a].sent
        /\ Mail({IF dir[m.a].answer = "ok" THEN "authok" ELSE "autherr"}, m.a, dir[m.a].h)
  /\ UNCHANGED <<cl, part, task, made, sentOk, cover, credit>>

PassesOver(m, rest) ==
  /\ dir[m.a] # HS!NoEntry
  /\ Becomes(m.a, <<dir[m.a].h, dir[m.a].state, dir[m.a].active, dir[m.a].hello,
                    dir[m.a].answer, dir[m.a].sent, Grown(m.a), dir[m.a].ampOut>>)
  /\ net' = rest /\ credit' = [credit EXCEPT ![m.a] = Earned(m.a, 0)]
  /\ UNCHANGED <<cl, part, task, made, sentOk, cover>>

Decrypts(m, rest) ==
  /\ dir[m.a] # HS!NoEntry
  /\ m.t \in {"auth", "data"} /\ m.h = dir[m.a].h
  /\ m.t = "auth" => dir[m.a].answer = "none"
  /\ Becomes(m.a, <<dir[m.a].h, dir[m.a].state,
                    dir[m.a].active \/ dir[m.a].state = "awaiting", dir[m.a].hello,
                    dir[m.a].answer, dir[m.a].sent, Grown(m.a), dir[m.a].ampOut>>)
  /\ task' = IF dir[m.a].state = "awaiting" /\ ~dir[m.a].active
             THEN [task EXCEPT ![m.a] = [h |-> dir[m.a].h, at |-> "verify"]] ELSE task
  /\ credit' = [credit EXCEPT ![m.a] = 100]
  /\ net' = rest
  /\ UNCHANGED <<cl, part, made, sentOk, cover>>

\* An entry is never the absent one, and a new one is an entry.
LEMMA EntriesDiffer ==
  /\ \A e \in HalfOpenEntry : e # HS!NoEntry
  /\ \A t \in [h : Nat \ {0}, at : {"verify", "answered", "sent", "done"}] : t # HS!NoTask
  /\ HS!NoTask.at = "none"
<1>1. \A e \in HalfOpenEntry : e.h # HS!NoEntry.h
  BY DEF HalfOpenEntry, HS!NoEntry
<1>2. \A t \in [h : Nat \ {0}, at : {"verify", "answered", "sent", "done"}] : t.h # HS!NoTask.h
  BY DEF HS!NoTask
<1> QED
  BY <1>1, <1>2 DEF HS!NoTask, HS!None

\* The fields of a new entry.
LEMMA NewEntry ==
  ASSUME HandshakeConstants, NEW n \in Nat \ {0}
  PROVE  /\ HS!Entry(n) \in HalfOpenEntry
         /\ HS!Entry(n).h = n /\ HS!Entry(n).state = "awaiting" /\ HS!Entry(n).active = FALSE
         /\ HS!Entry(n).hello = TRUE /\ HS!Entry(n).answer = "none" /\ HS!Entry(n).sent = FALSE
         /\ HS!Entry(n).ampIn = 2 /\ HS!Entry(n).ampOut = HelloLen
         /\ HS!Entry(n).revoked = FALSE
<1>1. HS!Cardinality(HS!Frags) = Cardinality(1..2)
  BY DEF HS!Cardinality, Cardinality, HS!Frags
<1>2. Cardinality(1..2) = 2
  <2>1. Cardinality(1..2) = IF 1 > 2 THEN 0 ELSE 2 - 1 + 1
    BY 1 \in Int, 2 \in Int, FS_Interval, Zenon
  <2> QED
    BY <2>1
<1> QED
  BY <1>1, <1>2 DEF HS!Entry, HalfOpenEntry, HandshakeConstants, HS!None

\* An entry stays one when a field of it is set.
LEMMA EntryFields ==
  ASSUME NEW e \in HalfOpenEntry
  PROVE  /\ \A n \in Nat : [e EXCEPT !.ampOut = n] \in HalfOpenEntry
         /\ \A n \in Nat : [e EXCEPT !.reemits = n] \in HalfOpenEntry
         /\ \A n \in Int : [e EXCEPT !.idle = n] \in HalfOpenEntry
         /\ \A n \in Int : [e EXCEPT !.born = n] \in HalfOpenEntry
         /\ \A x \in SUBSET {"auth", "data"} : [e EXCEPT !.rx = x] \in HalfOpenEntry
         /\ \A b \in BOOLEAN : [e EXCEPT !.active = b] \in HalfOpenEntry
         /\ \A b \in BOOLEAN : [e EXCEPT !.revoked = b] \in HalfOpenEntry
         /\ \A b \in BOOLEAN : [e EXCEPT !.sent = b] \in HalfOpenEntry
         /\ \A b \in BOOLEAN : [e EXCEPT !.hello = b] \in HalfOpenEntry
         /\ \A v \in {"ok", "error"} : [e EXCEPT !.answer = v] \in HalfOpenEntry
         /\ \A v \in {"awaiting", "authenticated"} : [e EXCEPT !.state = v] \in HalfOpenEntry
BY DEF HalfOpenEntry

\* What becomes of a datagram that the server receives.
LEMMA ReceiveSteps ==
  ASSUME HandshakeConstants, HandshakeInv, NEW m \in net, NEW keep \in BOOLEAN,
         HS!ServerReceive(m, keep)
  PROVE  \E rest \in SUBSET net :
           \/ Holds(m, rest) \/ Admits(m, rest) \/ TurnsAway(m, rest) \/ Forgets(m, rest)
           \/ SaysHelloAgain(m, rest) \/ AnswersAgain(m, rest) \/ PassesOver(m, rest)
           \/ Decrypts(m, rest)
<1> DEFINE rest == IF keep THEN net ELSE net \ {m}
           a == m.a
<1> HandshakeTypes
  BY DEF HandshakeInv
<1>1. rest \in SUBSET net /\ a \in Addrs /\ m.i \in HS!Frags
  BY DEF HandshakeTypes, Datagram
<1>2. /\ HS!Counted(a, 0) = [credit EXCEPT ![a] = Earned(a, 0)]
      /\ HS!Counted(a, HelloLen) = [credit EXCEPT ![a] = Earned(a, HelloLen)]
  BY <1>1, CountedCredit DEF HandshakeConstants
<1>3. /\ HS!UnknownSource(a, m, rest) \/ HS!RevokedSource(a, rest) \/ HS!KnownSource(a, m, rest)
      /\ UNCHANGED cl
  BY DEF HS!ServerReceive
<1> HIDE DEF rest
<1>4. \A h \in Nat : net' = rest \cup HS!ServerHello(a, h) => Mail({"shello"}, a, h)
  BY <1>1 DEF HS!ServerHello, HS!Msg, Mail, Datagram
<1>5. CASE HS!UnknownSource(a, m, rest)
  <2>1. dir[a] = HS!NoEntry /\ UNCHANGED <<cl, task, sentOk, cover>>
    BY <1>3, <1>5 DEF HS!UnknownSource, HS!Known
  <2>2. CASE HS!HoldFragment(a, m, rest)
    BY <1>1, <1>2, <2>1, <2>2 DEF HS!HoldFragment, HS!Dropped, Holds
  <2>3. CASE HS!CompleteHello(a, m, rest)
    <3>1. part[a] # {} /\ part' = [part EXCEPT ![a] = {}]
      <4>1. part[a] \cup {m.i} = HS!Frags /\ part' = [part EXCEPT ![a] = {}]
        BY <2>3 DEF HS!CompleteHello
      <4>2. HS!Frags # {m.i}
        BY DEF HS!Frags
      <4> QED
        BY <4>1, <4>2
    <3>2. CASE HS!Admit(a, rest)
      <4> DEFINE n == made[a] + 1
      <4>1. n \in Nat \ {0} /\ dir \in [Addrs -> HalfOpenEntry \cup {HS!NoEntry}]
        BY <1>1 DEF HandshakeTypes
      <4>2. /\ HS!Entry(n) \in HalfOpenEntry
            /\ Image(HS!Entry(n)) = <<n, "awaiting", FALSE, TRUE, "none", FALSE, 2, HelloLen>>
            /\ HS!Entry(n).revoked = FALSE
        BY <4>1, NewEntry DEF Image
      <4>3. Mail({"shello"}, a, n) /\ made' = [made EXCEPT ![a] = @ + 1]
            /\ credit' = [credit EXCEPT ![a] = Earned(a, HelloLen)]
        BY <1>2, <1>4, <3>2, <4>1 DEF HS!Admit
      <4>4. \E victim \in Addrs :
              /\ \/ victim = a /\ HS!Cardinality(HS!HalfOpen) < Cap
                 \/ /\ dir[victim] # HS!NoEntry /\ dir[victim].state = "awaiting"
                    /\ ~dir[victim].active
              /\ dir' = [dir EXCEPT ![victim] = HS!NoEntry, ![a] = HS!Entry(n)]
        <5>1. CASE HS!Cardinality(HS!HalfOpen) < Cap /\ dir' = [dir EXCEPT ![a] = HS!Entry(n)]
          <6>1. dir' = [dir EXCEPT ![a] = HS!NoEntry, ![a] = HS!Entry(n)]
            BY <4>1, <5>1
          <6> QED
            BY <1>1, <5>1, <6>1
        <5>2. CASE \E victim \in {b \in Addrs : HS!Known(b) /\ HS!Evictable(b)} :
                     dir' = [dir EXCEPT ![victim] = HS!NoEntry, ![a] = HS!Entry(n)]
          BY <5>2 DEF HS!Known, HS!Evictable
        <5> QED
          BY <3>2, <5>1, <5>2 DEF HS!Admit
      <4>5. PICK victim \in Addrs :
              /\ \/ victim = a /\ HS!Cardinality(HS!HalfOpen) < Cap
                 \/ /\ dir[victim] # HS!NoEntry /\ dir[victim].state = "awaiting"
                    /\ ~dir[victim].active
              /\ dir' = [dir EXCEPT ![victim] = HS!NoEntry, ![a] = HS!Entry(n)]
        BY <4>4
      <4>6. /\ \A b \in Addrs : b # a => dir'[b] = IF b = victim THEN HS!NoEntry ELSE dir[b]
            /\ dir' \in [Addrs -> HalfOpenEntry \cup {HS!NoEntry}] /\ dir'[a] = HS!Entry(n)
        BY <1>1, <4>1, <4>2, <4>5
      <4> QED
        BY <1>1, <2>1, <3>1, <4>2, <4>3, <4>5, <4>6 DEF Admits
    <3>3. CASE HS!Dropped(a, rest)
      BY <1>1, <1>2, <2>1, <3>1, <3>3 DEF HS!Dropped, TurnsAway
    <3> QED
      BY <1>1, <2>3, <3>2, <3>3 DEF HS!CompleteHello
  <2>4. CASE HS!Dropped(a, rest) /\ UNCHANGED part
    BY <1>1, <1>2, <2>1, <2>4 DEF HS!Dropped, TurnsAway
  <2> QED
    BY <1>1, <1>5, <2>2, <2>3, <2>4 DEF HS!UnknownSource
<1>6. CASE HS!RevokedSource(a, rest)
  BY <1>1, <1>3, <1>6 DEF HS!RevokedSource, Forgets, HS!Known
<1>7. CASE HS!KnownSource(a, m, rest)
  <2> DEFINE e == Charged(a)
  <2>1. /\ dir[a] # HS!NoEntry /\ UNCHANGED <<cl, part, made, sentOk, cover>>
        /\ \/ /\ HS!ReemitHello(a, m, e, rest) \/ HS!ReemitAnswer(a, m, e, rest)
              /\ UNCHANGED task
           \/ HS!Record(a, m, e, rest)
    BY <1>3, <1>7 DEF HS!KnownSource, HS!Known, Charged
  <2>2. /\ e \in HalfOpenEntry /\ e.ampIn = Grown(a) /\ e.ampOut = dir[a].ampOut
        /\ e.hello = dir[a].hello /\ e.state = dir[a].state
        /\ e.answer = dir[a].answer /\ e.h = dir[a].h
        /\ e.sent = dir[a].sent /\ e.active = dir[a].active /\ e.revoked = dir[a].revoked
        /\ e.ampOut \in Nat /\ e.ampIn \in Nat /\ HelloLen \in Nat
        /\ dir[a].h \in Nat /\ dir[a].active \in BOOLEAN
    BY <1>1, <2>1, ChargedEntry DEF HalfOpenEntry, HandshakeConstants
  <2> HIDE DEF e
  <2>3. dir \in [Addrs -> HalfOpenEntry \cup {HS!NoEntry}]
    BY DEF HandshakeTypes
  <2>4. CASE HS!ReemitHello(a, m, e, rest) /\ UNCHANGED task
    <3>1. CASE e.ampOut + HelloLen > 3 * e.ampIn
      <4>1. dir' = [dir EXCEPT ![a] = e] /\ net' = rest /\ credit' = HS!Counted(a, 0)
        BY <2>4, <3>1 DEF HS!ReemitHello
      <4> QED
        BY <1>1, <1>2, <2>1, <2>2, <2>3, <2>4, <4>1 DEF PassesOver, Becomes, Image
    <3>2. CASE ~(e.ampOut + HelloLen > 3 * e.ampIn)
      <4> DEFINE f == [e EXCEPT !.ampOut = @ + HelloLen, !.idle = 0]
      <4>1. dir[a].ampOut + HelloLen <= 3 * Grown(a)
        BY <2>2, <3>2
      <4>2. /\ f \in HalfOpenEntry /\ f.ampIn = e.ampIn /\ f.ampOut = e.ampOut + HelloLen
            /\ f.hello = e.hello /\ f.state = e.state /\ f.answer = e.answer /\ f.h = e.h
            /\ f.sent = e.sent /\ f.active = e.active /\ f.revoked = e.revoked
        <5>1. e.idle \in Int /\ e.reemits + 1 \in Nat /\ e.ampOut + HelloLen \in Nat
          BY <2>2 DEF HalfOpenEntry
        <5> DEFINE g == [e EXCEPT !.ampOut = @ + HelloLen]
        <5>2. g \in HalfOpenEntry
          BY <2>2, <5>1, EntryFields
        <5>3. f = [g EXCEPT !.idle = 0]
          BY <2>2 DEF HalfOpenEntry
        <5>4. f \in HalfOpenEntry
          <6> HIDE DEF f, g
          <6> QED
            BY <5>2, <5>3, EntryFields, 0 \in Int
        <5> QED
          BY <2>2, <5>4 DEF HalfOpenEntry
      <4>3. /\ dir' = [dir EXCEPT ![a] = f] /\ net' = rest \cup HS!ServerHello(a, e.h)
            /\ credit' = HS!Counted(a, HelloLen) /\ e.state = "awaiting" /\ e.hello
        BY <2>4, <3>2 DEF HS!ReemitHello
      <4> HIDE DEF f
      <4>4. Becomes(a, <<dir[a].h, dir[a].state, dir[a].active, dir[a].hello, dir[a].answer,
                         dir[a].sent, Grown(a), dir[a].ampOut + HelloLen>>)
        BY <1>1, <2>2, <2>3, <4>2, <4>3 DEF Becomes, Image
      <4>5. Mail({"shello"}, a, dir[a].h)
        BY <1>4, <2>2, <4>3
      <4> QED
        BY <1>1, <1>2, <2>1, <2>2, <2>4, <4>1, <4>3, <4>4, <4>5 DEF SaysHelloAgain
    <3> QED
      BY <3>1, <3>2
  <2>5. CASE HS!ReemitAnswer(a, m, e, rest) /\ UNCHANGED task
    <3>1. dir[a].answer # "none" /\ UNCHANGED credit
      BY <2>2, <2>5 DEF HS!ReemitAnswer, HS!MatchesAuth, HS!None
    <3>2. CASE ~e.sent \/ e.reemits >= MaxReemits
      <4>1. dir' = [dir EXCEPT ![a] = e] /\ net' = rest
        BY <2>5, <3>2 DEF HS!ReemitAnswer
      <4> QED
        BY <1>1, <2>1, <2>2, <2>3, <2>5, <3>1, <4>1 DEF AnswersAgain, Becomes, Image
    <3>3. CASE ~(~e.sent \/ e.reemits >= MaxReemits)
      <4> DEFINE f == [e EXCEPT !.reemits = @ + 1, !.idle = 0]
      <4>1. /\ f \in HalfOpenEntry /\ f.ampIn = e.ampIn /\ f.ampOut = e.ampOut
            /\ f.hello = e.hello /\ f.state = e.state /\ f.answer = e.answer /\ f.h = e.h
            /\ f.sent = e.sent /\ f.active = e.active /\ f.revoked = e.revoked
        <5>1. e.idle \in Int /\ e.reemits + 1 \in Nat /\ e.ampOut + HelloLen \in Nat
          BY <2>2 DEF HalfOpenEntry
        <5> DEFINE g == [e EXCEPT !.reemits = @ + 1]
        <5>2. g \in HalfOpenEntry
          BY <2>2, <5>1, EntryFields
        <5>3. f = [g EXCEPT !.idle = 0]
          BY <2>2 DEF HalfOpenEntry
        <5>4. f \in HalfOpenEntry
          <6> HIDE DEF f, g
          <6> QED
            BY <5>2, <5>3, EntryFields, 0 \in Int
        <5> QED
          BY <2>2, <5>4 DEF HalfOpenEntry
      <4>2. /\ dir' = [dir EXCEPT ![a] = f]
            /\ net' = rest \cup {HS!Answer(a, e.h, e.answer = "ok")}
        BY <2>5, <3>3 DEF HS!ReemitAnswer
      <4> HIDE DEF f
      <4>3. Becomes(a, <<dir[a].h, dir[a].state, dir[a].active, dir[a].hello, dir[a].answer,
                         dir[a].sent, Grown(a), dir[a].ampOut>>)
        BY <1>1, <2>2, <2>3, <4>1, <4>2 DEF Becomes, Image
      <4>4. Mail({IF dir[a].answer = "ok" THEN "authok" ELSE "autherr"}, a, dir[a].h)
        BY <1>1, <2>2, <4>2 DEF Mail, HS!Answer, HS!Msg, Datagram, HS!Frags
      <4> QED
        BY <1>1, <2>1, <2>2, <2>5, <3>1, <3>3, <4>3, <4>4 DEF AnswersAgain
    <3> QED
      BY <3>2, <3>3
  <2>6. CASE HS!Record(a, m, e, rest)
    <3>1. ~HS!MatchesAuth(m, e) /\ net' = rest
      BY <2>6 DEF HS!Record
    <3>2. CASE /\ dir' = [dir EXCEPT ![a] = e] /\ credit' = HS!Counted(a, 0)
               /\ UNCHANGED task
      BY <1>1, <1>2, <2>1, <2>2, <2>3, <3>1, <3>2 DEF PassesOver, Becomes, Image
    <3>3. CASE /\ HS!Decrypts(m, e)
               /\ dir' = [dir EXCEPT ![a] =
                    [e EXCEPT !.rx = @ \cup {m.t}, !.idle = 0,
                              !.active = @ \/ e.state = "awaiting"]]
               /\ task' = IF e.state = "awaiting" /\ ~e.active
                          THEN [task EXCEPT ![a] = [h |-> e.h, at |-> "verify"]] ELSE task
               /\ credit' = [credit EXCEPT ![a] = HS!Proven]
      <4> DEFINE f == [e EXCEPT !.rx = @ \cup {m.t}, !.idle = 0,
                                !.active = @ \/ e.state = "awaiting"]
      <4>1. m.t \in {"auth", "data"} /\ m.h = dir[a].h /\ (m.t = "auth" => dir[a].answer = "none")
        BY <2>2, <3>1, <3>3 DEF HS!Decrypts, HS!MatchesAuth, HS!None
      <4>2. (e.active \/ e.state = "awaiting") \in BOOLEAN
        OBVIOUS
      <4>3. /\ f \in HalfOpenEntry /\ f.ampIn = e.ampIn /\ f.ampOut = e.ampOut
            /\ f.hello = e.hello /\ f.state = e.state /\ f.answer = e.answer /\ f.h = e.h
            /\ f.sent = e.sent /\ f.active = (e.active \/ e.state = "awaiting")
            /\ f.revoked = e.revoked
        <5>1. e.rx \cup {m.t} \in SUBSET {"auth", "data"}
          BY <2>2, <4>1 DEF HalfOpenEntry
        <5> DEFINE g == [e EXCEPT !.rx = @ \cup {m.t}]
                   k == [g EXCEPT !.idle = 0]
                   on == e.active \/ e.state = "awaiting"
        <5>2. g \in HalfOpenEntry
          BY <2>2, <5>1, EntryFields
        <5>3. k \in HalfOpenEntry
          <6> HIDE DEF g
          <6> QED
            BY <5>2, EntryFields, 0 \in Int
        <5>4. f = [k EXCEPT !.active = on]
          BY <2>2 DEF HalfOpenEntry
        <5>5. f \in HalfOpenEntry
          <6> HIDE DEF f, k, on
          <6>1. on \in BOOLEAN
            BY <4>2 DEF on
          <6> QED
            BY <5>3, <5>4, <6>1, EntryFields
        <5> QED
          BY <2>2, <4>2, <5>5 DEF HalfOpenEntry
      <4>4. dir' = [dir EXCEPT ![a] = f]
        BY <3>3
      <4> HIDE DEF f
      <4>5. Becomes(a, <<dir[a].h, dir[a].state, dir[a].active \/ dir[a].state = "awaiting",
                         dir[a].hello, dir[a].answer, dir[a].sent, Grown(a), dir[a].ampOut>>)
        BY <1>1, <2>2, <2>3, <4>3, <4>4 DEF Becomes, Image
      <4> QED
        BY <1>1, <2>1, <2>2, <3>1, <3>3, <4>1, <4>5 DEF Decrypts, HS!Proven
    <3> QED
      BY <2>6, <3>2, <3>3 DEF HS!Record
  <2> QED
    BY <2>1, <2>4, <2>5, <2>6
<1> QED
  BY <1>3, <1>5, <1>6, <1>7

\* What a client does, and what is lost on the way.
LEMMA ClientSteps ==
  ASSUME HandshakeInv
  PROVE  /\ \A a \in Addrs : HS!ClientSend(a) \/ HS!ClientData(a) \/ HS!ClientLeaves(a) => ClientSide
         /\ \A m \in net, keep \in BOOLEAN : HS!ClientReceive(m, keep) => ClientSide
         /\ \A m \in net : HS!Lose(m) => ClientSide
<1>1. /\ cl \in [Addrs -> Client] /\ net \subseteq Datagram
      /\ \A a \in Addrs : cl[a].phase = "up" => <<a, cl[a].hs>> \in sentOk
      /\ \A m \in net : m.t \in {"authok", "data"} => <<m.a, m.h>> \in sentOk
  BY DEF HandshakeInv, HandshakeTypes, AuthOkIsOnRecord
<1>2. ASSUME NEW a \in Addrs, HS!ClientSend(a) PROVE ClientSide
  <2>1. cl[a].hs \in Nat
    BY <1>1 DEF Client
  <2>2. \A n \in HS!Hello(a) \cup {HS!Auth(a, cl[a].hs)} :
           n \in Datagram /\ n.t \in {"hello", "auth"}
    BY <2>1 DEF HS!Hello, HS!Auth, HS!Msg, Datagram, HS!Frags
  <2> QED
    BY <1>1, <1>2, <2>2 DEF HS!ClientSend, ClientSide
<1>3. ASSUME NEW a \in Addrs, HS!ClientData(a) PROVE ClientSide
  <2> DEFINE z == [i \in HS!Frags |-> 0]
             c == [cl[a] EXCEPT !.got = z]
  <2>1. cl[a] \in Client /\ cl[a].hs \in Nat /\ cl[a].phase = "up" /\ z \in [HS!Frags -> Nat]
    BY <1>1, <1>3 DEF HS!ClientData, Client
  <2>2. c \in Client /\ c.phase = cl[a].phase /\ c.hs = cl[a].hs
    BY <2>1 DEF Client
  <2>3. cl' = [cl EXCEPT ![a] = c]
    BY <1>3 DEF HS!ClientData
  <2>4. /\ net' = net \cup {HS!Msg("data", a, cl[a].hs, 1)}
        /\ HS!Msg("data", a, cl[a].hs, 1) \in Datagram
        /\ HS!Msg("data", a, cl[a].hs, 1).t = "data" /\ HS!Msg("data", a, cl[a].hs, 1).a = a
        /\ HS!Msg("data", a, cl[a].hs, 1).h = cl[a].hs
    BY <1>3, <2>1 DEF HS!ClientData, HS!Msg, Datagram, HS!Frags
  <2>5. UNCHANGED HS!server
    BY <1>3 DEF HS!ClientData
  <2> HIDE DEF c
  <2>6. /\ cl' \in [Addrs -> Client]
        /\ \A b \in Addrs : cl'[b].phase = "up" => <<b, cl'[b].hs>> \in sentOk
    BY <1>1, <2>2, <2>3
  <2> QED
    BY <1>1, <2>1, <2>4, <2>5, <2>6 DEF ClientSide
<1>4. ASSUME NEW a \in Addrs, HS!ClientLeaves(a) PROVE ClientSide
  <2> DEFINE c == [cl[a] EXCEPT !.phase = "failed"]
  <2>1. c \in Client /\ c.phase = "failed"
    BY <1>1 DEF Client
  <2>2. cl' = [cl EXCEPT ![a] = c] /\ net' = net /\ UNCHANGED HS!server
    BY <1>4 DEF HS!ClientLeaves
  <2> HIDE DEF c
  <2> QED
    BY <1>1, <2>1, <2>2 DEF ClientSide
<1>5. ASSUME NEW m \in net, HS!Lose(m) PROVE ClientSide
  BY <1>1, <1>5 DEF HS!Lose, ClientSide
<1>6. ASSUME NEW m \in net, NEW keep \in BOOLEAN, HS!ClientReceive(m, keep) PROVE ClientSide
  <2> DEFINE a == m.a
  <2>1. a \in Addrs /\ m.i \in HS!Frags /\ m.h \in Nat /\ cl[a] \in Client
    BY <1>1 DEF Datagram
  <2>2. net' \subseteq net /\ UNCHANGED HS!server
    BY <1>6 DEF HS!ClientReceive
  <2>3. CASE UNCHANGED cl
    BY <1>1, <2>2, <2>3 DEF ClientSide
  <2>4. SUFFICES ASSUME NEW c \in Client, cl' = [cl EXCEPT ![a] = c],
                        c.phase = "up" => <<a, c.hs>> \in sentOk
                 PROVE  ClientSide
    <3>1. CASE cl[a].phase = "hello" /\ HS!ClientHello(a, m)
      <4> DEFINE got == [cl[a].got EXCEPT ![m.i] = m.h]
      <4>1. got \in [HS!Frags -> Nat]
        BY <2>1 DEF Client
      <4>2. \/ cl' = [cl EXCEPT ![a] = [cl[a] EXCEPT !.phase = "failed"]]
            \/ cl' = [cl EXCEPT ![a] = [cl[a] EXCEPT !.phase = "auth", !.hs = m.h, !.got = got]]
            \/ cl' = [cl EXCEPT ![a] = [cl[a] EXCEPT !.got = got]]
        BY <1>1, <2>1, <3>1 DEF HS!ClientHello
      <4> HIDE DEF got
      <4>3. LET x == [cl[a] EXCEPT !.phase = "failed"]
                y == [cl[a] EXCEPT !.phase = "auth", !.hs = m.h, !.got = got]
                z == [cl[a] EXCEPT !.got = got]
            IN /\ x \in Client /\ x.phase = "failed"
               /\ y \in Client /\ y.phase = "auth"
               /\ z \in Client /\ z.phase = "hello"
        BY <2>1, <3>1, <4>1 DEF Client
      <4> QED
        BY <2>4, <4>2, <4>3
    <3>2. CASE HS!ClientAnswer(a, m) /\ ~UNCHANGED cl
      <4>1. /\ m.h = cl[a].hs /\ m.t \in {"authok", "autherr"}
            /\ cl' = [cl EXCEPT ![a].phase = IF m.t = "authok" THEN "up" ELSE "failed"]
        BY <3>2 DEF HS!ClientAnswer
      <4> DEFINE c == [cl[a] EXCEPT !.phase = IF m.t = "authok" THEN "up" ELSE "failed"]
      <4>2. /\ c \in Client /\ c.phase = (IF m.t = "authok" THEN "up" ELSE "failed")
            /\ c.hs = cl[a].hs
        BY <2>1 DEF Client
      <4>3. cl' = [cl EXCEPT ![a] = c]
        BY <4>1
      <4> HIDE DEF c
      <4> QED
        BY <1>1, <2>1, <2>4, <4>1, <4>2, <4>3
    <3> QED
      BY <1>6, <2>3, <3>1, <3>2 DEF HS!ClientReceive
  <2> QED
    BY <1>1, <2>1, <2>2, <2>4 DEF ClientSide
<1> QED
  BY <1>2, <1>3, <1>4, <1>5, <1>6

\* What an AUTH task does.
LEMMA TaskSteps ==
  ASSUME HandshakeConstants, HandshakeInv, NEW a \in Addrs
  PROVE  /\ \A verdict \in {"ok", "error"} :
              HS!AuthDecides(a, verdict) => Decides(a, verdict)
         /\ HS!AuthSends(a) => Sends(a)
         /\ HS!AuthPublishes(a) => Publishes(a)
         /\ HS!AuthEnds(a) => Ends(a) \/ LeavesQuietly(a)
         /\ HS!Cover(a) => Covers(a)
<1>1. /\ dir \in [Addrs -> HalfOpenEntry \cup {HS!NoEntry}]
      /\ task \in [Addrs -> [h : Nat \ {0}, at : {"verify", "answered", "sent", "done"}]
                             \cup {HS!NoTask}]
      /\ net \subseteq Datagram
  BY DEF HandshakeInv, HandshakeTypes
<1>2. ASSUME task[a].at \in {"verify", "answered", "sent", "done"}
      PROVE  /\ task[a].at # "done" => dir[a] # HS!NoEntry
             /\ \A at : [task EXCEPT ![a].at = at]
                          = [task EXCEPT ![a] = [h |-> task[a].h, at |-> at]]
  <2>1. task[a] # HS!NoTask
    BY <1>2, EntriesDiffer
  <2>2. task[a] \in [h : Nat \ {0}, at : {"verify", "answered", "sent", "done"}]
    BY <1>1, <2>1
  <2>3. \A at : [task[a] EXCEPT !.at = at] = [h |-> task[a].h, at |-> at]
    BY <2>2
  <2>4. task[a].at # "done" => dir[a] # HS!NoEntry
    BY <2>1 DEF HandshakeInv, HS!HandshakesAreSound, HS!VerifierKeepsItsHandshake, HS!Known,
                HS!At
  <2> QED
    BY <2>3, <2>4
<1>3. ASSUME dir[a] # HS!NoEntry PROVE dir[a] \in HalfOpenEntry
  BY <1>1, <1>3
<1>4. ASSUME NEW verdict \in {"ok", "error"}, HS!AuthDecides(a, verdict)
      PROVE  Decides(a, verdict)
  <2> DEFINE e == dir[a]
             s == IF verdict = "ok" THEN "authenticated" ELSE e.state
             p == [e EXCEPT !.hello = FALSE]
             q == [p EXCEPT !.answer = verdict]
             f == [q EXCEPT !.state = s]
  <2>1. task[a].at = "verify" /\ e # HS!NoEntry /\ e \in HalfOpenEntry
    BY <1>3, <1>4 DEF HS!AuthDecides, HS!At, HS!Known
  <2>2. dir' = [dir EXCEPT ![a] = [e EXCEPT !.hello = FALSE, !.answer = verdict, !.state = s]]
    BY <1>4, <2>1 DEF HS!AuthDecides
  <2>3. [e EXCEPT !.hello = FALSE, !.answer = verdict, !.state = s] = f
    BY <2>1 DEF HalfOpenEntry
  <2>4. p \in HalfOpenEntry
    BY <2>1, EntryFields
  <2>5. q \in HalfOpenEntry
    <3> HIDE DEF p
    <3> QED
      BY <2>4, EntryFields
  <2>6. f \in HalfOpenEntry
    <3>1. s \in {"awaiting", "authenticated"}
      BY <2>1 DEF HalfOpenEntry
    <3> HIDE DEF q, s
    <3> QED
      BY <2>5, <3>1, EntryFields
  <2>7. /\ Image(f) = <<e.h, s, e.active, FALSE, verdict, e.sent, e.ampIn, e.ampOut>>
        /\ f.revoked = e.revoked
    BY <2>1 DEF HalfOpenEntry, Image
  <2> HIDE DEF f, s
  <2>8. Becomes(a, <<e.h, s, e.active, FALSE, verdict, e.sent, e.ampIn, e.ampOut>>)
    BY <1>1, <2>2, <2>3, <2>6, <2>7 DEF Becomes
  <2> QED
    BY <1>2, <1>4, <2>1, <2>8 DEF HS!AuthDecides, Decides, s
<1>5. ASSUME HS!AuthSends(a) PROVE Sends(a)
  <2>1. task[a].at = "answered" /\ dir[a] # HS!NoEntry /\ dir[a].h \in Nat
    BY <1>3, <1>5 DEF HS!AuthSends, HS!At, HS!Known, HalfOpenEntry
  <2>2. Mail({IF dir[a].answer = "ok" THEN "authok" ELSE "autherr"}, a, dir[a].h)
    BY <1>5, <2>1 DEF HS!AuthSends, Mail, HS!Answer, HS!Msg, Datagram, HS!Frags
  <2> QED
    BY <1>2, <1>5, <2>1, <2>2 DEF HS!AuthSends, Sends
<1>6. ASSUME HS!AuthPublishes(a) PROVE Publishes(a)
  <2> DEFINE e == dir[a]
             f == [e EXCEPT !.sent = TRUE]
  <2>1. task[a].at = "sent" /\ e # HS!NoEntry /\ e \in HalfOpenEntry
    BY <1>2, <1>3, <1>6 DEF HS!AuthPublishes, HS!At
  <2>2. dir' = [dir EXCEPT ![a] = f]
    BY <1>6, <2>1 DEF HS!AuthPublishes, HS!Known
  <2>3. f \in HalfOpenEntry
    BY <2>1, EntryFields
  <2>4. /\ Image(f) = <<e.h, e.state, e.active, e.hello, e.answer, TRUE, e.ampIn, e.ampOut>>
        /\ f.revoked = e.revoked
    BY <2>1 DEF HalfOpenEntry, Image
  <2> HIDE DEF f
  <2>5. Becomes(a, <<e.h, e.state, e.active, e.hello, e.answer, TRUE, e.ampIn, e.ampOut>>)
    BY <1>1, <2>2, <2>3, <2>4 DEF Becomes
  <2> QED
    BY <1>2, <1>6, <2>1, <2>5 DEF HS!AuthPublishes, Publishes
<1>7. ASSUME HS!AuthEnds(a) PROVE Ends(a) \/ LeavesQuietly(a)
  <2> DEFINE e == dir[a]
             f == [e EXCEPT !.active = FALSE]
  <2>1. task[a].at = "done" /\ task' = [task EXCEPT ![a] = HS!NoTask]
        /\ UNCHANGED <<cl, net, part, made, sentOk, cover, credit>>
    BY <1>7 DEF HS!AuthEnds, HS!At
  <2>2. CASE e = HS!NoEntry \/ e.h # task[a].h
    <3>1. dir' = dir
      BY <1>7, <2>2 DEF HS!AuthEnds, HS!Known
    <3> QED
      BY <2>1, <2>2, <3>1 DEF LeavesQuietly
  <2>3. CASE e # HS!NoEntry /\ e.h = task[a].h
    <3>1. dir' = [dir EXCEPT ![a] = f] /\ e \in HalfOpenEntry
      BY <1>3, <1>7, <2>3 DEF HS!AuthEnds, HS!Known
    <3>2. f \in HalfOpenEntry
      BY <3>1, EntryFields
    <3>3. /\ Image(f) = <<e.h, e.state, FALSE, e.hello, e.answer, e.sent, e.ampIn, e.ampOut>>
          /\ f.revoked = e.revoked
      BY <3>1 DEF HalfOpenEntry, Image
    <3> HIDE DEF f
    <3>4. Becomes(a, <<e.h, e.state, FALSE, e.hello, e.answer, e.sent, e.ampIn, e.ampOut>>)
      BY <1>1, <3>1, <3>2, <3>3 DEF Becomes
    <3> QED
      BY <2>1, <2>3, <3>4 DEF Ends
  <2> QED
    BY <2>2, <2>3
<1>8. ASSUME HS!Cover(a) PROVE Covers(a)
  <2>1. dir[a] # HS!NoEntry /\ dir[a].h \in Nat
    BY <1>3, <1>8 DEF HS!Cover, HS!Known, HalfOpenEntry
  <2>2. Mail({"cover"}, a, dir[a].h)
    BY <1>8, <2>1 DEF HS!Cover, Mail, HS!Msg, Datagram, HS!Frags
  <2> QED
    BY <1>8, <2>1, <2>2 DEF HS!Cover, Covers
<1> QED
  BY <1>4, <1>5, <1>6, <1>7, <1>8

\* A kick and the clock.
LEMMA AgeSteps ==
  ASSUME HandshakeConstants, HandshakeInv
  PROVE  (HS!Tick => Ages) /\ \A a \in Addrs : HS!Revoke(a) => Ages
<1>1. dir \in [Addrs -> HalfOpenEntry \cup {HS!NoEntry}]
  BY DEF HandshakeInv, HandshakeTypes
<1>2. ASSUME HS!Tick PROVE Ages
  <2>1. ASSUME NEW b \in Addrs, dir[b] # HS!NoEntry
        PROVE  /\ dir'[b] \in HalfOpenEntry /\ Image(dir'[b]) = Image(dir[b])
               /\ dir'[b].revoked = dir[b].revoked
    <3> DEFINE e == dir[b]
               x == HS!Older(e.born)
               y == HS!Older(e.idle)
               p == [e EXCEPT !.born = x]
               f == [p EXCEPT !.idle = y]
    <3>1. e \in HalfOpenEntry /\ e.born \in Int /\ e.idle \in Int /\ Window + 1 \in Int
      BY <1>1, <2>1 DEF HalfOpenEntry, HandshakeConstants
    <3>2. x \in Int /\ y \in Int
      BY <3>1, LesserOfTwo DEF HS!Older
    <3> HIDE DEF x, y
    <3>3. dir'[b] = [e EXCEPT !.born = x, !.idle = y]
      BY <1>2, <2>1 DEF HS!Tick, HS!Known, x, y
    <3>4. [e EXCEPT !.born = x, !.idle = y] = f
      BY <3>1 DEF HalfOpenEntry
    <3>5. p \in HalfOpenEntry
      BY <3>1, <3>2, EntryFields
    <3>6. f \in HalfOpenEntry
      <4> HIDE DEF p
      <4> QED
        BY <3>2, <3>5, EntryFields
    <3>7. Image(f) = Image(e) /\ f.revoked = e.revoked
      BY <3>1 DEF HalfOpenEntry, Image
    <3> HIDE DEF f
    <3> QED
      BY <3>3, <3>4, <3>6, <3>7
  <2>2. /\ \A b \in Addrs : dir[b] = HS!NoEntry => dir'[b] = HS!NoEntry
        /\ UNCHANGED <<cl, net, part, task, made, sentOk, cover, credit>>
    BY <1>2 DEF HS!Tick, HS!Known
  <2>3. dir' = [b \in Addrs |-> dir'[b]]
    BY <1>2 DEF HS!Tick
  <2>4. \A b \in Addrs : dir'[b] \in HalfOpenEntry \cup {HS!NoEntry}
    BY <2>1, <2>2
  <2>5. dir' \in [Addrs -> HalfOpenEntry \cup {HS!NoEntry}]
    BY <2>3, <2>4
  <2> QED
    BY <2>1, <2>2, <2>5 DEF Ages
<1>3. ASSUME NEW a \in Addrs, HS!Revoke(a) PROVE Ages
  <2> DEFINE f == [dir[a] EXCEPT !.revoked = TRUE]
  <2>1. dir[a] \in HalfOpenEntry /\ dir[a] # HS!NoEntry /\ dir[a].sent
    BY <1>1, <1>3 DEF HS!Revoke, HS!Known
  <2>2. f \in HalfOpenEntry /\ Image(f) = Image(dir[a])
    <3>1. f \in HalfOpenEntry
      BY <2>1, EntryFields
    <3> QED
      BY <2>1, <3>1 DEF HalfOpenEntry, Image
  <2>3. dir' = [dir EXCEPT ![a] = f]
        /\ UNCHANGED <<cl, net, part, task, made, sentOk, cover, credit>>
    BY <1>3 DEF HS!Revoke
  <2> HIDE DEF f
  <2>4. \A b \in Addrs : dir'[b] = IF b = a THEN f ELSE dir[b]
    BY <1>1, <2>3
  <2> QED
    BY <1>1, <2>1, <2>2, <2>3, <2>4 DEF Ages
<1> QED
  BY <1>2, <1>3

\* Every step is one of these.
LEMMA HandshakeSteps ==
  ASSUME HandshakeConstants, HandshakeInv, HS!Next
  PROVE  \/ ClientSide \/ Ages \/ HS!Cleanup
         \/ \E a \in Addrs : \/ HS!AuthFails(a) \/ HS!ForgetPartial(a) \/ Sends(a)
                             \/ Publishes(a) \/ Ends(a) \/ LeavesQuietly(a) \/ Covers(a)
                             \/ HS!RemoveRevoked(a)
                             \/ \E verdict \in {"ok", "error"} : Decides(a, verdict)
         \/ \E m \in net, rest \in SUBSET net :
              \/ Holds(m, rest) \/ Admits(m, rest) \/ TurnsAway(m, rest) \/ Forgets(m, rest)
              \/ SaysHelloAgain(m, rest) \/ AnswersAgain(m, rest) \/ PassesOver(m, rest)
              \/ Decrypts(m, rest)
<1>1. HS!Copies \subseteq BOOLEAN
  BY DEF HS!Copies
<1>2. ASSUME NEW a \in Addrs,
             \/ HS!ClientSend(a) \/ HS!ClientData(a) \/ HS!ClientLeaves(a)
             \/ HS!AuthFails(a) \/ HS!AuthSends(a) \/ HS!AuthPublishes(a) \/ HS!AuthEnds(a)
             \/ \E verdict \in {"ok", "error"} : HS!AuthDecides(a, verdict)
             \/ HS!Cover(a) \/ HS!Revoke(a) \/ HS!ForgetPartial(a)
             \/ HS!RoutedToRevoked(a) \/ \E b \in Addrs : HS!Supersede(a, b)
      PROVE  \/ ClientSide \/ Ages \/ HS!AuthFails(a) \/ HS!ForgetPartial(a) \/ Sends(a)
             \/ Publishes(a) \/ Ends(a) \/ LeavesQuietly(a) \/ Covers(a)
             \/ HS!RemoveRevoked(a)
             \/ \E verdict \in {"ok", "error"} : Decides(a, verdict)
  BY <1>2, ClientSteps, TaskSteps, AgeSteps DEF HS!RoutedToRevoked, HS!Supersede
<1>3. ASSUME NEW m \in net, NEW keep \in BOOLEAN,
             HS!ServerReceive(m, keep) \/ HS!ClientReceive(m, keep) \/ HS!Lose(m)
      PROVE  \/ ClientSide
             \/ \E rest \in SUBSET net :
                  \/ Holds(m, rest) \/ Admits(m, rest) \/ TurnsAway(m, rest)
                  \/ Forgets(m, rest) \/ SaysHelloAgain(m, rest) \/ AnswersAgain(m, rest)
                  \/ PassesOver(m, rest) \/ Decrypts(m, rest)
  BY <1>3, ClientSteps, ReceiveSteps
<1>4. ASSUME NEW m \in net, HS!Lose(m) PROVE ClientSide
  BY <1>4, ClientSteps
<1>5. HS!Tick => Ages
  BY AgeSteps
<1> QED
  BY <1>1, <1>2, <1>3, <1>4, <1>5 DEF HS!Next

\* What a source earns: a datagram that is not answered never costs it anything, and
\* one that is answered what the answer is longer than three datagrams.
LEMMA CreditFacts ==
  ASSUME HandshakeConstants, HandshakeTypes, NEW a \in Addrs
  PROVE  /\ Earned(a, 0) \in Int /\ Earned(a, HelloLen) \in Int
         /\ credit[a] >= 0 => Earned(a, 0) >= 3
         /\ credit[a] >= 0 /\ credit[a] <= 3 * MaxRecv => Earned(a, 0) >= credit[a]
BY CountedCredit DEF HandshakeConstants, HandshakeTypes, Earned

\* The budget of an entry grows no faster than what its source earns.
LEMMA BudgetFacts ==
  ASSUME HandshakeConstants, HandshakeTypes, BudgetIsEarned, NEW a \in Addrs,
         dir[a] # HS!NoEntry
  PROVE  /\ Grown(a) \in Nat /\ Grown(a) <= MaxRecv
         /\ dir[a].hello => /\ 3 * Grown(a) - dir[a].ampOut <= Earned(a, 0)
                            /\ 3 * Grown(a) - dir[a].ampOut - HelloLen <= Earned(a, HelloLen)
         /\ 3 * Grown(a) - dir[a].ampOut <= 100
<1>1. dir[a] \in HalfOpenEntry /\ credit[a] \in Int
  BY DEF HandshakeTypes
<1>2. dir[a].ampIn \in Nat /\ dir[a].ampOut \in Nat /\ dir[a].hello \in BOOLEAN
  BY <1>1 DEF HalfOpenEntry
<1>3. MaxRecv \in Nat /\ MaxRecv <= 33 /\ HelloLen \in Nat /\ HelloLen <= 6
  BY DEF HandshakeConstants
<1>4. /\ dir[a].hello => 3 * dir[a].ampIn - dir[a].ampOut <= credit[a]
      /\ dir[a].ampIn <= MaxRecv
  BY DEF BudgetIsEarned
<1>5. Grown(a) \in Nat /\ Grown(a) <= MaxRecv /\ Grown(a) <= dir[a].ampIn + 1
  BY <1>2, <1>3, <1>4 DEF Grown
<1>6. /\ dir[a].hello => /\ 3 * Grown(a) - dir[a].ampOut <= Earned(a, 0)
                         /\ 3 * Grown(a) - dir[a].ampOut - HelloLen <= Earned(a, HelloLen)
      /\ 3 * Grown(a) - dir[a].ampOut <= 100
  BY <1>1, <1>2, <1>3, <1>4, <1>5 DEF Earned
<1> QED
  BY <1>5, <1>6

\* A source that has completed a ClientHello has earned the reply.
LEMMA ReplyIsEarned ==
  ASSUME HandshakeConstants, HandshakeTypes, NEW a \in Addrs, credit[a] >= 3
  PROVE  Earned(a, HelloLen) >= 6 - HelloLen /\ 6 - HelloLen >= 0
BY DEF HandshakeConstants, HandshakeTypes, Earned

\* Every step keeps the types.
LEMMA HandshakeTypesStep ==
  ASSUME HandshakeConstants, HandshakeInv, HS!Next
  PROVE  HandshakeTypes'
<1> USE DEF HandshakeInv, HandshakeConstants, HandshakeTypes, HS!HandshakesAreSound
<1>1. CASE ClientSide
  BY <1>1 DEF ClientSide, HS!server
<1>2. ASSUME NEW a \in Addrs, HS!AuthFails(a)
      PROVE  HandshakeTypes'
  BY <1>2, EntriesDiffer, CreditFacts DEF HS!AuthFails, HS!At
<1>3. ASSUME NEW a \in Addrs, NEW verdict \in {"ok", "error"}, Decides(a, verdict)
      PROVE  HandshakeTypes'
  <2>1. task[a] # HS!NoTask
    BY <1>3, EntriesDiffer DEF Decides
  <2>2. task[a].h \in Nat \ {0}
    BY <2>1
  <2>3. task' \in [Addrs -> [h : Nat \ {0}, at : {"verify", "answered", "sent", "done"}]
                            \cup {HS!NoTask}]
    BY <1>3, <2>2 DEF Decides
  <2>4. dir' \in [Addrs -> HalfOpenEntry \cup {HS!NoEntry}]
    BY <1>3, EntriesDiffer, CreditFacts DEF Decides, Becomes
  <2> QED
    BY <1>3, <2>3, <2>4 DEF Decides
<1>4. ASSUME NEW a \in Addrs, Sends(a)
      PROVE  HandshakeTypes'
  BY <1>4, EntriesDiffer, CreditFacts DEF Sends, Mail
<1>5. ASSUME NEW a \in Addrs, Publishes(a)
      PROVE  HandshakeTypes'
  <2>1. task[a] # HS!NoTask
    BY <1>5, EntriesDiffer DEF Publishes
  <2>2. task[a].h \in Nat \ {0}
    BY <2>1
  <2>3. task' \in [Addrs -> [h : Nat \ {0}, at : {"verify", "answered", "sent", "done"}]
                            \cup {HS!NoTask}]
    BY <1>5, <2>2 DEF Publishes
  <2>4. dir' \in [Addrs -> HalfOpenEntry \cup {HS!NoEntry}]
    BY <1>5, EntriesDiffer, CreditFacts DEF Publishes, Becomes
  <2> QED
    BY <1>5, <2>3, <2>4 DEF Publishes
<1>6. ASSUME NEW a \in Addrs, Ends(a)
      PROVE  HandshakeTypes'
  <2>1. dir' \in [Addrs -> HalfOpenEntry \cup {HS!NoEntry}]
    BY <1>6, EntriesDiffer, CreditFacts DEF Ends, Becomes
  <2>2. task' \in [Addrs -> [h : Nat \ {0}, at : {"verify", "answered", "sent", "done"}]
                            \cup {HS!NoTask}]
    BY <1>6, EntriesDiffer, CreditFacts DEF Ends, Becomes
  <2> QED
    BY <1>6, <2>1, <2>2 DEF Ends
<1>7. ASSUME NEW a \in Addrs, Covers(a)
      PROVE  HandshakeTypes'
  BY <1>7, EntriesDiffer, CreditFacts DEF Covers, Mail
<1>8. CASE Ages
  BY <1>8, EntriesDiffer, CreditFacts DEF Ages
<1>9. ASSUME NEW a \in Addrs, HS!ForgetPartial(a)
      PROVE  HandshakeTypes'
  BY <1>9 DEF HS!ForgetPartial
<1>10. CASE HS!Cleanup
  BY <1>10 DEF HS!Cleanup, HS!Expired, HS!Known
<1>11. ASSUME NEW m \in net, NEW rest \in SUBSET net, Holds(m, rest)
      PROVE  HandshakeTypes'
  <2>1. m.a \in Addrs /\ m.i \in HS!Frags
    BY DEF Datagram
  <2>2. part' \in [Addrs -> SUBSET HS!Frags]
    BY <1>11, <2>1 DEF Holds
  <2>3. credit' \in [Addrs -> Int]
    BY <1>11, <2>1, CreditFacts DEF Holds
  <2> QED
    BY <1>11, <2>2, <2>3 DEF Holds
<1>12. ASSUME NEW m \in net, NEW rest \in SUBSET net, Admits(m, rest)
      PROVE  HandshakeTypes'
  <2>1. m.a \in Addrs /\ made[m.a] + 1 \in Nat
    BY DEF Datagram
  <2>2. part' \in [Addrs -> SUBSET HS!Frags] /\ made' \in [Addrs -> Nat]
    BY <1>12, <2>1 DEF Admits
  <2>3. credit' \in [Addrs -> Int]
    BY <1>12, <2>1, CreditFacts DEF Admits
  <2>4. net' \subseteq Datagram /\ dir' \in [Addrs -> HalfOpenEntry \cup {HS!NoEntry}]
    BY <1>12, EntriesDiffer, CreditFacts DEF Admits, Mail
  <2> QED
    BY <1>12, <2>2, <2>3, <2>4 DEF Admits
<1>13. ASSUME NEW m \in net, NEW rest \in SUBSET net, TurnsAway(m, rest)
      PROVE  HandshakeTypes'
  BY <1>13, EntriesDiffer, CreditFacts DEF TurnsAway
<1>14. ASSUME NEW m \in net, NEW rest \in SUBSET net, Forgets(m, rest)
      PROVE  HandshakeTypes'
  BY <1>14 DEF Forgets
<1>15. ASSUME NEW m \in net, NEW rest \in SUBSET net, SaysHelloAgain(m, rest)
      PROVE  HandshakeTypes'
  <2>1. m.a \in Addrs
    BY DEF Datagram
  <2>2. credit' \in [Addrs -> Int]
    BY <1>15, <2>1, CreditFacts DEF SaysHelloAgain
  <2>3. net' \subseteq Datagram
    BY <1>15, EntriesDiffer, CreditFacts DEF SaysHelloAgain, Mail
  <2>4. dir' \in [Addrs -> HalfOpenEntry \cup {HS!NoEntry}]
    BY <1>15, EntriesDiffer, CreditFacts DEF SaysHelloAgain, Becomes
  <2> QED
    BY <1>15, <2>2, <2>3, <2>4 DEF SaysHelloAgain
<1>16. ASSUME NEW m \in net, NEW rest \in SUBSET net, AnswersAgain(m, rest)
      PROVE  HandshakeTypes'
  <2>1. m.a \in Addrs
    BY DEF Datagram
  <2>2. credit' \in [Addrs -> Int]
    BY <1>16, <2>1, CreditFacts DEF AnswersAgain
  <2>3. net' \subseteq Datagram
    BY <1>16, EntriesDiffer, CreditFacts DEF AnswersAgain, Mail
  <2>4. dir' \in [Addrs -> HalfOpenEntry \cup {HS!NoEntry}]
    BY <1>16, EntriesDiffer, CreditFacts DEF AnswersAgain, Becomes
  <2> QED
    BY <1>16, <2>2, <2>3, <2>4 DEF AnswersAgain
<1>17. ASSUME NEW m \in net, NEW rest \in SUBSET net, PassesOver(m, rest)
      PROVE  HandshakeTypes'
  <2>1. m.a \in Addrs
    BY DEF Datagram
  <2>2. credit' \in [Addrs -> Int]
    BY <1>17, <2>1, CreditFacts DEF PassesOver
  <2>3. net' \subseteq Datagram
    BY <1>17, EntriesDiffer, CreditFacts DEF PassesOver, Mail
  <2>4. dir' \in [Addrs -> HalfOpenEntry \cup {HS!NoEntry}]
    BY <1>17, EntriesDiffer, CreditFacts DEF PassesOver, Becomes
  <2> QED
    BY <1>17, <2>2, <2>3, <2>4 DEF PassesOver
<1>18. ASSUME NEW m \in net, NEW rest \in SUBSET net, Decrypts(m, rest)
      PROVE  HandshakeTypes'
  <2>1. m.a \in Addrs /\ dir[m.a] \in HalfOpenEntry
    BY <1>18 DEF Datagram, Decrypts
  <2>2. dir[m.a].h \in Nat \ {0}
    BY <2>1 DEF HalfOpenEntry
  <2>3. task' \in [Addrs -> [h : Nat \ {0}, at : {"verify", "answered", "sent", "done"}]
                            \cup {HS!NoTask}]
    BY <1>18, <2>1, <2>2 DEF Decrypts
  <2>4. credit' \in [Addrs -> Int]
    BY <1>18, <2>1 DEF Decrypts
  <2>5. dir' \in [Addrs -> HalfOpenEntry \cup {HS!NoEntry}]
    BY <1>18, EntriesDiffer, CreditFacts DEF Decrypts, Becomes
  <2> QED
    BY <1>18, <2>3, <2>4, <2>5 DEF Decrypts
<1>19. ASSUME NEW a \in Addrs, HS!RemoveRevoked(a)
      PROVE  HandshakeTypes'
  BY <1>19, EntriesDiffer DEF HS!RemoveRevoked
<1>20. ASSUME NEW a \in Addrs, LeavesQuietly(a)
      PROVE  HandshakeTypes'
  BY <1>20, EntriesDiffer DEF LeavesQuietly
<1> HIDE DEF HandshakeInv, HandshakeConstants, HandshakeTypes, HS!HandshakesAreSound
<1> QED
  BY <1>1, <1>2, <1>3, <1>4, <1>5, <1>6, <1>7, <1>8, <1>9, <1>10, <1>11, <1>12, <1>13,
     <1>14, <1>15, <1>16, <1>17, <1>18, <1>19, <1>20, HandshakeSteps
  DEF HS!Next

\* Every step leaves an AUTH task its entry until the answer is published: eviction and
\* expiry look at the lease, and a revocation finds the answer published.
LEMMA VerifierStep ==
  ASSUME HandshakeConstants, HandshakeInv, HS!Next
  PROVE  HS!VerifierKeepsItsHandshake'
<1> USE DEF HandshakeInv, HandshakeConstants, HandshakeTypes, HS!HandshakesAreSound,
         HS!VerifierKeepsItsHandshake, HS!Known, HS!At, AdmittedOnce, NumbersAreFresh
<1>1. CASE ClientSide
  BY <1>1 DEF ClientSide, HS!server
<1>2. ASSUME NEW a \in Addrs, HS!AuthFails(a)
      PROVE  HS!VerifierKeepsItsHandshake'
  BY <1>2, EntriesDiffer, CreditFacts DEF HS!AuthFails, HS!At
<1>3. ASSUME NEW a \in Addrs, NEW verdict \in {"ok", "error"}, Decides(a, verdict)
      PROVE  HS!VerifierKeepsItsHandshake'
  BY <1>3, EntriesDiffer, CreditFacts DEF Decides, Becomes, Image
<1>4. ASSUME NEW a \in Addrs, Sends(a)
      PROVE  HS!VerifierKeepsItsHandshake'
  BY <1>4, EntriesDiffer, CreditFacts DEF Sends, Mail
<1>5. ASSUME NEW a \in Addrs, Publishes(a)
      PROVE  HS!VerifierKeepsItsHandshake'
  BY <1>5, EntriesDiffer, CreditFacts DEF Publishes, Becomes, Image
<1>6. ASSUME NEW a \in Addrs, Ends(a)
      PROVE  HS!VerifierKeepsItsHandshake'
  BY <1>6, EntriesDiffer, CreditFacts DEF Ends, Becomes, Image
<1>7. ASSUME NEW a \in Addrs, Covers(a)
      PROVE  HS!VerifierKeepsItsHandshake'
  BY <1>7, EntriesDiffer, CreditFacts DEF Covers, Mail
<1>8. CASE Ages
  BY <1>8, EntriesDiffer, CreditFacts DEF Ages, Image
<1>9. ASSUME NEW a \in Addrs, HS!ForgetPartial(a)
      PROVE  HS!VerifierKeepsItsHandshake'
  BY <1>9 DEF HS!ForgetPartial
<1>10. CASE HS!Cleanup
  BY <1>10 DEF HS!Cleanup, HS!Expired, HS!Known
<1>11. ASSUME NEW m \in net, NEW rest \in SUBSET net, Holds(m, rest)
      PROVE  HS!VerifierKeepsItsHandshake'
  BY <1>11, EntriesDiffer, CreditFacts DEF Holds
<1>12. ASSUME NEW m \in net, NEW rest \in SUBSET net, Admits(m, rest)
      PROVE  HS!VerifierKeepsItsHandshake'
  BY <1>12, EntriesDiffer, CreditFacts DEF Admits, Image, Mail
<1>13. ASSUME NEW m \in net, NEW rest \in SUBSET net, TurnsAway(m, rest)
      PROVE  HS!VerifierKeepsItsHandshake'
  BY <1>13, EntriesDiffer, CreditFacts DEF TurnsAway
<1>14. ASSUME NEW m \in net, NEW rest \in SUBSET net, Forgets(m, rest)
      PROVE  HS!VerifierKeepsItsHandshake'
  BY <1>14 DEF Forgets
<1>15. ASSUME NEW m \in net, NEW rest \in SUBSET net, SaysHelloAgain(m, rest)
      PROVE  HS!VerifierKeepsItsHandshake'
  BY <1>15, EntriesDiffer, CreditFacts DEF SaysHelloAgain, Becomes, Image, Mail
<1>16. ASSUME NEW m \in net, NEW rest \in SUBSET net, AnswersAgain(m, rest)
      PROVE  HS!VerifierKeepsItsHandshake'
  BY <1>16, EntriesDiffer, CreditFacts DEF AnswersAgain, Becomes, Image, Mail
<1>17. ASSUME NEW m \in net, NEW rest \in SUBSET net, PassesOver(m, rest)
      PROVE  HS!VerifierKeepsItsHandshake'
  BY <1>17, EntriesDiffer, CreditFacts DEF PassesOver, Becomes, Image
<1>18. ASSUME NEW m \in net, NEW rest \in SUBSET net, Decrypts(m, rest)
      PROVE  HS!VerifierKeepsItsHandshake'
  <2>1. /\ \A b \in Addrs : b # m.a => dir'[b] = dir[b]
        /\ dir'[m.a] \in HalfOpenEntry /\ dir'[m.a].h = dir[m.a].h
        /\ dir'[m.a].active = (dir[m.a].active \/ dir[m.a].state = "awaiting")
        /\ m.a \in Addrs
    BY <1>18, EntriesDiffer, CreditFacts DEF Decrypts, Becomes, Image, Datagram
  <2>2. dir'[m.a] # HS!NoEntry
    BY <2>1, EntriesDiffer
  <2>3. CASE dir[m.a].state = "awaiting" /\ ~dir[m.a].active
    <3>1. task' = [task EXCEPT ![m.a] = [h |-> dir[m.a].h, at |-> "verify"]]
      BY <1>18, <2>3 DEF Decrypts
    <3>2. /\ task'[m.a].h = dir[m.a].h /\ \A b \in Addrs : b # m.a => task'[b] = task[b]
          /\ dir'[m.a].active
      BY <2>1, <2>3, <3>1
    <3> HIDE DEF HandshakeTypes, AdmittedOnce, NumbersAreFresh
    <3> QED
      BY <2>1, <2>2, <3>2
  <2>4. CASE ~(dir[m.a].state = "awaiting" /\ ~dir[m.a].active)
    <3>1. task' = task
      BY <1>18, <2>4 DEF Decrypts
    <3>2. ASSUME NEW b \in Addrs, task[b] # HS!NoTask
          PROVE  /\ task[b].at # "done" => dir'[b] # HS!NoEntry /\ dir'[b].h = task[b].h
                 /\ dir'[b] # HS!NoEntry /\ dir'[b].h = task[b].h => dir'[b].active
      <4>1. CASE b = m.a
        BY <1>18, <2>1, <2>2, <3>2, <4>1 DEF Decrypts
      <4>2. CASE b # m.a
        BY <2>1, <3>2, <4>2
      <4> QED
        BY <4>1, <4>2
    <3> HIDE DEF HandshakeTypes, AdmittedOnce, NumbersAreFresh
    <3> QED
      BY <3>1, <3>2
  <2> QED
    BY <2>3, <2>4
<1>19. ASSUME NEW a \in Addrs, HS!RemoveRevoked(a)
      PROVE  HS!VerifierKeepsItsHandshake'
  BY <1>19, EntriesDiffer DEF HS!RemoveRevoked
<1>20. ASSUME NEW a \in Addrs, LeavesQuietly(a)
      PROVE  HS!VerifierKeepsItsHandshake'
  BY <1>20, EntriesDiffer DEF LeavesQuietly
<1> HIDE DEF HandshakeInv, HandshakeConstants, HandshakeTypes, HS!HandshakesAreSound,
         HS!VerifierKeepsItsHandshake, HS!Known, HS!At, AdmittedOnce, NumbersAreFresh
<1> QED
  BY <1>1, <1>2, <1>3, <1>4, <1>5, <1>6, <1>7, <1>8, <1>9, <1>10, <1>11, <1>12, <1>13,
     <1>14, <1>15, <1>16, <1>17, <1>18, <1>19, <1>20, HandshakeSteps
  DEF HS!Next

\* Every step leaves a source with no more sent to it than it has earned.
LEMMA ReflectionStep ==
  ASSUME HandshakeConstants, HandshakeInv, HS!Next
  PROVE  HS!ReflectionIsBounded'
<1> USE DEF HandshakeInv, HandshakeConstants, HandshakeTypes, HS!HandshakesAreSound,
         HS!ReflectionIsBounded, PartialsAreEarned, BudgetIsEarned
<1>1. CASE ClientSide
  BY <1>1 DEF ClientSide, HS!server
<1>2. ASSUME NEW a \in Addrs, HS!AuthFails(a)
      PROVE  HS!ReflectionIsBounded'
  BY <1>2, EntriesDiffer, CreditFacts DEF HS!AuthFails, HS!At
<1>3. ASSUME NEW a \in Addrs, NEW verdict \in {"ok", "error"}, Decides(a, verdict)
      PROVE  HS!ReflectionIsBounded'
  BY <1>3, EntriesDiffer, CreditFacts DEF Decides, Becomes, Image
<1>4. ASSUME NEW a \in Addrs, Sends(a)
      PROVE  HS!ReflectionIsBounded'
  BY <1>4, EntriesDiffer, CreditFacts DEF Sends, Mail
<1>5. ASSUME NEW a \in Addrs, Publishes(a)
      PROVE  HS!ReflectionIsBounded'
  BY <1>5, EntriesDiffer, CreditFacts DEF Publishes, Becomes, Image
<1>6. ASSUME NEW a \in Addrs, Ends(a)
      PROVE  HS!ReflectionIsBounded'
  BY <1>6, EntriesDiffer, CreditFacts DEF Ends, Becomes, Image
<1>7. ASSUME NEW a \in Addrs, Covers(a)
      PROVE  HS!ReflectionIsBounded'
  BY <1>7, EntriesDiffer, CreditFacts DEF Covers, Mail
<1>8. CASE Ages
  BY <1>8, EntriesDiffer, CreditFacts DEF Ages, Image
<1>9. ASSUME NEW a \in Addrs, HS!ForgetPartial(a)
      PROVE  HS!ReflectionIsBounded'
  BY <1>9 DEF HS!ForgetPartial
<1>10. CASE HS!Cleanup
  BY <1>10 DEF HS!Cleanup, HS!Expired, HS!Known
<1>11. ASSUME NEW m \in net, NEW rest \in SUBSET net, Holds(m, rest)
      PROVE  HS!ReflectionIsBounded'
  BY <1>11, EntriesDiffer, CreditFacts DEF Holds
<1>12. ASSUME NEW m \in net, NEW rest \in SUBSET net, Admits(m, rest)
      PROVE  HS!ReflectionIsBounded'
  <2>1. m.a \in Addrs /\ credit[m.a] >= 3
    BY <1>12, EntriesDiffer, CreditFacts DEF Admits, Datagram
  <2>2. Earned(m.a, HelloLen) >= 0
    BY <2>1, ReplyIsEarned, CreditFacts
  <2> QED
    BY <1>12, <2>1, <2>2 DEF Admits
<1>13. ASSUME NEW m \in net, NEW rest \in SUBSET net, TurnsAway(m, rest)
      PROVE  HS!ReflectionIsBounded'
  BY <1>13, EntriesDiffer, CreditFacts DEF TurnsAway
<1>14. ASSUME NEW m \in net, NEW rest \in SUBSET net, Forgets(m, rest)
      PROVE  HS!ReflectionIsBounded'
  BY <1>14 DEF Forgets
<1>15. ASSUME NEW m \in net, NEW rest \in SUBSET net, SaysHelloAgain(m, rest)
      PROVE  HS!ReflectionIsBounded'
  <2>1. /\ m.a \in Addrs /\ dir[m.a] # HS!NoEntry /\ dir[m.a].hello /\ dir[m.a] \in HalfOpenEntry
        /\ dir[m.a].ampOut + HelloLen <= 3 * Grown(m.a)
    BY <1>15, EntriesDiffer, CreditFacts DEF SaysHelloAgain, Datagram
  <2>2. 3 * Grown(m.a) - dir[m.a].ampOut - HelloLen <= Earned(m.a, HelloLen)
        /\ Grown(m.a) \in Nat /\ dir[m.a].ampOut \in Nat /\ Earned(m.a, HelloLen) \in Int
    BY <2>1, BudgetFacts, CreditFacts DEF HalfOpenEntry
  <2>3. Earned(m.a, HelloLen) >= 0
    BY <2>1, <2>2
  <2> QED
    BY <1>15, <2>1, <2>3 DEF SaysHelloAgain
<1>16. ASSUME NEW m \in net, NEW rest \in SUBSET net, AnswersAgain(m, rest)
      PROVE  HS!ReflectionIsBounded'
  BY <1>16, EntriesDiffer, CreditFacts DEF AnswersAgain, Becomes, Image, Mail
<1>17. ASSUME NEW m \in net, NEW rest \in SUBSET net, PassesOver(m, rest)
      PROVE  HS!ReflectionIsBounded'
  BY <1>17, EntriesDiffer, CreditFacts DEF PassesOver, Becomes, Image
<1>18. ASSUME NEW m \in net, NEW rest \in SUBSET net, Decrypts(m, rest)
      PROVE  HS!ReflectionIsBounded'
  BY <1>18, EntriesDiffer, CreditFacts DEF Decrypts, Becomes, Image
<1>19. ASSUME NEW a \in Addrs, HS!RemoveRevoked(a)
      PROVE  HS!ReflectionIsBounded'
  BY <1>19, EntriesDiffer DEF HS!RemoveRevoked
<1>20. ASSUME NEW a \in Addrs, LeavesQuietly(a)
      PROVE  HS!ReflectionIsBounded'
  BY <1>20, EntriesDiffer DEF LeavesQuietly
<1> HIDE DEF HandshakeInv, HandshakeConstants, HandshakeTypes, HS!HandshakesAreSound,
         HS!ReflectionIsBounded, PartialsAreEarned, BudgetIsEarned
<1> QED
  BY <1>1, <1>2, <1>3, <1>4, <1>5, <1>6, <1>7, <1>8, <1>9, <1>10, <1>11, <1>12, <1>13,
     <1>14, <1>15, <1>16, <1>17, <1>18, <1>19, <1>20, HandshakeSteps
  DEF HS!Next

\* Cover traffic follows the AuthOK, since auth_ok_sent is set after it.
LEMMA CoverStep ==
  ASSUME HandshakeConstants, HandshakeInv, HS!Next
  PROVE  HS!NothingPrecedesAuthOk'
<1> USE DEF HandshakeInv, HandshakeConstants, HandshakeTypes, HS!HandshakesAreSound,
         HS!NothingPrecedesAuthOk, AuthOkIsOnRecord, VerdictIsCached
<1>1. CASE ClientSide
  BY <1>1 DEF ClientSide, HS!server
<1>2. ASSUME NEW a \in Addrs, HS!AuthFails(a)
      PROVE  HS!NothingPrecedesAuthOk'
  BY <1>2, EntriesDiffer, CreditFacts DEF HS!AuthFails, HS!At
<1>3. ASSUME NEW a \in Addrs, NEW verdict \in {"ok", "error"}, Decides(a, verdict)
      PROVE  HS!NothingPrecedesAuthOk'
  BY <1>3, EntriesDiffer, CreditFacts DEF Decides, Becomes, Image
<1>4. ASSUME NEW a \in Addrs, Sends(a)
      PROVE  HS!NothingPrecedesAuthOk'
  BY <1>4, EntriesDiffer, CreditFacts DEF Sends, Mail
<1>5. ASSUME NEW a \in Addrs, Publishes(a)
      PROVE  HS!NothingPrecedesAuthOk'
  BY <1>5, EntriesDiffer, CreditFacts DEF Publishes, Becomes, Image
<1>6. ASSUME NEW a \in Addrs, Ends(a)
      PROVE  HS!NothingPrecedesAuthOk'
  BY <1>6, EntriesDiffer, CreditFacts DEF Ends, Becomes, Image
<1>7. ASSUME NEW a \in Addrs, Covers(a)
      PROVE  HS!NothingPrecedesAuthOk'
  BY <1>7, EntriesDiffer, CreditFacts DEF Covers, Mail
<1>8. CASE Ages
  BY <1>8, EntriesDiffer, CreditFacts DEF Ages, Image
<1>9. ASSUME NEW a \in Addrs, HS!ForgetPartial(a)
      PROVE  HS!NothingPrecedesAuthOk'
  BY <1>9 DEF HS!ForgetPartial
<1>10. CASE HS!Cleanup
  BY <1>10 DEF HS!Cleanup, HS!Expired, HS!Known
<1>11. ASSUME NEW m \in net, NEW rest \in SUBSET net, Holds(m, rest)
      PROVE  HS!NothingPrecedesAuthOk'
  BY <1>11, EntriesDiffer, CreditFacts DEF Holds
<1>12. ASSUME NEW m \in net, NEW rest \in SUBSET net, Admits(m, rest)
      PROVE  HS!NothingPrecedesAuthOk'
  BY <1>12, EntriesDiffer, CreditFacts DEF Admits, Image, Mail
<1>13. ASSUME NEW m \in net, NEW rest \in SUBSET net, TurnsAway(m, rest)
      PROVE  HS!NothingPrecedesAuthOk'
  BY <1>13, EntriesDiffer, CreditFacts DEF TurnsAway
<1>14. ASSUME NEW m \in net, NEW rest \in SUBSET net, Forgets(m, rest)
      PROVE  HS!NothingPrecedesAuthOk'
  BY <1>14 DEF Forgets
<1>15. ASSUME NEW m \in net, NEW rest \in SUBSET net, SaysHelloAgain(m, rest)
      PROVE  HS!NothingPrecedesAuthOk'
  BY <1>15, EntriesDiffer, CreditFacts DEF SaysHelloAgain, Becomes, Image, Mail
<1>16. ASSUME NEW m \in net, NEW rest \in SUBSET net, AnswersAgain(m, rest)
      PROVE  HS!NothingPrecedesAuthOk'
  BY <1>16, EntriesDiffer, CreditFacts DEF AnswersAgain, Becomes, Image, Mail
<1>17. ASSUME NEW m \in net, NEW rest \in SUBSET net, PassesOver(m, rest)
      PROVE  HS!NothingPrecedesAuthOk'
  BY <1>17, EntriesDiffer, CreditFacts DEF PassesOver, Becomes, Image
<1>18. ASSUME NEW m \in net, NEW rest \in SUBSET net, Decrypts(m, rest)
      PROVE  HS!NothingPrecedesAuthOk'
  BY <1>18, EntriesDiffer, CreditFacts DEF Decrypts, Becomes, Image
<1>19. ASSUME NEW a \in Addrs, HS!RemoveRevoked(a)
      PROVE  HS!NothingPrecedesAuthOk'
  BY <1>19, EntriesDiffer DEF HS!RemoveRevoked
<1>20. ASSUME NEW a \in Addrs, LeavesQuietly(a)
      PROVE  HS!NothingPrecedesAuthOk'
  BY <1>20, EntriesDiffer DEF LeavesQuietly
<1> HIDE DEF HandshakeInv, HandshakeConstants, HandshakeTypes, HS!HandshakesAreSound,
         HS!NothingPrecedesAuthOk, AuthOkIsOnRecord, VerdictIsCached
<1> QED
  BY <1>1, <1>2, <1>3, <1>4, <1>5, <1>6, <1>7, <1>8, <1>9, <1>10, <1>11, <1>12, <1>13,
     <1>14, <1>15, <1>16, <1>17, <1>18, <1>19, <1>20, HandshakeSteps
  DEF HS!Next

\* Every step leaves the partials to unknown sources that have earned a reply.
LEMMA PartialsStep ==
  ASSUME HandshakeConstants, HandshakeInv, HS!Next
  PROVE  PartialsAreEarned'
<1> USE DEF HandshakeInv, HandshakeConstants, HandshakeTypes, HS!HandshakesAreSound,
         PartialsAreEarned, HS!ReflectionIsBounded
<1>1. CASE ClientSide
  BY <1>1 DEF ClientSide, HS!server
<1>2. ASSUME NEW a \in Addrs, HS!AuthFails(a)
      PROVE  PartialsAreEarned'
  BY <1>2, EntriesDiffer, CreditFacts DEF HS!AuthFails, HS!At
<1>3. ASSUME NEW a \in Addrs, NEW verdict \in {"ok", "error"}, Decides(a, verdict)
      PROVE  PartialsAreEarned'
  BY <1>3, EntriesDiffer, CreditFacts DEF Decides, Becomes, Image
<1>4. ASSUME NEW a \in Addrs, Sends(a)
      PROVE  PartialsAreEarned'
  BY <1>4, EntriesDiffer, CreditFacts DEF Sends, Mail
<1>5. ASSUME NEW a \in Addrs, Publishes(a)
      PROVE  PartialsAreEarned'
  BY <1>5, EntriesDiffer, CreditFacts DEF Publishes, Becomes, Image
<1>6. ASSUME NEW a \in Addrs, Ends(a)
      PROVE  PartialsAreEarned'
  BY <1>6, EntriesDiffer, CreditFacts DEF Ends, Becomes, Image
<1>7. ASSUME NEW a \in Addrs, Covers(a)
      PROVE  PartialsAreEarned'
  BY <1>7, EntriesDiffer, CreditFacts DEF Covers, Mail
<1>8. CASE Ages
  BY <1>8, EntriesDiffer, CreditFacts DEF Ages, Image
<1>9. ASSUME NEW a \in Addrs, HS!ForgetPartial(a)
      PROVE  PartialsAreEarned'
  BY <1>9 DEF HS!ForgetPartial
<1>10. CASE HS!Cleanup
  BY <1>10 DEF HS!Cleanup, HS!Expired, HS!Known
<1>11. ASSUME NEW m \in net, NEW rest \in SUBSET net, Holds(m, rest)
      PROVE  PartialsAreEarned'
  BY <1>11, EntriesDiffer, CreditFacts DEF Holds
<1>12. ASSUME NEW m \in net, NEW rest \in SUBSET net, Admits(m, rest)
      PROVE  PartialsAreEarned'
  BY <1>12, EntriesDiffer, CreditFacts DEF Admits, Image, Mail
<1>13. ASSUME NEW m \in net, NEW rest \in SUBSET net, TurnsAway(m, rest)
      PROVE  PartialsAreEarned'
  BY <1>13, EntriesDiffer, CreditFacts DEF TurnsAway
<1>14. ASSUME NEW m \in net, NEW rest \in SUBSET net, Forgets(m, rest)
      PROVE  PartialsAreEarned'
  BY <1>14 DEF Forgets
<1>15. ASSUME NEW m \in net, NEW rest \in SUBSET net, SaysHelloAgain(m, rest)
      PROVE  PartialsAreEarned'
  BY <1>15, EntriesDiffer, CreditFacts DEF SaysHelloAgain, Becomes, Image, Mail
<1>16. ASSUME NEW m \in net, NEW rest \in SUBSET net, AnswersAgain(m, rest)
      PROVE  PartialsAreEarned'
  BY <1>16, EntriesDiffer, CreditFacts DEF AnswersAgain, Becomes, Image, Mail
<1>17. ASSUME NEW m \in net, NEW rest \in SUBSET net, PassesOver(m, rest)
      PROVE  PartialsAreEarned'
  BY <1>17, EntriesDiffer, CreditFacts DEF PassesOver, Becomes, Image
<1>18. ASSUME NEW m \in net, NEW rest \in SUBSET net, Decrypts(m, rest)
      PROVE  PartialsAreEarned'
  BY <1>18, EntriesDiffer, CreditFacts DEF Decrypts, Becomes, Image
<1>19. ASSUME NEW a \in Addrs, HS!RemoveRevoked(a)
      PROVE  PartialsAreEarned'
  BY <1>19, EntriesDiffer DEF HS!RemoveRevoked
<1>20. ASSUME NEW a \in Addrs, LeavesQuietly(a)
      PROVE  PartialsAreEarned'
  BY <1>20, EntriesDiffer DEF LeavesQuietly
<1> HIDE DEF HandshakeInv, HandshakeConstants, HandshakeTypes, HS!HandshakesAreSound,
         PartialsAreEarned, HS!ReflectionIsBounded
<1> QED
  BY <1>1, <1>2, <1>3, <1>4, <1>5, <1>6, <1>7, <1>8, <1>9, <1>10, <1>11, <1>12, <1>13,
     <1>14, <1>15, <1>16, <1>17, <1>18, <1>19, <1>20, HandshakeSteps
  DEF HS!Next

\* Every step leaves the budget of an entry within what its source has earned.
LEMMA BudgetStep ==
  ASSUME HandshakeConstants, HandshakeInv, HS!Next
  PROVE  BudgetIsEarned'
<1> USE DEF HandshakeInv, HandshakeConstants, HandshakeTypes, HS!HandshakesAreSound,
         BudgetIsEarned, PartialsAreEarned
<1>1. CASE ClientSide
  BY <1>1 DEF ClientSide, HS!server
<1>2. ASSUME NEW a \in Addrs, HS!AuthFails(a)
      PROVE  BudgetIsEarned'
  BY <1>2, EntriesDiffer, CreditFacts DEF HS!AuthFails, HS!At
<1>3. ASSUME NEW a \in Addrs, NEW verdict \in {"ok", "error"}, Decides(a, verdict)
      PROVE  BudgetIsEarned'
  BY <1>3, EntriesDiffer, CreditFacts DEF Decides, Becomes, Image
<1>4. ASSUME NEW a \in Addrs, Sends(a)
      PROVE  BudgetIsEarned'
  BY <1>4, EntriesDiffer, CreditFacts DEF Sends, Mail
<1>5. ASSUME NEW a \in Addrs, Publishes(a)
      PROVE  BudgetIsEarned'
  BY <1>5, EntriesDiffer, CreditFacts DEF Publishes, Becomes, Image
<1>6. ASSUME NEW a \in Addrs, Ends(a)
      PROVE  BudgetIsEarned'
  BY <1>6, EntriesDiffer, CreditFacts DEF Ends, Becomes, Image
<1>7. ASSUME NEW a \in Addrs, Covers(a)
      PROVE  BudgetIsEarned'
  BY <1>7, EntriesDiffer, CreditFacts DEF Covers, Mail
<1>8. CASE Ages
  BY <1>8, EntriesDiffer, CreditFacts DEF Ages, Image
<1>9. ASSUME NEW a \in Addrs, HS!ForgetPartial(a)
      PROVE  BudgetIsEarned'
  BY <1>9 DEF HS!ForgetPartial
<1>10. CASE HS!Cleanup
  BY <1>10 DEF HS!Cleanup, HS!Expired, HS!Known
<1>11. ASSUME NEW m \in net, NEW rest \in SUBSET net, Holds(m, rest)
      PROVE  BudgetIsEarned'
  BY <1>11, EntriesDiffer, CreditFacts DEF Holds
<1>12. ASSUME NEW m \in net, NEW rest \in SUBSET net, Admits(m, rest)
      PROVE  BudgetIsEarned'
  <2>1. m.a \in Addrs /\ credit[m.a] >= 3
    BY <1>12, EntriesDiffer, CreditFacts DEF Admits, Datagram
  <2>2. /\ dir'[m.a].hello = TRUE /\ dir'[m.a].ampIn = 2 /\ dir'[m.a].ampOut = HelloLen
        /\ dir'[m.a].answer = "none"
        /\ \A b \in Addrs : b # m.a => dir'[b] \in {dir[b], HS!NoEntry}
    BY <1>12, EntriesDiffer, CreditFacts DEF Admits, Image
  <2>3. /\ \A b \in Addrs : b # m.a => credit'[b] = credit[b]
        /\ credit'[m.a] = Earned(m.a, HelloLen)
    BY <1>12, <2>1 DEF Admits
  <2>4. Earned(m.a, HelloLen) >= 6 - HelloLen /\ MaxRecv >= 2
    BY <2>1, ReplyIsEarned
  <2>5. \A b \in Addrs : b # m.a /\ dir'[b] # HS!NoEntry =>
          /\ dir'[b].hello => 3 * dir'[b].ampIn - dir'[b].ampOut <= credit'[b]
          /\ dir'[b].ampIn <= MaxRecv
          /\ dir'[b].answer # "none" => ~dir'[b].hello
    BY <2>2, <2>3
  <2>6. 3 * dir'[m.a].ampIn - dir'[m.a].ampOut <= credit'[m.a] /\ dir'[m.a].ampIn <= MaxRecv
    BY <2>1, <2>2, <2>3, <2>4, CreditFacts
  <2> QED
    BY <2>2, <2>5, <2>6
<1>13. ASSUME NEW m \in net, NEW rest \in SUBSET net, TurnsAway(m, rest)
      PROVE  BudgetIsEarned'
  BY <1>13, EntriesDiffer, CreditFacts DEF TurnsAway
<1>14. ASSUME NEW m \in net, NEW rest \in SUBSET net, Forgets(m, rest)
      PROVE  BudgetIsEarned'
  BY <1>14 DEF Forgets
<1>15. ASSUME NEW m \in net, NEW rest \in SUBSET net, SaysHelloAgain(m, rest)
      PROVE  BudgetIsEarned'
  <2>1. /\ m.a \in Addrs /\ dir[m.a] # HS!NoEntry /\ dir[m.a] \in HalfOpenEntry
        /\ \A b \in Addrs : b # m.a => dir'[b] = dir[b]
        /\ dir'[m.a].hello = dir[m.a].hello /\ dir'[m.a].ampIn = Grown(m.a)
        /\ dir'[m.a].ampOut = dir[m.a].ampOut + HelloLen /\ dir'[m.a].answer = dir[m.a].answer
    BY <1>15, EntriesDiffer, CreditFacts DEF SaysHelloAgain, Becomes, Image, Datagram
  <2>2. /\ \A b \in Addrs : b # m.a => credit'[b] = credit[b]
        /\ credit'[m.a] = Earned(m.a, HelloLen)
    BY <1>15, <2>1 DEF SaysHelloAgain
  <2>3. /\ Grown(m.a) \in Nat /\ Grown(m.a) <= MaxRecv /\ dir[m.a].ampOut \in Nat
        /\ dir[m.a].hello => /\ 3 * Grown(m.a) - dir[m.a].ampOut <= Earned(m.a, 0)
                             /\ 3 * Grown(m.a) - dir[m.a].ampOut - HelloLen
                                   <= Earned(m.a, HelloLen)
        /\ 3 * Grown(m.a) - dir[m.a].ampOut <= 100
    BY <2>1, BudgetFacts DEF HalfOpenEntry
  <2>4. /\ Earned(m.a, 0) \in Int /\ Earned(m.a, HelloLen) \in Int
    BY <2>1, CreditFacts
  <2>5. dir'[m.a].hello => 3 * dir'[m.a].ampIn - dir'[m.a].ampOut <= credit'[m.a]
    BY <2>1, <2>2, <2>3, <2>4
  <2>6. \A b \in Addrs : b # m.a /\ dir'[b] # HS!NoEntry =>
          /\ dir'[b].hello => 3 * dir'[b].ampIn - dir'[b].ampOut <= credit'[b]
          /\ dir'[b].ampIn <= MaxRecv
          /\ dir'[b].answer # "none" => ~dir'[b].hello
    BY <2>1, <2>2
  <2>7. dir'[m.a].ampIn <= MaxRecv /\ (dir'[m.a].answer # "none" => ~dir'[m.a].hello)
    BY <2>1, <2>3
  <2> QED
    BY <2>5, <2>6, <2>7
<1>16. ASSUME NEW m \in net, NEW rest \in SUBSET net, AnswersAgain(m, rest)
      PROVE  BudgetIsEarned'
  <2>1. /\ m.a \in Addrs /\ dir[m.a] # HS!NoEntry /\ dir[m.a] \in HalfOpenEntry /\ ~dir[m.a].hello
        /\ \A b \in Addrs : b # m.a => dir'[b] = dir[b]
        /\ dir'[m.a].hello = dir[m.a].hello /\ dir'[m.a].ampIn = Grown(m.a)
        /\ dir'[m.a].ampOut = dir[m.a].ampOut /\ dir'[m.a].answer = dir[m.a].answer
    BY <1>16, EntriesDiffer, CreditFacts DEF AnswersAgain, Becomes, Image, Datagram
  <2>2. /\ \A b \in Addrs : b # m.a => credit'[b] = credit[b]
        /\ credit'[m.a] = credit[m.a]
    BY <1>16, <2>1 DEF AnswersAgain
  <2>3. /\ Grown(m.a) \in Nat /\ Grown(m.a) <= MaxRecv /\ dir[m.a].ampOut \in Nat
        /\ dir[m.a].hello => /\ 3 * Grown(m.a) - dir[m.a].ampOut <= Earned(m.a, 0)
                             /\ 3 * Grown(m.a) - dir[m.a].ampOut - HelloLen
                                   <= Earned(m.a, HelloLen)
        /\ 3 * Grown(m.a) - dir[m.a].ampOut <= 100
    BY <2>1, BudgetFacts DEF HalfOpenEntry
  <2>4. /\ Earned(m.a, 0) \in Int /\ Earned(m.a, HelloLen) \in Int
    BY <2>1, CreditFacts
  <2>5. dir'[m.a].hello => 3 * dir'[m.a].ampIn - dir'[m.a].ampOut <= credit'[m.a]
    BY <2>1, <2>2, <2>3, <2>4
  <2>6. \A b \in Addrs : b # m.a /\ dir'[b] # HS!NoEntry =>
          /\ dir'[b].hello => 3 * dir'[b].ampIn - dir'[b].ampOut <= credit'[b]
          /\ dir'[b].ampIn <= MaxRecv
          /\ dir'[b].answer # "none" => ~dir'[b].hello
    BY <2>1, <2>2
  <2>7. dir'[m.a].ampIn <= MaxRecv /\ (dir'[m.a].answer # "none" => ~dir'[m.a].hello)
    BY <2>1, <2>3
  <2> QED
    BY <2>5, <2>6, <2>7
<1>17. ASSUME NEW m \in net, NEW rest \in SUBSET net, PassesOver(m, rest)
      PROVE  BudgetIsEarned'
  <2>1. /\ m.a \in Addrs /\ dir[m.a] # HS!NoEntry /\ dir[m.a] \in HalfOpenEntry
        /\ \A b \in Addrs : b # m.a => dir'[b] = dir[b]
        /\ dir'[m.a].hello = dir[m.a].hello /\ dir'[m.a].ampIn = Grown(m.a)
        /\ dir'[m.a].ampOut = dir[m.a].ampOut /\ dir'[m.a].answer = dir[m.a].answer
    BY <1>17, EntriesDiffer, CreditFacts DEF PassesOver, Becomes, Image, Datagram
  <2>2. /\ \A b \in Addrs : b # m.a => credit'[b] = credit[b]
        /\ credit'[m.a] = Earned(m.a, 0)
    BY <1>17, <2>1 DEF PassesOver
  <2>3. /\ Grown(m.a) \in Nat /\ Grown(m.a) <= MaxRecv /\ dir[m.a].ampOut \in Nat
        /\ dir[m.a].hello => /\ 3 * Grown(m.a) - dir[m.a].ampOut <= Earned(m.a, 0)
                             /\ 3 * Grown(m.a) - dir[m.a].ampOut - HelloLen
                                   <= Earned(m.a, HelloLen)
        /\ 3 * Grown(m.a) - dir[m.a].ampOut <= 100
    BY <2>1, BudgetFacts DEF HalfOpenEntry
  <2>4. /\ Earned(m.a, 0) \in Int /\ Earned(m.a, HelloLen) \in Int
    BY <2>1, CreditFacts
  <2>5. dir'[m.a].hello => 3 * dir'[m.a].ampIn - dir'[m.a].ampOut <= credit'[m.a]
    BY <2>1, <2>2, <2>3, <2>4
  <2>6. \A b \in Addrs : b # m.a /\ dir'[b] # HS!NoEntry =>
          /\ dir'[b].hello => 3 * dir'[b].ampIn - dir'[b].ampOut <= credit'[b]
          /\ dir'[b].ampIn <= MaxRecv
          /\ dir'[b].answer # "none" => ~dir'[b].hello
    BY <2>1, <2>2
  <2>7. dir'[m.a].ampIn <= MaxRecv /\ (dir'[m.a].answer # "none" => ~dir'[m.a].hello)
    BY <2>1, <2>3
  <2> QED
    BY <2>5, <2>6, <2>7
<1>18. ASSUME NEW m \in net, NEW rest \in SUBSET net, Decrypts(m, rest)
      PROVE  BudgetIsEarned'
  <2>1. /\ m.a \in Addrs /\ dir[m.a] # HS!NoEntry /\ dir[m.a] \in HalfOpenEntry
        /\ \A b \in Addrs : b # m.a => dir'[b] = dir[b]
        /\ dir'[m.a].hello = dir[m.a].hello /\ dir'[m.a].ampIn = Grown(m.a)
        /\ dir'[m.a].ampOut = dir[m.a].ampOut /\ dir'[m.a].answer = dir[m.a].answer
    BY <1>18, EntriesDiffer, CreditFacts DEF Decrypts, Becomes, Image, Datagram
  <2>2. /\ \A b \in Addrs : b # m.a => credit'[b] = credit[b]
        /\ credit'[m.a] = 100
    BY <1>18, <2>1 DEF Decrypts
  <2>3. /\ Grown(m.a) \in Nat /\ Grown(m.a) <= MaxRecv /\ dir[m.a].ampOut \in Nat
        /\ dir[m.a].hello => /\ 3 * Grown(m.a) - dir[m.a].ampOut <= Earned(m.a, 0)
                             /\ 3 * Grown(m.a) - dir[m.a].ampOut - HelloLen
                                   <= Earned(m.a, HelloLen)
        /\ 3 * Grown(m.a) - dir[m.a].ampOut <= 100
    BY <2>1, BudgetFacts DEF HalfOpenEntry
  <2>4. /\ Earned(m.a, 0) \in Int /\ Earned(m.a, HelloLen) \in Int
    BY <2>1, CreditFacts
  <2>5. dir'[m.a].hello => 3 * dir'[m.a].ampIn - dir'[m.a].ampOut <= credit'[m.a]
    BY <2>1, <2>2, <2>3, <2>4
  <2>6. \A b \in Addrs : b # m.a /\ dir'[b] # HS!NoEntry =>
          /\ dir'[b].hello => 3 * dir'[b].ampIn - dir'[b].ampOut <= credit'[b]
          /\ dir'[b].ampIn <= MaxRecv
          /\ dir'[b].answer # "none" => ~dir'[b].hello
    BY <2>1, <2>2
  <2>7. dir'[m.a].ampIn <= MaxRecv /\ (dir'[m.a].answer # "none" => ~dir'[m.a].hello)
    BY <2>1, <2>3
  <2> QED
    BY <2>5, <2>6, <2>7
<1>19. ASSUME NEW a \in Addrs, HS!RemoveRevoked(a)
      PROVE  BudgetIsEarned'
  BY <1>19, EntriesDiffer DEF HS!RemoveRevoked
<1>20. ASSUME NEW a \in Addrs, LeavesQuietly(a)
      PROVE  BudgetIsEarned'
  BY <1>20, EntriesDiffer DEF LeavesQuietly
<1> HIDE DEF HandshakeInv, HandshakeConstants, HandshakeTypes, HS!HandshakesAreSound,
         BudgetIsEarned, PartialsAreEarned
<1> QED
  BY <1>1, <1>2, <1>3, <1>4, <1>5, <1>6, <1>7, <1>8, <1>9, <1>10, <1>11, <1>12, <1>13,
     <1>14, <1>15, <1>16, <1>17, <1>18, <1>19, <1>20, HandshakeSteps
  DEF HS!Next

\* Every step leaves the entry of an AUTH task where the task stands.
LEMMA VerdictStep ==
  ASSUME HandshakeConstants, HandshakeInv, HS!Next
  PROVE  VerdictIsCached'
<1> USE DEF HandshakeInv, HandshakeConstants, HandshakeTypes, HS!HandshakesAreSound,
         VerdictIsCached, HS!VerifierKeepsItsHandshake, HS!Known, HS!At
<1>1. CASE ClientSide
  BY <1>1 DEF ClientSide, HS!server
<1>2. ASSUME NEW a \in Addrs, HS!AuthFails(a)
      PROVE  VerdictIsCached'
  BY <1>2, EntriesDiffer, CreditFacts DEF HS!AuthFails, HS!At
<1>3. ASSUME NEW a \in Addrs, NEW verdict \in {"ok", "error"}, Decides(a, verdict)
      PROVE  VerdictIsCached'
  BY <1>3, EntriesDiffer, CreditFacts DEF Decides, Becomes, Image
<1>4. ASSUME NEW a \in Addrs, Sends(a)
      PROVE  VerdictIsCached'
  BY <1>4, EntriesDiffer, CreditFacts DEF Sends, Mail
<1>5. ASSUME NEW a \in Addrs, Publishes(a)
      PROVE  VerdictIsCached'
  BY <1>5, EntriesDiffer, CreditFacts DEF Publishes, Becomes, Image
<1>6. ASSUME NEW a \in Addrs, Ends(a)
      PROVE  VerdictIsCached'
  BY <1>6, EntriesDiffer, CreditFacts DEF Ends, Becomes, Image
<1>7. ASSUME NEW a \in Addrs, Covers(a)
      PROVE  VerdictIsCached'
  BY <1>7, EntriesDiffer, CreditFacts DEF Covers, Mail
<1>8. CASE Ages
  BY <1>8, EntriesDiffer, CreditFacts DEF Ages, Image
<1>9. ASSUME NEW a \in Addrs, HS!ForgetPartial(a)
      PROVE  VerdictIsCached'
  BY <1>9 DEF HS!ForgetPartial
<1>10. CASE HS!Cleanup
  BY <1>10 DEF HS!Cleanup, HS!Expired, HS!Known
<1>11. ASSUME NEW m \in net, NEW rest \in SUBSET net, Holds(m, rest)
      PROVE  VerdictIsCached'
  BY <1>11, EntriesDiffer, CreditFacts DEF Holds
<1>12. ASSUME NEW m \in net, NEW rest \in SUBSET net, Admits(m, rest)
      PROVE  VerdictIsCached'
  <2>1. m.a \in Addrs /\ task' = task /\ task[m.a].at \in {"none", "done"}
    BY <1>12, EntriesDiffer DEF Admits, Datagram
  <2>2. /\ dir'[m.a].state = "awaiting" /\ dir'[m.a].answer = "none" /\ dir'[m.a].sent = FALSE
        /\ \A b \in Addrs : b # m.a => dir'[b] \in {dir[b], HS!NoEntry}
    BY <1>12, EntriesDiffer, CreditFacts DEF Admits, Image
  <2> QED
    BY <2>1, <2>2
<1>13. ASSUME NEW m \in net, NEW rest \in SUBSET net, TurnsAway(m, rest)
      PROVE  VerdictIsCached'
  BY <1>13, EntriesDiffer, CreditFacts DEF TurnsAway
<1>14. ASSUME NEW m \in net, NEW rest \in SUBSET net, Forgets(m, rest)
      PROVE  VerdictIsCached'
  BY <1>14 DEF Forgets
<1>15. ASSUME NEW m \in net, NEW rest \in SUBSET net, SaysHelloAgain(m, rest)
      PROVE  VerdictIsCached'
  BY <1>15, EntriesDiffer, CreditFacts DEF SaysHelloAgain, Becomes, Image, Mail
<1>16. ASSUME NEW m \in net, NEW rest \in SUBSET net, AnswersAgain(m, rest)
      PROVE  VerdictIsCached'
  BY <1>16, EntriesDiffer, CreditFacts DEF AnswersAgain, Becomes, Image, Mail
<1>17. ASSUME NEW m \in net, NEW rest \in SUBSET net, PassesOver(m, rest)
      PROVE  VerdictIsCached'
  BY <1>17, EntriesDiffer, CreditFacts DEF PassesOver, Becomes, Image
<1>18. ASSUME NEW m \in net, NEW rest \in SUBSET net, Decrypts(m, rest)
      PROVE  VerdictIsCached'
  BY <1>18, EntriesDiffer, CreditFacts DEF Decrypts, Becomes, Image
<1>19. ASSUME NEW a \in Addrs, HS!RemoveRevoked(a)
      PROVE  VerdictIsCached'
  BY <1>19, EntriesDiffer DEF HS!RemoveRevoked
<1>20. ASSUME NEW a \in Addrs, LeavesQuietly(a)
      PROVE  VerdictIsCached'
  BY <1>20, EntriesDiffer DEF LeavesQuietly
<1> HIDE DEF HandshakeInv, HandshakeConstants, HandshakeTypes, HS!HandshakesAreSound,
         VerdictIsCached, HS!VerifierKeepsItsHandshake, HS!Known, HS!At
<1> QED
  BY <1>1, <1>2, <1>3, <1>4, <1>5, <1>6, <1>7, <1>8, <1>9, <1>10, <1>11, <1>12, <1>13,
     <1>14, <1>15, <1>16, <1>17, <1>18, <1>19, <1>20, HandshakeSteps
  DEF HS!Next

\* Every step leaves whoever was sent an AuthOK on record.
LEMMA OnRecordStep ==
  ASSUME HandshakeConstants, HandshakeInv, HS!Next
  PROVE  AuthOkIsOnRecord'
<1> USE DEF HandshakeInv, HandshakeConstants, HandshakeTypes, HS!HandshakesAreSound,
         AuthOkIsOnRecord, VerdictIsCached, HS!VerifierKeepsItsHandshake, HS!Known,
         HS!At, AdmittedOnce
<1>1. CASE ClientSide
  BY <1>1 DEF ClientSide, HS!server
<1>2. ASSUME NEW a \in Addrs, HS!AuthFails(a)
      PROVE  AuthOkIsOnRecord'
  BY <1>2, EntriesDiffer, CreditFacts DEF HS!AuthFails, HS!At
<1>3. ASSUME NEW a \in Addrs, NEW verdict \in {"ok", "error"}, Decides(a, verdict)
      PROVE  AuthOkIsOnRecord'
  BY <1>3, EntriesDiffer, CreditFacts DEF Decides, Becomes, Image
<1>4. ASSUME NEW a \in Addrs, Sends(a)
      PROVE  AuthOkIsOnRecord'
  BY <1>4, EntriesDiffer, CreditFacts DEF Sends, Mail
<1>5. ASSUME NEW a \in Addrs, Publishes(a)
      PROVE  AuthOkIsOnRecord'
  BY <1>5, EntriesDiffer, CreditFacts DEF Publishes, Becomes, Image
<1>6. ASSUME NEW a \in Addrs, Ends(a)
      PROVE  AuthOkIsOnRecord'
  BY <1>6, EntriesDiffer, CreditFacts DEF Ends, Becomes, Image
<1>7. ASSUME NEW a \in Addrs, Covers(a)
      PROVE  AuthOkIsOnRecord'
  BY <1>7, EntriesDiffer, CreditFacts DEF Covers, Mail
<1>8. CASE Ages
  BY <1>8, EntriesDiffer, CreditFacts DEF Ages, Image
<1>9. ASSUME NEW a \in Addrs, HS!ForgetPartial(a)
      PROVE  AuthOkIsOnRecord'
  BY <1>9 DEF HS!ForgetPartial
<1>10. CASE HS!Cleanup
  BY <1>10 DEF HS!Cleanup, HS!Expired, HS!Known
<1>11. ASSUME NEW m \in net, NEW rest \in SUBSET net, Holds(m, rest)
      PROVE  AuthOkIsOnRecord'
  BY <1>11, EntriesDiffer, CreditFacts DEF Holds
<1>12. ASSUME NEW m \in net, NEW rest \in SUBSET net, Admits(m, rest)
      PROVE  AuthOkIsOnRecord'
  BY <1>12, EntriesDiffer, CreditFacts DEF Admits, Image, Mail
<1>13. ASSUME NEW m \in net, NEW rest \in SUBSET net, TurnsAway(m, rest)
      PROVE  AuthOkIsOnRecord'
  BY <1>13, EntriesDiffer, CreditFacts DEF TurnsAway
<1>14. ASSUME NEW m \in net, NEW rest \in SUBSET net, Forgets(m, rest)
      PROVE  AuthOkIsOnRecord'
  BY <1>14 DEF Forgets
<1>15. ASSUME NEW m \in net, NEW rest \in SUBSET net, SaysHelloAgain(m, rest)
      PROVE  AuthOkIsOnRecord'
  BY <1>15, EntriesDiffer, CreditFacts DEF SaysHelloAgain, Becomes, Image, Mail
<1>16. ASSUME NEW m \in net, NEW rest \in SUBSET net, AnswersAgain(m, rest)
      PROVE  AuthOkIsOnRecord'
  <2>1. /\ m.a \in Addrs /\ dir[m.a] # HS!NoEntry
        /\ \A b \in Addrs : b # m.a => dir'[b] = dir[b]
        /\ dir'[m.a].h = dir[m.a].h /\ dir'[m.a].answer = dir[m.a].answer
        /\ dir'[m.a].sent = dir[m.a].sent /\ UNCHANGED <<cl, task, sentOk>>
    BY <1>16, EntriesDiffer, CreditFacts DEF AnswersAgain, Becomes, Image, Datagram
  <2>2. CASE net' = rest
    BY <2>1, <2>2
  <2>3. CASE dir[m.a].sent /\ Mail({IF dir[m.a].answer = "ok" THEN "authok" ELSE "autherr"},
                                   m.a, dir[m.a].h)
    <3>1. ASSUME NEW n \in net', n.t \in {"authok", "data"} PROVE <<n.a, n.h>> \in sentOk
      <4>1. CASE n \in net
        BY <3>1, <4>1
      <4>2. CASE n.t \in {IF dir[m.a].answer = "ok" THEN "authok" ELSE "autherr"}
                 /\ n.a = m.a /\ n.h = dir[m.a].h
        <5>1. dir[m.a].answer = "ok"
          BY <3>1, <4>2
        <5>2. <<m.a, dir[m.a].h>> \in sentOk
          BY <2>1, <2>3, <5>1
        <5> QED
          BY <4>2, <5>2
      <4> QED
        BY <2>3, <4>1, <4>2 DEF Mail
    <3> QED
      BY <2>1, <3>1
  <2> QED
    BY <1>16, <2>2, <2>3 DEF AnswersAgain
<1>17. ASSUME NEW m \in net, NEW rest \in SUBSET net, PassesOver(m, rest)
      PROVE  AuthOkIsOnRecord'
  BY <1>17, EntriesDiffer, CreditFacts DEF PassesOver, Becomes, Image
<1>18. ASSUME NEW m \in net, NEW rest \in SUBSET net, Decrypts(m, rest)
      PROVE  AuthOkIsOnRecord'
  BY <1>18, EntriesDiffer, CreditFacts DEF Decrypts, Becomes, Image
<1>19. ASSUME NEW a \in Addrs, HS!RemoveRevoked(a)
      PROVE  AuthOkIsOnRecord'
  BY <1>19, EntriesDiffer DEF HS!RemoveRevoked
<1>20. ASSUME NEW a \in Addrs, LeavesQuietly(a)
      PROVE  AuthOkIsOnRecord'
  BY <1>20, EntriesDiffer DEF LeavesQuietly
<1> HIDE DEF HandshakeInv, HandshakeConstants, HandshakeTypes, HS!HandshakesAreSound,
         AuthOkIsOnRecord, VerdictIsCached, HS!VerifierKeepsItsHandshake, HS!Known,
         HS!At, AdmittedOnce
<1> QED
  BY <1>1, <1>2, <1>3, <1>4, <1>5, <1>6, <1>7, <1>8, <1>9, <1>10, <1>11, <1>12, <1>13,
     <1>14, <1>15, <1>16, <1>17, <1>18, <1>19, <1>20, HandshakeSteps
  DEF HS!Next

\* Every step gives out handshake numbers in order.
LEMMA FreshStep ==
  ASSUME HandshakeConstants, HandshakeInv, HS!Next
  PROVE  NumbersAreFresh'
<1> USE DEF HandshakeInv, HandshakeConstants, HandshakeTypes, HS!HandshakesAreSound,
         NumbersAreFresh
<1>1. CASE ClientSide
  BY <1>1 DEF ClientSide, HS!server
<1>2. ASSUME NEW a \in Addrs, HS!AuthFails(a)
      PROVE  NumbersAreFresh'
  BY <1>2, EntriesDiffer, CreditFacts DEF HS!AuthFails, HS!NoTask
<1>3. ASSUME NEW a \in Addrs, NEW verdict \in {"ok", "error"}, Decides(a, verdict)
      PROVE  NumbersAreFresh'
  BY <1>3, EntriesDiffer, CreditFacts DEF Decides, Becomes, Image
<1>4. ASSUME NEW a \in Addrs, Sends(a)
      PROVE  NumbersAreFresh'
  BY <1>4, EntriesDiffer, CreditFacts DEF Sends, Mail
<1>5. ASSUME NEW a \in Addrs, Publishes(a)
      PROVE  NumbersAreFresh'
  BY <1>5, EntriesDiffer, CreditFacts DEF Publishes, Becomes, Image
<1>6. ASSUME NEW a \in Addrs, Ends(a)
      PROVE  NumbersAreFresh'
  <2>1. \A b \in Addrs : dir'[b] # HS!NoEntry => dir[b] # HS!NoEntry /\ dir'[b].h = dir[b].h
    BY <1>6 DEF Ends, Becomes, Image
  <2>2. \A b \in Addrs : task'[b].h = IF b = a THEN 0 ELSE task[b].h
    BY <1>6 DEF Ends, HS!NoTask
  <2> QED
    BY <1>6, <2>1, <2>2 DEF Ends
<1>7. ASSUME NEW a \in Addrs, Covers(a)
      PROVE  NumbersAreFresh'
  BY <1>7, EntriesDiffer, CreditFacts DEF Covers, Mail
<1>8. CASE Ages
  BY <1>8, EntriesDiffer, CreditFacts DEF Ages, Image
<1>9. ASSUME NEW a \in Addrs, HS!ForgetPartial(a)
      PROVE  NumbersAreFresh'
  BY <1>9 DEF HS!ForgetPartial
<1>10. CASE HS!Cleanup
  BY <1>10 DEF HS!Cleanup, HS!Expired, HS!Known
<1>11. ASSUME NEW m \in net, NEW rest \in SUBSET net, Holds(m, rest)
      PROVE  NumbersAreFresh'
  BY <1>11, EntriesDiffer, CreditFacts DEF Holds
<1>12. ASSUME NEW m \in net, NEW rest \in SUBSET net, Admits(m, rest)
      PROVE  NumbersAreFresh'
  <2>1. m.a \in Addrs /\ UNCHANGED <<task, sentOk>>
        /\ \A b \in Addrs : made'[b] = IF b = m.a THEN made[b] + 1 ELSE made[b]
    BY <1>12 DEF Admits, Datagram
  <2>2. /\ dir'[m.a].h = made[m.a] + 1
        /\ \A b \in Addrs : b # m.a => dir'[b] \in {dir[b], HS!NoEntry}
    BY <1>12 DEF Admits, Image
  <2>3. \A b \in Addrs : task[b].h \in Nat /\ made[b] \in Nat
    BY DEF HS!NoTask
  <2>4. \A b \in Addrs : dir'[b] # HS!NoEntry => dir'[b].h <= made'[b]
    BY <2>1, <2>2, <2>3
  <2> QED
    BY <2>1, <2>3, <2>4
<1>13. ASSUME NEW m \in net, NEW rest \in SUBSET net, TurnsAway(m, rest)
      PROVE  NumbersAreFresh'
  BY <1>13, EntriesDiffer, CreditFacts DEF TurnsAway
<1>14. ASSUME NEW m \in net, NEW rest \in SUBSET net, Forgets(m, rest)
      PROVE  NumbersAreFresh'
  BY <1>14 DEF Forgets
<1>15. ASSUME NEW m \in net, NEW rest \in SUBSET net, SaysHelloAgain(m, rest)
      PROVE  NumbersAreFresh'
  BY <1>15, EntriesDiffer, CreditFacts DEF SaysHelloAgain, Becomes, Image, Mail
<1>16. ASSUME NEW m \in net, NEW rest \in SUBSET net, AnswersAgain(m, rest)
      PROVE  NumbersAreFresh'
  BY <1>16, EntriesDiffer, CreditFacts DEF AnswersAgain, Becomes, Image, Mail
<1>17. ASSUME NEW m \in net, NEW rest \in SUBSET net, PassesOver(m, rest)
      PROVE  NumbersAreFresh'
  BY <1>17, EntriesDiffer, CreditFacts DEF PassesOver, Becomes, Image
<1>18. ASSUME NEW m \in net, NEW rest \in SUBSET net, Decrypts(m, rest)
      PROVE  NumbersAreFresh'
  BY <1>18, EntriesDiffer, CreditFacts DEF Decrypts, Becomes, Image, Datagram
<1>19. ASSUME NEW a \in Addrs, HS!RemoveRevoked(a)
      PROVE  NumbersAreFresh'
  BY <1>19, EntriesDiffer DEF HS!RemoveRevoked
<1>20. ASSUME NEW a \in Addrs, LeavesQuietly(a)
      PROVE  NumbersAreFresh'
  BY <1>20, EntriesDiffer DEF LeavesQuietly, HS!NoTask
<1> HIDE DEF HandshakeInv, HandshakeConstants, HandshakeTypes, HS!HandshakesAreSound,
         NumbersAreFresh
<1> QED
  BY <1>1, <1>2, <1>3, <1>4, <1>5, <1>6, <1>7, <1>8, <1>9, <1>10, <1>11, <1>12, <1>13,
     <1>14, <1>15, <1>16, <1>17, <1>18, <1>19, <1>20, HandshakeSteps
  DEF HS!Next

\* Every step leaves a session admitted once, and revoked after its answer.
LEMMA AdmittedStep ==
  ASSUME HandshakeConstants, HandshakeInv, HS!Next
  PROVE  AdmittedOnce'
<1> USE DEF HandshakeInv, HandshakeConstants, HandshakeTypes, HS!HandshakesAreSound,
         AdmittedOnce, NumbersAreFresh, VerdictIsCached, AuthOkIsOnRecord,
         HS!VerifierKeepsItsHandshake, HS!Known, HS!At
<1>1. CASE ClientSide
  BY <1>1 DEF ClientSide, HS!server
<1>2. ASSUME NEW a \in Addrs, HS!AuthFails(a)
      PROVE  AdmittedOnce'
  BY <1>2, EntriesDiffer, CreditFacts DEF HS!AuthFails, HS!At
<1>3. ASSUME NEW a \in Addrs, NEW verdict \in {"ok", "error"}, Decides(a, verdict)
      PROVE  AdmittedOnce'
  BY <1>3, EntriesDiffer, CreditFacts DEF Decides, Becomes, Image
<1>4. ASSUME NEW a \in Addrs, Sends(a)
      PROVE  AdmittedOnce'
  BY <1>4, EntriesDiffer, CreditFacts DEF Sends, Mail
<1>5. ASSUME NEW a \in Addrs, Publishes(a)
      PROVE  AdmittedOnce'
  BY <1>5, EntriesDiffer, CreditFacts DEF Publishes, Becomes, Image
<1>6. ASSUME NEW a \in Addrs, Ends(a)
      PROVE  AdmittedOnce'
  BY <1>6, EntriesDiffer, CreditFacts DEF Ends, Becomes, Image
<1>7. ASSUME NEW a \in Addrs, Covers(a)
      PROVE  AdmittedOnce'
  BY <1>7, EntriesDiffer, CreditFacts DEF Covers, Mail
<1>8. CASE Ages
  BY <1>8, EntriesDiffer, CreditFacts DEF Ages, Image
<1>9. ASSUME NEW a \in Addrs, HS!ForgetPartial(a)
      PROVE  AdmittedOnce'
  BY <1>9 DEF HS!ForgetPartial
<1>10. CASE HS!Cleanup
  BY <1>10 DEF HS!Cleanup, HS!Expired, HS!Known
<1>11. ASSUME NEW m \in net, NEW rest \in SUBSET net, Holds(m, rest)
      PROVE  AdmittedOnce'
  BY <1>11, EntriesDiffer, CreditFacts DEF Holds
<1>12. ASSUME NEW m \in net, NEW rest \in SUBSET net, Admits(m, rest)
      PROVE  AdmittedOnce'
  BY <1>12, EntriesDiffer, CreditFacts DEF Admits, Image, Mail
<1>13. ASSUME NEW m \in net, NEW rest \in SUBSET net, TurnsAway(m, rest)
      PROVE  AdmittedOnce'
  BY <1>13, EntriesDiffer, CreditFacts DEF TurnsAway
<1>14. ASSUME NEW m \in net, NEW rest \in SUBSET net, Forgets(m, rest)
      PROVE  AdmittedOnce'
  BY <1>14 DEF Forgets
<1>15. ASSUME NEW m \in net, NEW rest \in SUBSET net, SaysHelloAgain(m, rest)
      PROVE  AdmittedOnce'
  BY <1>15, EntriesDiffer, CreditFacts DEF SaysHelloAgain, Becomes, Image, Mail
<1>16. ASSUME NEW m \in net, NEW rest \in SUBSET net, AnswersAgain(m, rest)
      PROVE  AdmittedOnce'
  BY <1>16, EntriesDiffer, CreditFacts DEF AnswersAgain, Becomes, Image, Mail
<1>17. ASSUME NEW m \in net, NEW rest \in SUBSET net, PassesOver(m, rest)
      PROVE  AdmittedOnce'
  BY <1>17, EntriesDiffer, CreditFacts DEF PassesOver, Becomes, Image
<1>18. ASSUME NEW m \in net, NEW rest \in SUBSET net, Decrypts(m, rest)
      PROVE  AdmittedOnce'
  BY <1>18, EntriesDiffer, CreditFacts DEF Decrypts, Becomes, Image, Datagram
<1>19. ASSUME NEW a \in Addrs, HS!RemoveRevoked(a)
      PROVE  AdmittedOnce'
  BY <1>19, EntriesDiffer DEF HS!RemoveRevoked
<1>20. ASSUME NEW a \in Addrs, LeavesQuietly(a)
      PROVE  AdmittedOnce'
  BY <1>20, EntriesDiffer DEF LeavesQuietly
<1> HIDE DEF HandshakeInv, HandshakeConstants, HandshakeTypes, HS!HandshakesAreSound,
         AdmittedOnce, NumbersAreFresh, VerdictIsCached, AuthOkIsOnRecord,
         HS!VerifierKeepsItsHandshake, HS!Known, HS!At
<1> QED
  BY <1>1, <1>2, <1>3, <1>4, <1>5, <1>6, <1>7, <1>8, <1>9, <1>10, <1>11, <1>12, <1>13,
     <1>14, <1>15, <1>16, <1>17, <1>18, <1>19, <1>20, HandshakeSteps
  DEF HS!Next

\* Only the admission of a source adds a half-open entry.
LEMMA HalfOpenShrinks ==
  ASSUME HandshakeConstants, HandshakeInv, HS!Next
  PROVE  \/ HS!HalfOpen' \subseteq HS!HalfOpen
         \/ \E n \in net, left \in SUBSET net : Admits(n, left)
<1> USE DEF HandshakeInv, HandshakeConstants, HandshakeTypes, HS!HandshakesAreSound,
         HS!HalfOpen, HS!Known
<1>1. CASE ClientSide
  BY <1>1 DEF ClientSide, HS!server
<1>2. ASSUME NEW a \in Addrs, HS!AuthFails(a)
      PROVE  \/ HS!HalfOpen' \subseteq HS!HalfOpen
         \/ \E n \in net, left \in SUBSET net : Admits(n, left)
  BY <1>2, EntriesDiffer, CreditFacts DEF HS!AuthFails, HS!At
<1>3. ASSUME NEW a \in Addrs, NEW verdict \in {"ok", "error"}, Decides(a, verdict)
      PROVE  \/ HS!HalfOpen' \subseteq HS!HalfOpen
         \/ \E n \in net, left \in SUBSET net : Admits(n, left)
  BY <1>3, EntriesDiffer, CreditFacts DEF Decides, Becomes, Image
<1>4. ASSUME NEW a \in Addrs, Sends(a)
      PROVE  \/ HS!HalfOpen' \subseteq HS!HalfOpen
         \/ \E n \in net, left \in SUBSET net : Admits(n, left)
  BY <1>4, EntriesDiffer, CreditFacts DEF Sends, Mail
<1>5. ASSUME NEW a \in Addrs, Publishes(a)
      PROVE  \/ HS!HalfOpen' \subseteq HS!HalfOpen
         \/ \E n \in net, left \in SUBSET net : Admits(n, left)
  BY <1>5, EntriesDiffer, CreditFacts DEF Publishes, Becomes, Image
<1>6. ASSUME NEW a \in Addrs, Ends(a)
      PROVE  \/ HS!HalfOpen' \subseteq HS!HalfOpen
         \/ \E n \in net, left \in SUBSET net : Admits(n, left)
  BY <1>6, EntriesDiffer, CreditFacts DEF Ends, Becomes, Image
<1>7. ASSUME NEW a \in Addrs, Covers(a)
      PROVE  \/ HS!HalfOpen' \subseteq HS!HalfOpen
         \/ \E n \in net, left \in SUBSET net : Admits(n, left)
  BY <1>7, EntriesDiffer, CreditFacts DEF Covers, Mail
<1>8. CASE Ages
  BY <1>8, EntriesDiffer, CreditFacts DEF Ages, Image
<1>9. ASSUME NEW a \in Addrs, HS!ForgetPartial(a)
      PROVE  \/ HS!HalfOpen' \subseteq HS!HalfOpen
         \/ \E n \in net, left \in SUBSET net : Admits(n, left)
  BY <1>9 DEF HS!ForgetPartial
<1>10. CASE HS!Cleanup
  BY <1>10 DEF HS!Cleanup, HS!Expired, HS!Known
<1>11. ASSUME NEW m \in net, NEW rest \in SUBSET net, Holds(m, rest)
      PROVE  \/ HS!HalfOpen' \subseteq HS!HalfOpen
         \/ \E n \in net, left \in SUBSET net : Admits(n, left)
  BY <1>11, EntriesDiffer, CreditFacts DEF Holds
<1>12. ASSUME NEW m \in net, NEW rest \in SUBSET net, Admits(m, rest)
      PROVE  \/ HS!HalfOpen' \subseteq HS!HalfOpen
         \/ \E n \in net, left \in SUBSET net : Admits(n, left)
  BY <1>12, EntriesDiffer, CreditFacts DEF Admits, Image, Mail
<1>13. ASSUME NEW m \in net, NEW rest \in SUBSET net, TurnsAway(m, rest)
      PROVE  \/ HS!HalfOpen' \subseteq HS!HalfOpen
         \/ \E n \in net, left \in SUBSET net : Admits(n, left)
  BY <1>13, EntriesDiffer, CreditFacts DEF TurnsAway
<1>14. ASSUME NEW m \in net, NEW rest \in SUBSET net, Forgets(m, rest)
      PROVE  \/ HS!HalfOpen' \subseteq HS!HalfOpen
         \/ \E n \in net, left \in SUBSET net : Admits(n, left)
  BY <1>14 DEF Forgets
<1>15. ASSUME NEW m \in net, NEW rest \in SUBSET net, SaysHelloAgain(m, rest)
      PROVE  \/ HS!HalfOpen' \subseteq HS!HalfOpen
         \/ \E n \in net, left \in SUBSET net : Admits(n, left)
  BY <1>15, EntriesDiffer, CreditFacts DEF SaysHelloAgain, Becomes, Image, Mail
<1>16. ASSUME NEW m \in net, NEW rest \in SUBSET net, AnswersAgain(m, rest)
      PROVE  \/ HS!HalfOpen' \subseteq HS!HalfOpen
         \/ \E n \in net, left \in SUBSET net : Admits(n, left)
  BY <1>16, EntriesDiffer, CreditFacts DEF AnswersAgain, Becomes, Image, Mail
<1>17. ASSUME NEW m \in net, NEW rest \in SUBSET net, PassesOver(m, rest)
      PROVE  \/ HS!HalfOpen' \subseteq HS!HalfOpen
         \/ \E n \in net, left \in SUBSET net : Admits(n, left)
  BY <1>17, EntriesDiffer, CreditFacts DEF PassesOver, Becomes, Image
<1>18. ASSUME NEW m \in net, NEW rest \in SUBSET net, Decrypts(m, rest)
      PROVE  \/ HS!HalfOpen' \subseteq HS!HalfOpen
         \/ \E n \in net, left \in SUBSET net : Admits(n, left)
  BY <1>18, EntriesDiffer, CreditFacts DEF Decrypts, Becomes, Image
<1>19. ASSUME NEW a \in Addrs, HS!RemoveRevoked(a)
      PROVE  \/ HS!HalfOpen' \subseteq HS!HalfOpen
         \/ \E n \in net, left \in SUBSET net : Admits(n, left)
  BY <1>19, EntriesDiffer DEF HS!RemoveRevoked
<1>20. ASSUME NEW a \in Addrs, LeavesQuietly(a)
      PROVE  \/ HS!HalfOpen' \subseteq HS!HalfOpen
         \/ \E n \in net, left \in SUBSET net : Admits(n, left)
  BY <1>20, EntriesDiffer DEF LeavesQuietly
<1> HIDE DEF HandshakeInv, HandshakeConstants, HandshakeTypes, HS!HandshakesAreSound,
         HS!HalfOpen, HS!Known
<1> QED
  BY <1>1, <1>2, <1>3, <1>4, <1>5, <1>6, <1>7, <1>8, <1>9, <1>10, <1>11, <1>12, <1>13,
     <1>14, <1>15, <1>16, <1>17, <1>18, <1>19, <1>20, HandshakeSteps
  DEF HS!Next

\* The cardinality the instance speaks of is the library's.
LEMMA HandshakeCardinality ==
  ASSUME NEW S
  PROVE  HS!Cardinality(S) = Cardinality(S)
BY DEF HS!Cardinality, Cardinality

\* And at the cap it takes the place of another: half-open entries stay within it.
LEMMA HalfOpenStep ==
  ASSUME HandshakeConstants, HandshakeInv, HS!Next
  PROVE  HS!HalfOpenIsBounded'
<1>1. IsFiniteSet(Addrs) /\ Cap \in Nat
  BY DEF HandshakeConstants
<1>2. HS!HalfOpen \subseteq Addrs /\ HS!HalfOpen' \subseteq Addrs
  BY DEF HS!HalfOpen
<1>3. IsFiniteSet(HS!HalfOpen) /\ IsFiniteSet(HS!HalfOpen')
  BY <1>1, <1>2, FS_Subset
<1>4. Cardinality(HS!HalfOpen) \in Nat /\ Cardinality(HS!HalfOpen') \in Nat
  BY <1>3, FS_CardinalityType
<1>5. Cardinality(HS!HalfOpen) <= Cap
  BY HandshakeCardinality DEF HandshakeInv, HS!HandshakesAreSound, HS!HalfOpenIsBounded
<1>6. SUFFICES Cardinality(HS!HalfOpen') <= Cap
  <2>1. HS!Cardinality(HS!HalfOpen)' = Cardinality(HS!HalfOpen')
    BY HandshakeCardinality
  <2> QED
    BY <1>6, <2>1 DEF HS!HalfOpenIsBounded
<1>7. CASE HS!HalfOpen' \subseteq HS!HalfOpen
  <2>1. Cardinality(HS!HalfOpen') <= Cardinality(HS!HalfOpen)
    BY <1>3, <1>7, FS_Subset
  <2> QED
    BY <1>1, <1>4, <1>5, <2>1
<1>8. ASSUME NEW m \in net, NEW rest \in SUBSET net, Admits(m, rest)
      PROVE  Cardinality(HS!HalfOpen') <= Cap
  <2>1. m.a \in Addrs
    BY DEF HandshakeInv, HandshakeTypes, Datagram
  <2>2. PICK victim \in Addrs :
          /\ \/ victim = m.a /\ HS!Cardinality(HS!HalfOpen) < Cap
             \/ /\ dir[victim] # HS!NoEntry /\ dir[victim].state = "awaiting"
                /\ ~dir[victim].active
          /\ \A b \in Addrs : b # m.a => dir'[b] = IF b = victim THEN HS!NoEntry ELSE dir[b]
    BY <1>8, EntriesDiffer, CreditFacts DEF Admits
  <2>3. CASE victim = m.a /\ HS!Cardinality(HS!HalfOpen) < Cap
    <3>1. HS!HalfOpen' \subseteq HS!HalfOpen \cup {m.a}
      BY <2>2, <2>3 DEF HS!HalfOpen, HS!Known
    <3>2. /\ IsFiniteSet(HS!HalfOpen \cup {m.a})
          /\ Cardinality(HS!HalfOpen \cup {m.a}) <= Cardinality(HS!HalfOpen) + 1
      BY <1>3, <1>4, FS_AddElement
    <3>3. Cardinality(HS!HalfOpen') <= Cardinality(HS!HalfOpen \cup {m.a})
          /\ Cardinality(HS!HalfOpen \cup {m.a}) \in Nat
      BY <3>1, <3>2, FS_Subset, FS_CardinalityType
    <3>4. Cardinality(HS!HalfOpen) < Cap
      BY <2>3, HandshakeCardinality
    <3> QED
      BY <1>1, <1>4, <3>2, <3>3, <3>4
  <2>4. CASE dir[victim] # HS!NoEntry /\ dir[victim].state = "awaiting" /\ ~dir[victim].active
    <3> DEFINE Left == HS!HalfOpen \ {victim}
    <3>1. victim \in HS!HalfOpen
      BY <2>4 DEF HS!HalfOpen, HS!Known
    <3>2. IsFiniteSet(Left) /\ Cardinality(Left) = Cardinality(HS!HalfOpen) - 1
          /\ Cardinality(Left) \in Nat
      <4>1. IsFiniteSet(Left) /\ Cardinality(Left) = Cardinality(HS!HalfOpen) - 1
        BY <1>3, <3>1, FS_RemoveElement
      <4> QED
        BY <4>1, FS_CardinalityType
    <3>3. HS!HalfOpen' \subseteq Left \cup {m.a}
      BY <2>2, <2>4 DEF HS!HalfOpen, HS!Known
    <3> HIDE DEF Left
    <3>4. /\ IsFiniteSet(Left \cup {m.a})
          /\ Cardinality(Left \cup {m.a}) <= Cardinality(Left) + 1
      <4>1. /\ IsFiniteSet(Left \cup {m.a})
            /\ Cardinality(Left \cup {m.a})
                 = IF m.a \in Left THEN Cardinality(Left) ELSE Cardinality(Left) + 1
        BY <3>2, FS_AddElement
      <4> QED
        BY <3>2, <4>1
    <3>5. Cardinality(HS!HalfOpen') <= Cardinality(Left \cup {m.a})
          /\ Cardinality(Left \cup {m.a}) \in Nat
      BY <3>3, <3>4, FS_Subset, FS_CardinalityType
    <3> QED
      BY <1>1, <1>4, <1>5, <3>2, <3>4, <3>5
  <2> QED
    BY <2>2, <2>3, <2>4
<1> QED
  BY <1>7, <1>8, HalfOpenShrinks

\* At the start no source is known.
LEMMA HandshakeStarts ==
  ASSUME HandshakeConstants, HS!Init
  PROVE  HandshakeInv
<1>1. /\ dir \in [Addrs -> HalfOpenEntry \cup {HS!NoEntry}]
      /\ task \in [Addrs -> [h : Nat \ {0}, at : {"verify", "answered", "sent", "done"}]
                              \cup {HS!NoTask}]
      /\ part \in [Addrs -> SUBSET HS!Frags] /\ made \in [Addrs -> Nat]
      /\ credit \in [Addrs -> Int] /\ net \subseteq Datagram
  BY DEF HS!Init
<1>2. cl \in [Addrs -> Client] /\ \A a \in Addrs : cl[a].phase = "hello"
  BY DEF HS!Init, Client
<1>3. HS!HalfOpenIsBounded
  <2>1. HS!HalfOpen = {}
    BY DEF HS!HalfOpen, HS!Known, HS!Init
  <2>2. Cardinality(HS!HalfOpen) = 0
    BY <2>1, FS_EmptySet
  <2> QED
    BY <2>2, HandshakeCardinality DEF HandshakeConstants, HS!HalfOpenIsBounded
<1>4. HS!VerifierKeepsItsHandshake /\ HS!ReflectionIsBounded /\ HS!NothingPrecedesAuthOk
      /\ NumbersAreFresh /\ AdmittedOnce
  BY DEF HS!Init, HS!VerifierKeepsItsHandshake, HS!ReflectionIsBounded, HS!NothingPrecedesAuthOk,
         NumbersAreFresh, AdmittedOnce, HS!NoTask
<1>5. PartialsAreEarned /\ BudgetIsEarned /\ VerdictIsCached /\ AuthOkIsOnRecord
  BY <1>2 DEF HS!Init, PartialsAreEarned, BudgetIsEarned, VerdictIsCached, AuthOkIsOnRecord
<1> QED
  BY <1>1, <1>2, <1>3, <1>4, <1>5 DEF HandshakeInv, HandshakeTypes, HS!HandshakesAreSound

\* Nothing changes while nobody steps.
LEMMA HandshakeStutters ==
  ASSUME HandshakeInv, UNCHANGED HS!vars
  PROVE  HandshakeInv'
BY DEF HandshakeInv, HandshakeTypes, HS!HandshakesAreSound, PartialsAreEarned, BudgetIsEarned,
       VerdictIsCached, AuthOkIsOnRecord, HS!VerifierKeepsItsHandshake, HS!ReflectionIsBounded,
       HS!HalfOpenIsBounded, HS!NothingPrecedesAuthOk, HS!HalfOpen, HS!Known, HS!vars,
       NumbersAreFresh, AdmittedOnce, HS!At

\* The inductive step.
LEMMA HandshakeStep ==
  ASSUME HandshakeConstants, HandshakeInv, [HS!Next]_HS!vars
  PROVE  HandshakeInv'
<1>1. ASSUME HS!Next PROVE HandshakeInv'
  BY <1>1, HandshakeTypesStep, VerifierStep, ReflectionStep, CoverStep, PartialsStep,
     BudgetStep, VerdictStep, OnRecordStep, HalfOpenStep, FreshStep, AdmittedStep
     DEF HandshakeInv, HS!HandshakesAreSound
<1> QED
  BY <1>1, HandshakeStutters

\* However datagrams are lost, repeated and reordered, and AUTH tasks, evictions,
\* kicks, superseding AUTHs and cleanups interleave: an AUTH task keeps the entry it
\* verifies until its answer is published and its lease for as long as that entry is
\* there, a source that has not proved its address is sent at most three times what came
\* from it, half-open entries stay within MAX_PENDING_HANDSHAKES, and no traffic of a
\* session precedes its AuthOK (udp_handler.rs), for any number of sources and any cap.
THEOREM SoundHandshakes ==
  ASSUME HandshakeConstants
  PROVE  HS!Spec => []HS!HandshakesAreSound
<1>1. HS!Init => HandshakeInv
  BY HandshakeStarts
<1>2. HandshakeInv /\ [HS!Next]_HS!vars => HandshakeInv'
  BY HandshakeStep
<1>3. HandshakeInv => HS!HandshakesAreSound
  BY DEF HandshakeInv
<1> QED
  BY <1>1, <1>2, <1>3, PTL DEF HS!Spec
=============================================================================
