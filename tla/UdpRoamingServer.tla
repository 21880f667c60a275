--------------------------- MODULE UdpRoamingServer ---------------------------
(***************************************************************************)
(* The server side of UDP roaming: the profile-wide registry of sessions   *)
(* and connection ids (transport_core/udp_roaming.rs) together with one     *)
(* worker's session directory and its roaming ingress                       *)
(* (server/udp_handler.rs).                                                 *)
(*                                                                         *)
(* The two live behind different locks.  A datagram is routed by looking    *)
(* its connection id up in the registry, waits in the owner worker's        *)
(* mailbox, is dispatched against the directory, and a PATH_INIT goes back  *)
(* to the registry and once more to the directory before the challenge is   *)
(* sent; between any two of these steps the entry may be revoked, reaped or *)
(* superseded, its session id registered again, or the candidate expire.    *)
(*                                                                         *)
(* Sending can fail and admission can be rate limited: both leave the state *)
(* as if the datagram had been lost, so no action of their own stands for   *)
(* them.  A connection id is derived from the secrets of one handshake,     *)
(* the session id and the epoch; one handshake is one generation here.      *)
(***************************************************************************)
EXTENDS Integers, FiniteSets

CONSTANTS
    Addresses,        \* source addresses of clients
    Sids,             \* session ids
    MaxGeneration,    \* registrations that are explored
    MaxEpoch,         \* path epochs that are explored
    MaxTicket,        \* candidate ids that are explored
    MaxCandidates,    \* MAX_UDP_ROAMING_CANDIDATES_PER_PROFILE
    Mailbox,          \* capacity of the worker's ingress mailbox
    Cid               \* derive_udp_cid: generation and epoch to a connection id

VARIABLES
    sessions,   \* UdpRoamingTable::sessions, by session id
    index,      \* UdpRoamingTable::cid_index
    nextGen,    \* next_session_generation
    nextTicket, \* next_candidate_id
    count,      \* candidate_count
    totals,     \* attempts_total, commits_total, failures_total
    dir,        \* UdpSessionDirectory::by_address
    owners,     \* UdpSessionDirectory::roaming_owners
    held,       \* the registration an AUTH task holds before it attaches it
    mailbox,    \* routed datagrams, each with the lookup made when it was routed
    hand,       \* the datagram the worker is handling, and how far it has come
    challenges  \* every PATH_CHALLENGE that was sent

registry == <<sessions, index, nextGen, nextTicket, count, totals>>
directory == <<dir, owners>>
vars == <<registry, directory, held, mailbox, hand, challenges>>

NoCandidate == [id |-> 0]
NoSession == [gen |-> 0, cand |-> NoCandidate]
NoEntry == [kind |-> "none"]
NoOwner == [gen |-> 0]
Idle == [pc |-> "idle"]
HalfOpen == [kind |-> "open"]
Unregistered == [gen |-> 0]
Refused == [gen |-> 0, refused |-> TRUE]

Live(s) == sessions[s] # NoSession
Aliases(e) == {n \in {e - 1, e, e + 1} : n >= 0}
Owner(s, g, e) == [sid |-> s, gen |-> g, epoch |-> e]

Init ==
    /\ sessions = [s \in Sids |-> NoSession]
    /\ index = <<>>
    /\ nextGen = 1 /\ nextTicket = 1 /\ count = 0
    /\ totals = [attempts |-> 0, commits |-> 0, failures |-> 0]
    /\ dir = [a \in Addresses |-> NoEntry]
    /\ owners = [s \in Sids |-> NoOwner]
    /\ held = [a \in Addresses |-> Unregistered]
    /\ mailbox = {}
    /\ hand = Idle
    /\ challenges = {}

------------------------------------------------------------------------------
(* The registry.                                                           *)

\* ensure_aliases_available: a connection id of these epochs that someone else
\* owns refuses the whole set.
Available(s, g, e) ==
    /\ \A m, n \in Aliases(e) : Cid[g, m] = Cid[g, n] => m = n
    /\ \A n \in Aliases(e) :
          Cid[g, n] \in DOMAIN index => index[Cid[g, n]] = Owner(s, g, n)

\* The index once the session's aliases are those of epoch e and of nothing
\* else.
Reindexed(s, g, e) ==
    LET fresh == {Cid[g, n] : n \in Aliases(e)}
        kept == {c \in DOMAIN index : index[c].sid # s \/ index[c].gen # g}
    IN  [c \in fresh \cup kept |->
            IF c \in fresh THEN Owner(s, g, CHOOSE n \in Aliases(e) : Cid[g, n] = c)
            ELSE index[c]]

Unindexed(s, g) ==
    [c \in {d \in DOMAIN index : index[d].sid # s \/ index[d].gen # g} |-> index[c]]

HasCandidate(s) == Live(s) /\ sessions[s].cand # NoCandidate
Failed(n) == [totals EXCEPT !.failures = @ + n]

\* Dropping a registration removes the session of its own generation only.
DropRegistration(s, g) ==
    IF Live(s) /\ sessions[s].gen = g
    THEN /\ sessions' = [sessions EXCEPT ![s] = NoSession]
         /\ index' = Unindexed(s, g)
         /\ count' = count - (IF HasCandidate(s) THEN 1 ELSE 0)
         /\ totals' = Failed(IF HasCandidate(s) THEN 1 ELSE 0)
         /\ UNCHANGED <<nextGen, nextTicket>>
    ELSE UNCHANGED registry

\* The candidate of session s as every operation on it sees it: one whose
\* lifetime has elapsed is removed first.
Expired(s) == HasCandidate(s) /\ sessions[s].cand.old
Swept(S) == [s \in Sids |-> IF s \in S THEN [sessions[s] EXCEPT !.cand = NoCandidate]
                            ELSE sessions[s]]
Overdue == {s \in Sids : Expired(s)}

\* expire_candidates, from the cleanup tick of any worker.
ExpireCandidates ==
    /\ Overdue # {}
    /\ sessions' = Swept(Overdue)
    /\ count' = count - Cardinality(Overdue)
    /\ totals' = Failed(Cardinality(Overdue))
    /\ UNCHANGED <<index, nextGen, nextTicket, directory, held, mailbox, hand, challenges>>

\* The lifetime of a candidate elapses; nothing refreshes it.
LifetimeElapses(s) ==
    /\ HasCandidate(s) /\ ~sessions[s].cand.old
    /\ sessions' = [sessions EXCEPT ![s].cand.old = TRUE]
    /\ UNCHANGED <<index, nextGen, nextTicket, count, totals, directory, held, mailbox,
                   hand, challenges>>

------------------------------------------------------------------------------
(* Authentication and removal of directory entries.                        *)

Handshake(a) ==
    /\ dir[a] = NoEntry /\ held[a] = Unregistered
    /\ dir' = [dir EXCEPT ![a] = HalfOpen]
    /\ UNCHANGED <<registry, owners, held, mailbox, hand, challenges>>

\* register_session, under the directory lock of the AUTH task.
Register(a, s) ==
    /\ dir[a] = HalfOpen /\ held[a] = Unregistered
    /\ nextGen <= MaxGeneration
    /\ nextGen' = nextGen + (IF Live(s) THEN 0 ELSE 1)
    /\ IF ~Live(s) /\ Available(s, nextGen, 0)
       THEN /\ sessions' = [sessions EXCEPT ![s] =
                   [gen |-> nextGen, epoch |-> 0, path |-> a, cand |-> NoCandidate,
                    last |-> NoCandidate]]
            /\ index' = Reindexed(s, nextGen, 0)
            /\ held' = [held EXCEPT ![a] = [gen |-> nextGen, sid |-> s]]
       ELSE /\ held' = [held EXCEPT ![a] = Refused]
            /\ UNCHANGED <<sessions, index>>
    /\ UNCHANGED <<nextTicket, count, totals, directory, mailbox, hand, challenges>>

\* The entry leaves the directory: its owner is forgotten if it still names
\* this entry, and its registration is dropped.
Forgotten(a, e) ==
    IF e.kind = "session" /\ owners[e.sid] = [gen |-> e.gen, address |-> a]
    THEN [owners EXCEPT ![e.sid] = NoOwner]
    ELSE owners

Removed(a) ==
    /\ dir' = [dir EXCEPT ![a] = NoEntry]
    /\ owners' = Forgotten(a, dir[a])
    /\ IF dir[a].kind = "session" THEN DropRegistration(dir[a].sid, dir[a].gen)
       ELSE UNCHANGED registry

\* A refused bootstrap removes the entry at its address.
RefuseBootstrap(a) ==
    /\ held[a] = Refused
    /\ held' = [held EXCEPT ![a] = Unregistered]
    /\ Removed(a)
    /\ UNCHANGED <<mailbox, hand, challenges>>

\* The AUTH task attaches its registration to the entry, with the egress of the
\* handshake's path; an entry that vanished, which its lease rules out, drops the
\* registration instead.
Attach(a) ==
    /\ held[a].gen # 0
    /\ held' = [held EXCEPT ![a] = Unregistered]
    /\ IF dir[a] = NoEntry
       THEN DropRegistration(held[a].sid, held[a].gen) /\ UNCHANGED dir
       ELSE /\ dir' = [dir EXCEPT ![a] = [kind |-> "session", sid |-> held[a].sid,
                          gen |-> held[a].gen, auth |-> FALSE, epoch |-> 0, peer |-> a,
                          ticket |-> NoCandidate]]
            /\ UNCHANGED registry
    /\ UNCHANGED <<owners, mailbox, hand, challenges>>

\* AuthOK: the entry becomes routable by session id.  The code publishes the owner before
\* it marks the answer as sent; a datagram that is routed in between fails the mark's
\* check and counts as lost.
AuthOk(a) ==
    /\ dir[a].kind = "session" /\ ~dir[a].auth
    /\ dir' = [dir EXCEPT ![a].auth = TRUE]
    /\ owners' = [owners EXCEPT ![dir[a].sid] = [gen |-> dir[a].gen, address |-> a]]
    /\ UNCHANGED <<registry, held, mailbox, hand, challenges>>

\* UdpAuthLease: an entry whose AUTH task is at work is neither reaped nor evicted.
Leased(a) == held[a] # Unregistered

\* An entry is revoked, reaped, superseded or limited away.
RemoveEntry(a) ==
    /\ dir[a] # NoEntry /\ ~Leased(a)
    /\ Removed(a)
    /\ UNCHANGED <<held, mailbox, hand, challenges>>

------------------------------------------------------------------------------
(* Ingress.                                                                *)

\* The token of a PATH_RESPONSE is one the client was challenged with.
Tokens(g) == {c.token : c \in {d \in challenges : d.gen = g}}

\* route_ingress: the lookup is made now and used when the owner gets to it.
Route(g, e, a) ==
    /\ Cardinality(mailbox) < Mailbox
    /\ Cid[g, e] \in DOMAIN index
    /\ \E m \in [kind : {"init"}, token : {0}] \cup [kind : {"response"}, token : Tokens(g)] :
          mailbox' = mailbox \cup
            {[m |-> m, from |-> a, sent |-> g, at |-> index[Cid[g, e]]]}
    /\ UNCHANGED <<registry, directory, held, hand, challenges>>

\* resolve_roaming_owner: an address, or none when the lookup is stale.
OwnerOf(at) ==
    {a \in Addresses :
        /\ owners[at.sid] = [gen |-> at.gen, address |-> a]
        /\ dir[a].kind = "session" /\ dir[a].sid = at.sid /\ dir[a].gen = at.gen}

\* classify_roaming_ingress for a control: the committed path at its own epoch,
\* or the next epoch from anywhere.
Classified(e, at, from) ==
    \/ at.epoch = e.epoch /\ from = e.peer
    \/ at.epoch = e.epoch + 1

\* The entry that takes the datagram.  A record that was encrypted for another
\* session fails to decrypt.
Takers(d) ==
    {a \in OwnerOf(d.at) : /\ dir[a].auth /\ d.sent = d.at.gen
                           /\ Classified(dir[a], d.at, d.from)}

\* handle_udp_roaming_ingress up to the decrypted control.
Dispatch ==
    /\ hand = Idle
    /\ \E d \in mailbox :
          /\ mailbox' = mailbox \ {d}
          /\ \/ \E a \in Takers(d) :
                   hand' = [pc |-> d.m.kind, d |-> d, owner |-> a, ticket |-> NoCandidate]
             \/ Takers(d) = {} /\ hand' = Idle
    /\ UNCHANGED <<registry, directory, held, challenges>>

Ticket(s) == [id |-> sessions[s].cand.id, gen |-> sessions[s].gen, sid |-> s]

\* observe_authenticated_candidate of a PATH_INIT.
Acceptable(at, from) ==
    /\ Live(at.sid) /\ sessions[at.sid].gen = at.gen
    /\ at.epoch = sessions[at.sid].epoch + 1
    /\ from # sessions[at.sid].path

\* What is left of the table after the expiry that precedes the checks: the
\* session's own candidate, or every overdue one when the table is full.
BugFirstSwept(at) == {at.sid} \cap Overdue

FirstSwept(at) ==
    LET own == {at.sid} \cap Overdue
        needsSlot == Acceptable(at, hand.d.from) /\ (~HasCandidate(at.sid) \/ Expired(at.sid))
    IN  IF needsSlot /\ count - Cardinality(own) >= MaxCandidates THEN Overdue ELSE own

Observe ==
    /\ hand.pc = "init"
    /\ LET at == hand.d.at
           from == hand.d.from
           swept == FirstSwept(at)
           table == Swept(swept)
           left == count - Cardinality(swept)
           cand == table[at.sid].cand
       IN  \/ \* The same candidate asks again.
              /\ Acceptable(at, from)
              /\ cand # NoCandidate /\ cand.path = from
              /\ sessions' = table /\ count' = left /\ totals' = Failed(Cardinality(swept))
              /\ hand' = [hand EXCEPT !.pc = "publish", !.ticket =
                            [id |-> cand.id, gen |-> at.gen, sid |-> at.sid]]
              /\ UNCHANGED nextTicket
           \/ \* A new candidate takes a slot.
              /\ Acceptable(at, from)
              /\ cand = NoCandidate /\ left < MaxCandidates /\ nextTicket <= MaxTicket
              /\ sessions' = [table EXCEPT ![at.sid].cand =
                    [id |-> nextTicket, path |-> from, epoch |-> at.epoch, old |-> FALSE]]
              /\ count' = left + 1
              /\ nextTicket' = nextTicket + 1
              /\ totals' = [Failed(Cardinality(swept)) EXCEPT !.attempts = @ + 1]
              /\ hand' = [hand EXCEPT !.pc = "publish", !.ticket =
                            [id |-> nextTicket, gen |-> at.gen, sid |-> at.sid]]
           \/ \* Stale session or epoch, another candidate, or no slot.
              /\ \/ ~Acceptable(at, from)
                 \/ cand # NoCandidate /\ cand.path # from
                 \/ cand = NoCandidate /\ left >= MaxCandidates
              /\ sessions' = table /\ count' = left /\ totals' = Failed(Cardinality(swept))
              /\ hand' = Idle
              /\ UNCHANGED nextTicket
    /\ UNCHANGED <<index, nextGen, directory, held, mailbox, challenges>>

Matches(a, at) == dir[a].kind = "session" /\ dir[a].sid = at.sid /\ dir[a].gen = at.gen

\* abort_candidate of exactly this ticket.
AbortCandidate(t) ==
    IF HasCandidate(t.sid) /\ Ticket(t.sid) = t
    THEN /\ sessions' = Swept({t.sid})
         /\ count' = count - 1
         /\ totals' = Failed(1)
         /\ UNCHANGED <<index, nextGen, nextTicket>>
    ELSE UNCHANGED registry

\* Back under the directory lock: the entry learns the ticket, or the candidate
\* is aborted because the entry is gone.
PublishTicket ==
    /\ hand.pc = "publish"
    /\ IF Matches(hand.owner, hand.d.at)
       THEN /\ dir' = [dir EXCEPT ![hand.owner].ticket = hand.ticket]
            /\ hand' = [hand EXCEPT !.pc = "challenge"]
            /\ UNCHANGED registry
       ELSE AbortCandidate(hand.ticket) /\ hand' = Idle /\ UNCHANGED dir
    /\ UNCHANGED <<owners, held, mailbox, challenges>>

\* authorize_candidate_send, then the challenge; without a candidate any more
\* the entry forgets the ticket.  (The abort of a challenge that cannot be encrypted is
\* left out.)
SendChallenge ==
    /\ hand.pc = "challenge"
    /\ hand' = Idle
    /\ LET t == hand.ticket
           table == Swept({t.sid} \cap Overdue)
           valid == HasCandidate(t.sid) /\ ~Expired(t.sid) /\ Ticket(t.sid) = t
       IN  /\ sessions' = table
           /\ count' = count - Cardinality({t.sid} \cap Overdue)
           /\ totals' = Failed(Cardinality({t.sid} \cap Overdue))
           /\ IF valid
              THEN /\ challenges' = challenges \cup
                        {[gen |-> t.gen, epoch |-> hand.d.at.epoch, path |-> hand.d.from,
                          token |-> t.id]}
                   /\ UNCHANGED dir
              ELSE /\ dir' = IF dir[hand.owner].kind = "session"
                                /\ dir[hand.owner].ticket = t
                             THEN [dir EXCEPT ![hand.owner].ticket = NoCandidate]
                             ELSE dir
                   /\ UNCHANGED challenges
    /\ UNCHANGED <<index, nextGen, nextTicket, owners, held, mailbox>>

\* The response proves the candidate: its ticket, its path and its token.
Proves(s, t, from, token) ==
    /\ HasCandidate(s) /\ ~Expired(s) /\ Ticket(s) = t
    /\ sessions[s].cand.path = from
    /\ sessions[s].cand.id = token

\* An exact retry of the response that was committed last.
Replays(s, t, from, token) ==
    /\ Live(s) /\ sessions[s].gen = t.gen
    /\ sessions[s].last # NoCandidate
    /\ sessions[s].last.id = t.id /\ sessions[s].last.path = from /\ t.id = token

\* The entry moves to its new address with the egress of the committed path.
Moved(owner, to, e) ==
    [dir EXCEPT ![owner] = NoEntry,
                ![to] = [dir[owner] EXCEPT !.epoch = e, !.peer = to]]

\* validate_response_and_commit_with, under both locks: publish the egress,
\* rotate the aliases, and re-key the entry.
Commit(owner, s, to, t) ==
    LET e == sessions[s].cand.epoch
    IN  /\ sessions' = [sessions EXCEPT ![s].epoch = e, ![s].path = to,
                            ![s].last = [id |-> t.id, path |-> to], ![s].cand = NoCandidate]
        /\ index' = Reindexed(s, t.gen, e)
        /\ count' = count - 1
        /\ totals' = [totals EXCEPT !.commits = @ + 1]
        /\ dir' = Moved(owner, to, e)
        /\ owners' = [owners EXCEPT ![s] = [gen |-> t.gen, address |-> to]]
        /\ UNCHANGED <<nextGen, nextTicket>>

\* handle_udp_roaming_ingress for a PATH_RESPONSE.
Respond ==
    /\ hand.pc = "response"
    /\ hand' = Idle
    /\ LET at == hand.d.at
           to == hand.d.from
           owner == hand.owner
           entry == dir[owner]
           s == at.sid
           token == hand.d.m.token
           eligible ==
             /\ to = owner \/ dir[to] = NoEntry
             /\ Matches(owner, at) /\ entry.ticket # NoCandidate
           proved == eligible /\ Proves(s, entry.ticket, to, token)
                     /\ at.epoch = sessions[s].cand.epoch
           free == proved /\ Available(s, at.gen, sessions[s].cand.epoch)
       IN  \/ free /\ Commit(owner, s, to, entry.ticket)
           \/ proved /\ ~free /\ AbortCandidate(entry.ticket) /\ UNCHANGED directory
           \/ \* Replayed, stale or wrong: the decision is unchanged.
              /\ ~proved
              /\ LET own == IF eligible /\ ~Replays(s, entry.ticket, to, token)
                            THEN {s} \cap Overdue ELSE {}
                 IN  /\ sessions' = Swept(own)
                     /\ count' = count - Cardinality(own)
                     /\ totals' = Failed(Cardinality(own))
                     /\ UNCHANGED <<index, nextGen, nextTicket, directory>>
    /\ UNCHANGED <<held, mailbox, challenges>>

Next ==
    \/ ExpireCandidates
    \/ \E s \in Sids : LifetimeElapses(s)
    \/ \E a \in Addresses : \/ Handshake(a) \/ RefuseBootstrap(a) \/ Attach(a) \/ AuthOk(a)
                            \/ RemoveEntry(a)
                            \/ \E s \in Sids : Register(a, s)
                            \/ \E g \in 1..MaxGeneration, e \in 1..MaxEpoch : Route(g, e, a)
    \/ Dispatch \/ Observe \/ PublishTicket \/ SendChallenge \/ Respond

Spec == Init /\ [][Next]_vars

------------------------------------------------------------------------------
(* Properties.                                                             *)

\* Whatever order sessions register, rotate, collide and go in, the connection
\* id index holds the aliases of the live sessions and nothing else: no id of a
\* dead session still routes, and none of a live one was taken or removed by
\* another session's rotation or teardown.
IndexIsExact ==
    LET all == UNION {{<<s, n>> : n \in Aliases(sessions[s].epoch)} :
                        s \in {t \in Sids : Live(t)}}
    IN  /\ DOMAIN index = {Cid[sessions[p[1]].gen, p[2]] : p \in all}
        /\ \A p \in all : index[Cid[sessions[p[1]].gen, p[2]]]
                            = Owner(p[1], sessions[p[1]].gen, p[2])

\* A session is registered exactly while one registration for its generation
\* exists, in the directory or with an AUTH task: however entries vanish, move
\* and come back, no registration outlives its entry and none is taken away
\* from an entry that still holds it.
RegistrationsAreExact ==
    \A s \in Sids :
        LET holders == {a \in Addresses : dir[a].kind = "session" /\ dir[a].sid = s}
            tasks == {a \in Addresses : held[a].gen # 0 /\ held[a].sid = s}
        IN  IF Live(s)
            THEN /\ Cardinality(holders) + Cardinality(tasks) = 1
                 /\ \A a \in holders : dir[a].gen = sessions[s].gen
                 /\ \A a \in tasks : held[a].gen = sessions[s].gen
            ELSE holders = {} /\ tasks = {}

\* A session that has been told AuthOK is found through its connection id at the
\* address it is filed under, and the writer's egress is the path the registry
\* has committed: the two locks never show different paths once both are free.
RoutesReachTheirSession ==
    \A a \in Addresses : dir[a].kind = "session" /\ dir[a].auth =>
        LET s == dir[a].sid
        IN  /\ owners[s] = [gen |-> dir[a].gen, address |-> a]
            /\ Live(s) /\ dir[a].epoch = sessions[s].epoch
            /\ dir[a].peer = a /\ sessions[s].path = a

\* A session is only ever moved to a path that was challenged for that epoch
\* and whose token came back from that same path.
MovesAreValidated ==
    \A s \in Sids : Live(s) /\ sessions[s].epoch > 0 =>
        \E c \in challenges : /\ c.gen = sessions[s].gen
                              /\ c.epoch = sessions[s].epoch
                              /\ c.path = sessions[s].path

\* Every candidate is counted once however it ends, the cap holds, and every
\* attempt is a commit, a failure or still open.
CandidatesAreCounted ==
    /\ count = Cardinality({s \in Sids : HasCandidate(s)})
    /\ count <= MaxCandidates
    /\ totals.attempts = totals.commits + totals.failures + count

\* A slot whose lifetime has elapsed never keeps another session from roaming:
\* an acceptable PATH_INIT is turned away only by its session's own running
\* candidate or by a table full of running ones.
RefusesForRunningOnes ==
    hand.pc = "init" /\ hand'.pc = "idle" /\ Acceptable(hand.d.at, hand.d.from)
        => \/ HasCandidate(hand.d.at.sid) /\ ~Expired(hand.d.at.sid)
           \/ Cardinality({s \in Sids : HasCandidate(s) /\ ~Expired(s)}) >= MaxCandidates
==============================================================================
