----------------------------- MODULE UdpHandover -----------------------------
(***************************************************************************)
(* One UDP session moving between paths: the client's roaming actor        *)
(* (transport_core/udp_roaming_client.rs, driven by the select loop of      *)
(* client/mod.rs), the server's side of the exchange as one step each       *)
(* (UdpRoamingServer has its interleavings), and the network between them.  *)
(*                                                                         *)
(* PATH_INIT -> PATH_CHALLENGE -> PATH_RESPONSE -> PATH_COMMIT run on the    *)
(* candidate path while the active one carries data.  The server switches   *)
(* when it sends the COMMIT, the client when it has received it and its     *)
(* platform has acknowledged; in between datagrams are lost and reordered,  *)
(* candidates are superseded by newer paths, time out, or fail.  Each       *)
(* transmission is freshly encrypted and the replay window drops copies, so *)
(* a datagram is received at most once.                                     *)
(*                                                                         *)
(* A path is named by the candidate that uses it (its socket has a new      *)
(* local address); path 0 is the one of the handshake.                      *)
(***************************************************************************)
EXTENDS Integers, FiniteSets

CONSTANTS
    MaxPath,            \* replacement paths that are explored
    MaxTransmissions,   \* UDP_CLIENT_PATH_MAX_TRANSMISSIONS
    MaxToken,           \* server candidates that are explored
    EarlyItems,         \* UDP_EARLY_CANDIDATE_MAX_ITEMS
    InFlight,           \* datagrams in the network at a time
    Queue,              \* datagrams read by the pumps and not yet handled
    RxDead,             \* whether heartbeat or shaping promises downlink traffic
    CanRequest          \* can_request_same_network_nat_rebind

VARIABLES
    alive,      \* the client's tunnel actor runs; when it ends it reconnects
    client,     \* active epoch and path, and the previous path while it drains
    cand,       \* UdpClientRoaming::candidate with its live socket
    offered,    \* the core's newest path candidate, and the last one that was tried
    early,      \* ClientUdpEarlyDataQueue: records of the candidate path
    recovery,   \* UdpClientNatRecoveryPolicy
    queue,      \* datagrams a receive pump has read, tagged with its epoch
    delivered,  \* data records written to the TUN
    server,     \* liveness, active epoch and path, candidate, ticket, last commit
    tokens,     \* challenges drawn so far
    history,    \* the path the server committed for each epoch
    net         \* datagrams in flight

clientVars == <<alive, client, cand, offered, early, recovery, queue, delivered>>
serverVars == <<server, tokens, history>>
vars == <<clientVars, serverVars, net>>

NoCandidate == [id |-> 0]
None == -1

Up(kind, e, p, token) ==
    [to |-> "server", kind |-> kind, epoch |-> e, path |-> p, mid |-> p, token |-> token]
Down(kind, e, p, mid, token) ==
    [to |-> "client", kind |-> kind, epoch |-> e, path |-> p, mid |-> mid, token |-> token]

Init ==
    /\ alive = TRUE
    /\ client = [epoch |-> 0, path |-> 0, drain |-> None, drainPath |-> None]
    /\ cand = NoCandidate
    /\ offered = [newest |-> 0, begun |-> 0]
    /\ early = {}
    /\ recovery = [epoch |-> None, grace |-> FALSE]
    /\ queue = {}
    /\ delivered = {}
    /\ server = [live |-> TRUE, epoch |-> 0, path |-> 0, cand |-> NoCandidate,
                 ticket |-> 0, last |-> NoCandidate]
    /\ tokens = 0
    /\ history = [e \in {0} |-> 0]
    /\ net = {}

\* The network n after m was sent: m is in flight, or was dropped at once.
Sent(n, m) == {n} \cup {n \cup {x} : x \in {y \in {m} : Cardinality(n) < InFlight}}

------------------------------------------------------------------------------
(* The client.                                                             *)

Reconnect ==
    /\ alive' = FALSE
    /\ cand' = NoCandidate /\ early' = {} /\ queue' = {}
    /\ UNCHANGED <<client, offered, recovery, delivered>>

\* The candidate's socket, state and early records are given up; the active
\* path stays.
Abandon ==
    /\ cand' = NoCandidate /\ early' = {}
    /\ UNCHANGED <<alive, client, offered, recovery, queue, delivered>>

\* The platform prepares a path; it supersedes the one before.
PathUpdate ==
    /\ alive /\ offered.newest < MaxPath
    /\ offered' = [offered EXCEPT !.newest = @ + 1]
    /\ UNCHANGED <<alive, client, cand, early, recovery, queue, delivered, serverVars, net>>

\* A candidate is prepared and its socket has not been tried yet.
Prepared == offered.newest > offered.begun

NextEpoch == client.epoch + 1

\* begin_candidate, once the socket of the newest candidate is bound.
BeginCandidate ==
    /\ alive /\ cand = NoCandidate /\ Prepared
    /\ cand' = [id |-> offered.newest, epoch |-> NextEpoch, phase |-> "challenge",
                token |-> 0, sent |-> 1]
    /\ offered' = [offered EXCEPT !.begun = offered.newest]
    /\ early' = {}
    /\ net' \in Sent(net, Up("init", NextEpoch, offered.newest, 0))
    /\ UNCHANGED <<alive, client, recovery, queue, delivered, serverVars>>

Current == cand # NoCandidate /\ cand.id = offered.newest

\* The candidate tick: a superseded candidate is dropped.
Supersede ==
    /\ alive /\ cand # NoCandidate /\ ~Current
    /\ Abandon
    /\ UNCHANGED <<serverVars, net>>

Request(c) == Up(IF c.phase = "challenge" THEN "init" ELSE "response", c.epoch, c.id, c.token)

\* retransmit_due after a silent retry interval.
Retransmit ==
    /\ alive /\ Current /\ cand.sent < MaxTransmissions
    /\ cand' = [cand EXCEPT !.sent = @ + 1]
    /\ net' \in Sent(net, Request(cand))
    /\ UNCHANGED <<alive, client, offered, early, recovery, queue, delivered, serverVars>>

\* The transmissions are used up, the validation timeout elapses or a send
\* fails: the platform candidate is aborted and the loop goes on.
GiveUp ==
    /\ alive /\ cand # NoCandidate
    /\ Abandon
    /\ UNCHANGED <<serverVars, net>>

\* A receive pump reads a datagram from the active, candidate or draining socket
\* and tags it with the epoch of that socket.
Sockets ==
    {<<client.path, client.epoch>>}
      \cup (IF cand = NoCandidate THEN {} ELSE {<<cand.id, cand.epoch>>})
      \cup (IF client.drain = None THEN {} ELSE {<<client.drainPath, client.drain>>})

Pump ==
    /\ alive /\ Cardinality(queue) < Queue
    /\ \E m \in net, s \in Sockets :
          /\ m.to = "client" /\ m.path = s[1]
          /\ net' = net \ {m}
          /\ queue' = queue \cup {[m |-> m, tag |-> s[2]]}
    /\ UNCHANGED <<alive, client, cand, offered, early, recovery, delivered, serverVars>>

\* accept_authenticated_control takes a control for exactly this candidate.
Addressed(m) == m.epoch = cand.epoch /\ m.mid = cand.id

AcceptChallenge(m) ==
    /\ m.kind = "challenge" /\ Addressed(m)
    /\ cand.phase = "challenge" \/ cand.token = m.token
    /\ cand.sent < MaxTransmissions
    /\ cand' = [cand EXCEPT !.phase = "commit", !.token = m.token, !.sent = @ + 1]
    /\ net' \in Sent(net, Up("response", cand.epoch, cand.id, m.token))
    /\ UNCHANGED <<alive, client, early, recovery, delivered>>

\* The accepted commit is published: the candidate is active, the old path
\* drains, and the records that overtook the commit are delivered.
Publish ==
    /\ client' = [epoch |-> cand.epoch, path |-> cand.id, drain |-> client.epoch,
                  drainPath |-> client.path]
    /\ delivered' = delivered \cup early

AcceptCommit(m) ==
    /\ m.kind = "commit" /\ Addressed(m) /\ cand.phase = "commit"
    /\ \/ \* The platform acknowledged COMMIT_PATH.
          /\ Publish
          /\ cand' = NoCandidate /\ early' = {}
          /\ recovery' = [epoch |-> None, grace |-> FALSE]
          /\ UNCHANGED alive
       \/ \* It failed or timed out after the peer committed.
          /\ alive' = FALSE /\ cand' = NoCandidate /\ early' = {}
          /\ UNCHANGED <<client, recovery, delivered>>
    /\ UNCHANGED net

BugEarlyData(m) ==
    /\ delivered' = delivered \cup {m}
    /\ UNCHANGED <<alive, client, cand, early, recovery, net>>

\* Data on the candidate path waits for the commit; too much of it ends the
\* tunnel.
EarlyData(m) ==
    /\ IF Cardinality(early) < EarlyItems
       THEN early' = early \cup {m} /\ UNCHANGED <<alive, cand>>
       ELSE alive' = FALSE /\ cand' = NoCandidate /\ early' = {}
    /\ UNCHANGED <<client, recovery, delivered, net>>

Ignore == UNCHANGED <<alive, client, cand, early, recovery, delivered, net>>

CandidateDatagram(m) ==
    \/ m.kind = "data" /\ EarlyData(m)
    \/ AcceptChallenge(m)
    \/ AcceptCommit(m)
    \/ /\ m.kind # "data"
       /\ ~Addressed(m) \/ (m.kind = "commit" /\ cand.phase # "commit")
          \/ (m.kind = "challenge" /\ cand.phase = "commit" /\ cand.token # m.token)
          \/ (m.kind = "challenge" /\ cand.sent >= MaxTransmissions)
       /\ Ignore

\* One datagram of the queue, classified by the epoch its pump was started with.
Receive ==
    /\ alive
    /\ \E r \in queue :
          /\ IF r.tag = client.epoch \/ r.tag = client.drain
             THEN /\ delivered' = delivered \cup {m \in {r.m} : m.kind = "data"}
                  /\ UNCHANGED <<alive, client, cand, early, recovery, net>>
             ELSE IF Current /\ r.tag = cand.epoch
             THEN CandidateDatagram(r.m)
             ELSE Ignore
          /\ queue' = IF alive' THEN queue \ {r} ELSE {}
    /\ UNCHANGED <<offered, serverVars>>

\* The drain window of the previous path ends.
DrainEnds ==
    /\ alive /\ client.drain # None
    /\ client' = [client EXCEPT !.drain = None, !.drainPath = None]
    /\ UNCHANGED <<alive, cand, offered, early, recovery, queue, delivered, serverVars, net>>

\* This epoch has used up its one recovery attempt.
RecoveryExpired == recovery.epoch = client.epoch /\ ~recovery.grace

\* on_receive_timeout: no downlink for the liveness deadline.  One attempt per
\* epoch gets a grace period; after it, or without any way to get a path, the
\* tunnel reconnects.
CandidateInFlight == cand # NoCandidate \/ Prepared

ReceiveTimeout ==
    /\ alive /\ RxDead
    /\ IF recovery.epoch = client.epoch
       THEN RecoveryExpired /\ Reconnect
       ELSE IF CandidateInFlight \/ (CanRequest /\ offered.newest < MaxPath)
       THEN /\ recovery' = [epoch |-> client.epoch, grace |-> TRUE]
            /\ offered' = IF CandidateInFlight THEN offered
                          ELSE [offered EXCEPT !.newest = @ + 1]
            /\ UNCHANGED <<alive, client, cand, early, queue, delivered>>
       ELSE Reconnect
    /\ UNCHANGED <<serverVars, net>>

\* on_carrier_failure: a send on the active socket fails.  A replacement path may
\* come without having been asked for, so the first failure always waits.
CarrierFails ==
    /\ alive
    /\ IF recovery.epoch = client.epoch
       THEN RecoveryExpired /\ Reconnect
       ELSE /\ recovery' = [epoch |-> client.epoch, grace |-> TRUE]
            /\ offered' = IF ~CandidateInFlight /\ CanRequest /\ offered.newest < MaxPath
                          THEN [offered EXCEPT !.newest = @ + 1] ELSE offered
            /\ UNCHANGED <<alive, client, cand, early, queue, delivered>>
    /\ UNCHANGED <<serverVars, net>>

\* The grace period ends; the next idle tick or uplink packet reconnects.
GraceEnds ==
    /\ alive /\ recovery.grace
    /\ recovery' = [recovery EXCEPT !.grace = FALSE]
    /\ UNCHANGED <<alive, client, cand, offered, early, queue, delivered, serverVars, net>>

RecoveryEnds ==
    /\ alive /\ RecoveryExpired
    /\ Reconnect
    /\ UNCHANGED <<serverVars, net>>

------------------------------------------------------------------------------
(* The server.                                                             *)

\* classify_roaming_ingress and the checks of observe_authenticated_candidate.
InitAccepted(m) ==
    /\ m.epoch = server.epoch + 1
    /\ m.path # server.path

ServerInit(m) ==
    /\ m.kind = "init"
    /\ IF /\ InitAccepted(m)
          /\ server.cand = NoCandidate \/ server.cand.path = m.path
          /\ server.cand = NoCandidate => tokens < MaxToken
       THEN LET token == IF server.cand = NoCandidate THEN tokens + 1 ELSE server.cand.id
            IN  /\ tokens' = IF server.cand = NoCandidate THEN tokens + 1 ELSE tokens
                /\ server' = [server EXCEPT !.cand = [id |-> token, path |-> m.path],
                                            !.ticket = token]
                /\ net' \in Sent(net \ {m}, Down("challenge", m.epoch, m.path, m.mid, token))
       ELSE net' = net \ {m} /\ UNCHANGED <<server, tokens>>
    /\ UNCHANGED history

\* An exact retry of the response committed last is answered again.
Replayed(m) ==
    /\ server.last # NoCandidate /\ server.last.id = server.ticket
    /\ m.path = server.last.path /\ m.epoch = server.epoch /\ m.token = server.last.id

Proven(m) ==
    /\ server.cand # NoCandidate /\ server.cand.id = server.ticket
    /\ m.path = server.cand.path /\ m.epoch = server.epoch + 1 /\ m.token = server.cand.id

\* A proven response switches the egress and sends the COMMIT in one step.
ServerResponse(m) ==
    /\ m.kind = "response"
    /\ LET answer == Down("commit", m.epoch, m.path, m.mid, 0)
       IN  \/ /\ Proven(m)
              /\ server' = [server EXCEPT !.epoch = m.epoch, !.path = m.path,
                                !.last = [id |-> server.ticket, path |-> m.path],
                                !.cand = NoCandidate]
              /\ history' = [e \in DOMAIN history \cup {m.epoch} |->
                                IF e = m.epoch THEN m.path ELSE history[e]]
              /\ net' \in Sent(net \ {m}, answer)
           \/ /\ Replayed(m)
              /\ net' \in Sent(net \ {m}, answer)
              /\ UNCHANGED <<server, history>>
           \/ /\ ~Proven(m) /\ ~Replayed(m)
              /\ net' = net \ {m} /\ UNCHANGED <<server, history>>
    /\ UNCHANGED tokens

ServerReceive ==
    /\ server.live
    /\ \E m \in net : m.to = "server" /\ (ServerInit(m) \/ ServerResponse(m))
    /\ UNCHANGED clientVars

\* The candidate's lifetime ends.
ServerExpires ==
    /\ server.live /\ server.cand # NoCandidate
    /\ server' = [server EXCEPT !.cand = NoCandidate]
    /\ UNCHANGED <<clientVars, tokens, history, net>>

\* Downlink data, a heartbeat or cover on the committed path.
ServerSends ==
    /\ server.live /\ Cardinality(net) < InFlight
    /\ net' = net \cup {Down("data", server.epoch, server.path, 0, 0)}
    /\ UNCHANGED <<clientVars, serverVars>>

\* The session is revoked or reaped.
ServerForgets ==
    /\ server.live
    /\ server' = [server EXCEPT !.live = FALSE, !.cand = NoCandidate]
    /\ UNCHANGED <<clientVars, tokens, history, net>>

\* The network loses a datagram.
Lose ==
    /\ \E m \in net : net' = net \ {m}
    /\ UNCHANGED <<clientVars, serverVars>>

Next ==
    \/ PathUpdate \/ BeginCandidate \/ Supersede \/ Retransmit \/ GiveUp
    \/ Pump \/ Receive \/ DrainEnds
    \/ ReceiveTimeout \/ CarrierFails \/ GraceEnds \/ RecoveryEnds
    \/ ServerReceive \/ ServerExpires \/ ServerSends \/ ServerForgets
    \/ Lose

Spec == Init /\ [][Next]_vars

\* The server no longer sends to the path the client listens on.
Stranded == alive /\ (~server.live \/ server.epoch # client.epoch)

\* Timers fire and a live loop handles what is queued; the receive timeout is
\* certain only while nothing can be received.
Fairness ==
    /\ WF_vars(Receive) /\ WF_vars(GraceEnds) /\ WF_vars(RecoveryEnds)
    /\ WF_vars(Supersede \/ GiveUp)
    /\ WF_vars(Stranded /\ ReceiveTimeout)

------------------------------------------------------------------------------
(* Properties.                                                             *)

\* Client and server never disagree on a path: the path the client has made
\* active for its epoch is the one the server committed for that epoch, however
\* challenges, responses and commits of superseded candidates are delivered.
PathsAgree ==
    client.epoch \in DOMAIN history /\ history[client.epoch] = client.path

\* The server is at most one move ahead, so the client's active connection id
\* is always one the server still routes, and never one it has not derived yet.
EpochsStayClose == server.epoch - client.epoch \in {0, 1}

\* A downlink record reaches the TUN only in an epoch the client has committed,
\* and from the path it committed: data that overtakes the COMMIT waits for it,
\* and leftovers of a superseded candidate never pass for the new one.
DeliveredOnCommittedPath ==
    \A m \in delivered : m.epoch <= client.epoch /\ history[m.epoch] = m.path

\* Together: what the two sides hold of a move agrees.
HandoverStaysAgreed == PathsAgree /\ EpochsStayClose /\ DeliveredOnCommittedPath

\* A client whose server has moved on without it, or has forgotten it, catches
\* up or reconnects: it does not stay on a path nobody sends to.
StrandedRecovers == Stranded ~> ~Stranded
==============================================================================
