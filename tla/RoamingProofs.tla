---------------------------- MODULE RoamingProofs ----------------------------
(***************************************************************************)
(* Proofs about sessions that move between networks: the UDP handover      *)
(* between a client and its server (UdpHandover), for any number of paths, *)
(* transmissions and datagrams, whatever the network loses or reorders;    *)
(* the resume of a TCP session on the server (TcpRoaming), for any number  *)
(* of slots, carriers and epochs, whatever races it; and the UDP registry  *)
(* of connection ids with its directory and ingress (UdpRoamingServer),    *)
(* for any sessions, addresses and derivation of the ids.                  *)
(***************************************************************************)
EXTENDS Roaming, FiniteSetTheorems, TLAPS

Datagram == [to : {"server", "client"},
             kind : {"init", "challenge", "response", "commit", "data"},
             epoch : Nat, path : Nat, mid : Nat, token : Nat]
ClientCandidate == [id : Nat \ {0}, epoch : Nat, phase : {"challenge", "commit"},
                    token : Nat, sent : Nat]
ServerCandidate == {NoCandidate} \cup [id : Nat, path : Nat]

\* The fields of the two sides are well typed.
HandoverTypes ==
  /\ alive \in BOOLEAN
  /\ client \in [epoch : Nat, path : Nat, drain : Nat \cup {None}, drainPath : Nat \cup {None}]
  /\ cand \in {NoCandidate} \cup ClientCandidate
  /\ offered \in [newest : Nat, begun : Nat]
  /\ net \subseteq Datagram
  /\ queue \subseteq [m : Datagram, tag : Nat]
  /\ early \subseteq Datagram /\ delivered \subseteq Datagram
  /\ server \in [live : BOOLEAN, epoch : Nat, path : Nat, cand : ServerCandidate,
                 ticket : Nat, last : ServerCandidate]
  /\ tokens \in Nat

\* The server commits one epoch after the other, each to a path newer than the
\* last, and the client's active and draining paths are among them.
HistoryIsOrdered ==
  /\ history \in [0..server.epoch -> Nat]
  /\ history[server.epoch] = server.path
  /\ \A i, j \in 0..server.epoch : i < j => history[i] < history[j]
  /\ client.epoch <= server.epoch /\ server.epoch <= client.epoch + 1
  /\ history[client.epoch] = client.path
  /\ client.drain # None => /\ client.drain \in 0..server.epoch /\ client.drain < client.epoch
                            /\ history[client.drain] = client.drainPath

\* A candidate is for the next epoch, on a path newer than the active one; the
\* commit that the server may repeat is the one of its active path.
CandidateIsNext ==
  /\ client.path <= offered.begun /\ offered.begun <= offered.newest
  /\ cand # NoCandidate =>
        cand.epoch = client.epoch + 1 /\ client.path < cand.id /\ cand.id <= offered.begun
  /\ server.last # NoCandidate => server.last.path = server.path

\* The server has committed the path of this datagram's epoch, and it is this one.
Committed(m) == m.epoch \in 0..server.epoch /\ history[m.epoch] = m.path

\* Requests are of the next epoch at most, and those that are name a path newer
\* than the active one; what the server sent is of an epoch it had committed.
Genuine(m) ==
  /\ m.to = "server" => /\ m.mid = m.path /\ m.epoch <= client.epoch + 1
                        /\ m.epoch = client.epoch + 1 => client.path < m.path
  /\ m.to = "client" => /\ m.kind = "data" => Committed(m)
                        /\ m.kind = "commit" => Committed(m) /\ m.mid = m.path
Tagged(r) == /\ r.m.kind = "data" => Committed(r.m) /\ r.m.epoch = r.tag
             /\ r.m.kind = "commit" => Committed(r.m) /\ r.m.mid = r.m.path
MessagesAreGenuine == (\A m \in net : Genuine(m)) /\ (\A r \in queue : Tagged(r))

\* Data that waits is of the candidate's epoch, data that was delivered of one
\* the client has committed.
DataIsCommitted ==
  /\ \A m \in early : cand # NoCandidate /\ m.epoch = cand.epoch /\ Committed(m)
  /\ \A m \in delivered : m.epoch <= client.epoch /\ Committed(m)

HandoverInv ==
  /\ HandoverTypes /\ HistoryIsOrdered /\ CandidateIsNext /\ MessagesAreGenuine /\ DataIsCommitted

-----------------------------------------------------------------------------
(* What the operators of the model return.                                 *)

\* A datagram that is sent is in flight or lost.
LEMMA Transmission ==
  ASSUME NEW n, NEW m, NEW after \in Sent(n, m)
  PROVE  after \subseteq n \cup {m}
BY DEF Sent

\* A candidate of the client is not the absence of one, nor is the server's.
LEMMA CandidatesDiffer ==
  /\ \A c \in ClientCandidate : c # NoCandidate
  /\ NoCandidate.id = 0
BY DEF ClientCandidate, NoCandidate

\* Both sides start on the path of the handshake.
LEMMA HandoverInit == Init => HandoverInv
<1> SUFFICES ASSUME Init PROVE HandoverInv
  OBVIOUS
<1>1. HandoverTypes
  BY DEF Init, HandoverTypes, ServerCandidate, None
<1>2. /\ history = [e \in {0} |-> 0] /\ server.epoch = 0 /\ server.path = 0
      /\ client.epoch = 0 /\ client.path = 0 /\ client.drain = None
      /\ offered.begun = 0 /\ offered.newest = 0 /\ cand = NoCandidate
      /\ net = {} /\ queue = {} /\ early = {} /\ delivered = {} /\ server.last = NoCandidate
  BY DEF Init
<1>3. HistoryIsOrdered
  <2>1. 0..server.epoch = {0}
    BY <1>2
  <2> QED
    BY <1>2, <2>1 DEF HistoryIsOrdered
<1>4. CandidateIsNext /\ MessagesAreGenuine /\ DataIsCommitted
  BY <1>2 DEF CandidateIsNext, MessagesAreGenuine, DataIsCommitted
<1> QED
  BY <1>1, <1>3, <1>4 DEF HandoverInv

-----------------------------------------------------------------------------
(* Steps that commit nothing.                                              *)

\* Neither side moves: datagrams are lost or given up, a candidate is dropped.
Idle ==
  /\ server'.epoch = server.epoch /\ server'.path = server.path /\ history' = history
  /\ server'.last = server.last
  /\ client'.epoch = client.epoch /\ client'.path = client.path
  /\ \/ client'.drain = None
     \/ client'.drain = client.drain /\ client'.drainPath = client.drainPath
  /\ offered'.begun = offered.begun /\ offered.newest <= offered'.newest
  /\ net' \subseteq net /\ queue' \subseteq queue /\ delivered' = delivered
  /\ \/ cand' = cand /\ early' = early
     \/ cand' = NoCandidate /\ early' = {}

\* Nothing that was agreed changes.
LEMMA IdleKeeps ==
  ASSUME HandoverInv, Idle, HandoverTypes'
  PROVE  HandoverInv'
<1>0. HandoverTypes /\ HistoryIsOrdered /\ CandidateIsNext /\ MessagesAreGenuine /\ DataIsCommitted
  BY DEF HandoverInv
<1>1. /\ server'.epoch = server.epoch /\ server'.path = server.path /\ history' = history
      /\ client'.epoch = client.epoch /\ client'.path = client.path
      /\ \/ client'.drain = None
         \/ client'.drain = client.drain /\ client'.drainPath = client.drainPath
  BY DEF Idle
<1>2. HistoryIsOrdered'
  BY <1>0, <1>1 DEF HistoryIsOrdered
<1>3. CandidateIsNext'
  <2>1. offered.newest \in Nat /\ offered.begun \in Nat /\ offered'.newest \in Nat
    BY <1>0 DEF HandoverTypes
  <2>2. offered'.begun = offered.begun /\ offered.newest <= offered'.newest
        /\ (cand' = cand \/ cand' = NoCandidate) /\ server'.last = server.last
    BY DEF Idle
  <2> QED
    BY <1>0, <1>1, <2>1, <2>2 DEF CandidateIsNext
<1>4. \A m : Committed(m)' <=> Committed(m)
  BY <1>1 DEF Committed
<1>5. MessagesAreGenuine'
  <2>1. net' \subseteq net /\ queue' \subseteq queue
    BY DEF Idle
  <2> QED
    BY <1>0, <1>1, <1>4, <2>1 DEF MessagesAreGenuine, Genuine, Tagged
<1>6. DataIsCommitted'
  <2>1. delivered' = delivered /\ \/ cand' = cand /\ early' = early
                                  \/ cand' = NoCandidate /\ early' = {}
    BY DEF Idle
  <2> QED
    BY <1>0, <1>1, <1>4, <2>1 DEF DataIsCommitted
<1> QED
  BY <1>2, <1>3, <1>5, <1>6 DEF HandoverInv

\* Updates, timers, failures, losses and the end of a candidate or a session.
LEMMA IdleStep ==
  ASSUME HandoverInv,
         \/ PathUpdate \/ Supersede \/ GiveUp \/ DrainEnds \/ ReceiveTimeout \/ CarrierFails
         \/ GraceEnds \/ RecoveryEnds \/ ServerExpires \/ ServerForgets \/ Lose \/ UNCHANGED vars
  PROVE  HandoverInv'
<1>0. HandoverTypes
  BY DEF HandoverInv
<1>1. CASE PathUpdate
  <2>1. HandoverTypes'
    BY <1>0, <1>1 DEF PathUpdate, HandoverTypes, serverVars
  <2>2. Idle
    BY <1>0, <1>1 DEF PathUpdate, Idle, HandoverTypes, serverVars
  <2> QED
    BY <2>1, <2>2, IdleKeeps
<1>2. CASE Supersede \/ GiveUp
  <2>1. HandoverTypes'
    BY <1>0, <1>2 DEF Supersede, GiveUp, Abandon, HandoverTypes, serverVars
  <2>2. Idle
    BY <1>0, <1>2 DEF Supersede, GiveUp, Abandon, Idle, HandoverTypes, serverVars
  <2> QED
    BY <2>1, <2>2, IdleKeeps
<1>3. CASE DrainEnds
  <2>1. client' = [client EXCEPT !.drain = None, !.drainPath = None]
        /\ UNCHANGED <<alive, cand, offered, early, queue, delivered, server, tokens, history, net>>
    BY <1>3 DEF DrainEnds, serverVars
  <2>2. HandoverTypes'
    BY <1>0, <2>1 DEF HandoverTypes
  <2>3. Idle
    BY <1>0, <2>1 DEF Idle, HandoverTypes
  <2> QED
    BY <2>2, <2>3, IdleKeeps
<1>4. CASE ReceiveTimeout \/ CarrierFails \/ GraceEnds \/ RecoveryEnds
  <2>1. /\ UNCHANGED <<client, delivered, server, tokens, history, net>>
        /\ \/ UNCHANGED <<alive, cand, early, queue>>
           \/ alive' = FALSE /\ cand' = NoCandidate /\ early' = {} /\ queue' = {}
        /\ offered' = offered \/ offered' = [offered EXCEPT !.newest = @ + 1]
    BY <1>4 DEF ReceiveTimeout, CarrierFails, GraceEnds, RecoveryEnds, Reconnect, serverVars
  <2>2. /\ offered' \in [newest : Nat, begun : Nat] /\ offered'.begun = offered.begun
        /\ offered.newest <= offered'.newest
    BY <1>0, <2>1 DEF HandoverTypes
  <2>3. /\ alive' \in BOOLEAN /\ cand' \in {NoCandidate} \cup ClientCandidate
        /\ early' \subseteq Datagram /\ queue' \subseteq [m : Datagram, tag : Nat]
    BY <1>0, <2>1 DEF HandoverTypes
  <2>4. HandoverTypes'
    BY <1>0, <2>1, <2>2, <2>3 DEF HandoverTypes
  <2>5. Idle
    BY <2>1, <2>2 DEF Idle
  <2> QED
    BY <2>4, <2>5, IdleKeeps
<1>5. CASE ServerExpires \/ ServerForgets
  <2>1. /\ UNCHANGED <<alive, client, cand, offered, early, queue, delivered, tokens, history, net>>
        /\ \/ server' = [server EXCEPT !.cand = NoCandidate]
           \/ server' = [server EXCEPT !.live = FALSE, !.cand = NoCandidate]
    BY <1>5 DEF ServerExpires, ServerForgets, clientVars
  <2>2. NoCandidate \in ServerCandidate
    BY DEF ServerCandidate
  <2>3. HandoverTypes' /\ server'.epoch = server.epoch /\ server'.path = server.path
        /\ server'.last = server.last
    BY <1>0, <2>1, <2>2 DEF HandoverTypes
  <2>4. Idle
    <3>1. offered.newest <= offered.newest
      BY <1>0 DEF HandoverTypes
    <3> QED
      BY <2>1, <2>3, <3>1 DEF Idle
  <2> QED
    BY <2>3, <2>4, IdleKeeps
<1>6. CASE Lose \/ UNCHANGED vars
  <2>1. HandoverTypes'
    BY <1>0, <1>6 DEF Lose, vars, HandoverTypes, serverVars, clientVars
  <2>2. Idle
    BY <1>0, <1>6 DEF Lose, vars, Idle, HandoverTypes, serverVars, clientVars
  <2> QED
    BY <2>1, <2>2, IdleKeeps
<1> QED
  BY <1>1, <1>2, <1>3, <1>4, <1>5, <1>6

\* What every step that moves neither side has to show for what it adds.
Additions ==
  /\ \A m \in net' : m \in net \/ Genuine(m)
  /\ \A r \in queue' : r \in queue \/ Tagged(r)
  /\ \A m \in early' : cand' # NoCandidate /\ m.epoch = cand'.epoch /\ Committed(m)
  /\ \A m \in delivered' : m \in delivered \/ (m.epoch <= client.epoch /\ Committed(m))

\* Nothing else can break the agreement.
LEMMA NobodyMoves ==
  ASSUME HandoverInv, HandoverTypes', CandidateIsNext', Additions,
         server'.epoch = server.epoch, server'.path = server.path, history' = history,
         client' = client
  PROVE  HandoverInv'
<1>0. HandoverTypes /\ HistoryIsOrdered /\ MessagesAreGenuine /\ DataIsCommitted
  BY DEF HandoverInv
<1>1. HistoryIsOrdered'
  BY <1>0 DEF HistoryIsOrdered
<1>2. \A m : Committed(m)' <=> Committed(m)
  BY DEF Committed
<1>3. (\A m : Genuine(m)' <=> Genuine(m)) /\ (\A r : Tagged(r)' <=> Tagged(r))
  BY <1>2 DEF Genuine, Tagged
<1>4. MessagesAreGenuine'
  BY <1>0, <1>3 DEF MessagesAreGenuine, Additions
<1>5. DataIsCommitted'
  BY <1>0, <1>2 DEF DataIsCommitted, Additions
<1> QED
  BY <1>1, <1>4, <1>5 DEF HandoverInv

\* A new candidate, or another transmission of its request.
LEMMA RequestStep ==
  ASSUME HandoverInv, BeginCandidate \/ Retransmit
  PROVE  HandoverInv'
<1>0. HandoverTypes /\ CandidateIsNext /\ DataIsCommitted
  BY DEF HandoverInv
<1>1. /\ client.epoch \in Nat /\ client.path \in Nat
      /\ offered.newest \in Nat /\ offered.begun \in Nat
  BY <1>0 DEF HandoverTypes
<1>2. CASE BeginCandidate
  <2> DEFINE up == Up("init", client.epoch + 1, offered.newest, 0)
  <2>1. /\ offered.newest > offered.begun
        /\ cand' = [id |-> offered.newest, epoch |-> client.epoch + 1, phase |-> "challenge",
                    token |-> 0, sent |-> 1]
        /\ offered' = [offered EXCEPT !.begun = offered.newest] /\ early' = {}
        /\ net' \in Sent(net, up)
        /\ UNCHANGED <<alive, client, queue, delivered, server, tokens, history>>
    BY <1>2 DEF BeginCandidate, Prepared, NextEpoch, serverVars
  <2>2. /\ up \in Datagram /\ up.to = "server" /\ up.mid = offered.newest
        /\ up.path = offered.newest /\ up.epoch = client.epoch + 1
    BY <1>1 DEF Up, Datagram
  <2> HIDE DEF up
  <2>3. net' \subseteq net \cup {up}
    BY <2>1, Transmission
  <2>4. cand' \in ClientCandidate /\ cand'.id = offered.newest /\ cand'.epoch = client.epoch + 1
    BY <1>1, <2>1 DEF ClientCandidate
  <2>5. offered' \in [newest : Nat, begun : Nat] /\ offered'.newest = offered.newest
        /\ offered'.begun = offered.newest
    BY <1>0, <1>1, <2>1 DEF HandoverTypes
  <2>6. HandoverTypes'
    BY <1>0, <2>1, <2>2, <2>3, <2>4, <2>5 DEF HandoverTypes
  <2>7. CandidateIsNext'
    BY <1>0, <1>1, <2>1, <2>4, <2>5 DEF CandidateIsNext
  <2>8. Genuine(up)
    BY <1>0, <1>1, <2>1, <2>2 DEF Genuine, CandidateIsNext
  <2>9. Additions
    BY <2>1, <2>3, <2>8 DEF Additions
  <2> QED
    BY <2>1, <2>6, <2>7, <2>9, NobodyMoves
<1>3. CASE Retransmit
  <2>1. /\ cand # NoCandidate /\ cand' = [cand EXCEPT !.sent = @ + 1]
        /\ net' \in Sent(net, Request(cand))
        /\ UNCHANGED <<alive, client, offered, early, queue, delivered, server, tokens, history>>
    BY <1>3 DEF Retransmit, Current, serverVars
  <2>2. cand \in ClientCandidate /\ cand.epoch = client.epoch + 1 /\ client.path < cand.id
        /\ cand.id <= offered.begun
    BY <1>0, <2>1 DEF HandoverTypes, CandidateIsNext
  <2>3. /\ cand' \in ClientCandidate /\ cand'.id = cand.id /\ cand'.epoch = cand.epoch
    BY <2>1, <2>2 DEF ClientCandidate
  <2> DEFINE up == Request(cand)
  <2>4. /\ up \in Datagram /\ up.to = "server" /\ up.mid = cand.id
        /\ up.path = cand.id /\ up.epoch = cand.epoch
    <3>1. /\ cand.id \in Nat /\ cand.epoch \in Nat /\ cand.token \in Nat
      BY <2>2 DEF ClientCandidate
    <3>2. CASE cand.phase = "challenge"
      BY <3>1, <3>2 DEF Request, Up, Datagram
    <3>3. CASE cand.phase # "challenge"
      BY <3>1, <3>3 DEF Request, Up, Datagram
    <3> QED
      BY <3>2, <3>3
  <2> HIDE DEF up
  <2>5. net' \subseteq net \cup {up}
    BY <2>1, Transmission DEF up
  <2>6. HandoverTypes'
    BY <1>0, <2>1, <2>3, <2>4, <2>5 DEF HandoverTypes
  <2>7. CandidateIsNext'
    BY <1>0, <2>1, <2>2, <2>3 DEF CandidateIsNext
  <2>8. Genuine(up)
    BY <1>1, <2>2, <2>4 DEF Genuine
  <2>9. cand' # NoCandidate
    BY <2>3, CandidatesDiffer
  <2>10. Additions
    BY <1>0, <2>1, <2>3, <2>5, <2>8, <2>9 DEF Additions, DataIsCommitted
  <2> QED
    BY <2>1, <2>6, <2>7, <2>10, NobodyMoves
<1> QED
  BY <1>2, <1>3

\* A pump reads only what the server sent to its path, so data carries the epoch
\* of the socket it was read from.
LEMMA PumpStep ==
  ASSUME HandoverInv, Pump
  PROVE  HandoverInv'
<1>0. HandoverTypes /\ HistoryIsOrdered /\ CandidateIsNext /\ MessagesAreGenuine /\ DataIsCommitted
  BY DEF HandoverInv
<1>1. PICK m \in net, s \in Sockets :
         /\ m.to = "client" /\ m.path = s[1]
         /\ net' = net \ {m} /\ queue' = queue \cup {[m |-> m, tag |-> s[2]]}
  BY DEF Pump
<1>2. UNCHANGED <<alive, client, cand, offered, early, delivered, server, tokens, history>>
  BY DEF Pump, serverVars
<1>3. /\ client.epoch \in Nat /\ server.epoch \in Nat /\ client.path \in Nat /\ m \in Datagram
      /\ m.epoch \in Nat /\ m.path \in Nat
  BY <1>0 DEF HandoverTypes, Datagram
<1>4. /\ history \in [0..server.epoch -> Nat]
      /\ \A i, j \in 0..server.epoch : i < j => history[i] < history[j]
      /\ client.epoch <= server.epoch /\ server.epoch <= client.epoch + 1
      /\ history[client.epoch] = client.path
      /\ client.drain # None => client.drain \in 0..server.epoch
                                  /\ history[client.drain] = client.drainPath
  BY <1>0 DEF HistoryIsOrdered
<1>5. m.kind = "data" => Committed(m)
  BY <1>0, <1>1 DEF MessagesAreGenuine, Genuine
<1>6. \A i, j \in 0..server.epoch : history[i] = history[j] => i = j
  <2>1. \A i \in 0..server.epoch : history[i] \in Nat
    BY <1>4
  <2> QED
    BY <1>3, <1>4, <2>1
<1>7. s[2] \in Nat /\ (m.kind = "data" => m.epoch = s[2])
  <2>1. CASE s = <<client.path, client.epoch>>
    <3>1. client.epoch \in 0..server.epoch
      BY <1>3, <1>4
    <3> QED
      BY <1>1, <1>3, <1>4, <1>5, <1>6, <2>1, <3>1 DEF Committed
  <2>2. CASE cand # NoCandidate /\ s = <<cand.id, cand.epoch>>
    <3>1. /\ cand \in ClientCandidate /\ cand.epoch = client.epoch + 1 /\ client.path < cand.id
          /\ cand.id \in Nat
      BY <1>0, <2>2 DEF HandoverTypes, CandidateIsNext, ClientCandidate
    <3>2. ASSUME m.kind = "data" PROVE m.epoch = cand.epoch
      <4>1. m.epoch \in 0..server.epoch /\ history[m.epoch] = cand.id
        BY <1>1, <1>5, <2>2, <3>2 DEF Committed
      <4>2. ~(m.epoch < client.epoch)
        <5>1. SUFFICES ASSUME m.epoch < client.epoch PROVE FALSE
          OBVIOUS
        <5>2. client.epoch \in 0..server.epoch
          BY <1>3, <1>4
        <5>3. history[m.epoch] < history[client.epoch]
          BY <1>4, <4>1, <5>1, <5>2
        <5> QED
          BY <1>3, <1>4, <3>1, <4>1, <5>3
      <4>3. m.epoch # client.epoch
        BY <1>3, <1>4, <3>1, <4>1
      <4> QED
        BY <1>3, <1>4, <3>1, <4>1, <4>2, <4>3
    <3> QED
      BY <1>3, <2>2, <3>1, <3>2
  <2>3. CASE client.drain # None /\ s = <<client.drainPath, client.drain>>
    BY <1>1, <1>3, <1>4, <1>5, <1>6, <2>3 DEF Committed
  <2> QED
    BY <2>1, <2>2, <2>3 DEF Sockets
<1>8. Tagged([m |-> m, tag |-> s[2]])
  BY <1>0, <1>1, <1>5, <1>7 DEF Tagged, MessagesAreGenuine, Genuine
<1>9. HandoverTypes'
  <2>1. [m |-> m, tag |-> s[2]] \in [m : Datagram, tag : Nat]
    BY <1>3, <1>7
  <2>2. queue' \subseteq [m : Datagram, tag : Nat] /\ net' \subseteq Datagram
    BY <1>0, <1>1, <2>1 DEF HandoverTypes
  <2> QED
    BY <1>0, <1>2, <2>2 DEF HandoverTypes
<1>10. CandidateIsNext'
  BY <1>0, <1>2 DEF CandidateIsNext
<1>11. Additions
  BY <1>0, <1>1, <1>2, <1>8 DEF Additions, DataIsCommitted
<1> QED
  BY <1>2, <1>9, <1>10, <1>11, NobodyMoves

\* Downlink data is of the epoch the server is in.
LEMMA DownlinkStep ==
  ASSUME HandoverInv, ServerSends
  PROVE  HandoverInv'
<1>0. HandoverTypes /\ HistoryIsOrdered /\ CandidateIsNext /\ DataIsCommitted
  BY DEF HandoverInv
<1> DEFINE d == Down("data", server.epoch, server.path, 0, 0)
<1>1. /\ net' = net \cup {d}
      /\ UNCHANGED <<alive, client, cand, offered, early, queue, delivered, server, tokens, history>>
  BY DEF ServerSends, clientVars, serverVars
<1>2. /\ d \in Datagram /\ d.to = "client" /\ d.kind = "data" /\ d.epoch = server.epoch
      /\ d.path = server.path /\ server.epoch \in Nat
  BY <1>0 DEF Down, Datagram, HandoverTypes
<1> HIDE DEF d
<1>3. Genuine(d)
  <2>1. server.epoch \in 0..server.epoch /\ history[server.epoch] = server.path
    BY <1>0, <1>2 DEF HistoryIsOrdered
  <2> QED
    BY <1>2, <2>1 DEF Genuine, Committed
<1>4. HandoverTypes'
  BY <1>0, <1>1, <1>2 DEF HandoverTypes
<1>5. CandidateIsNext'
  BY <1>0, <1>1 DEF CandidateIsNext
<1>6. Additions
  BY <1>0, <1>1, <1>3 DEF Additions, DataIsCommitted
<1> QED
  BY <1>1, <1>4, <1>5, <1>6, NobodyMoves

\* The server observes a candidate: it moves nothing yet.
LEMMA ObserveStep ==
  ASSUME HandoverInv, NEW m \in net, ServerInit(m), UNCHANGED clientVars
  PROVE  HandoverInv'
<1>0. HandoverTypes /\ CandidateIsNext /\ DataIsCommitted
  BY DEF HandoverInv
<1>1. UNCHANGED <<alive, client, cand, offered, early, queue, delivered, history>>
  BY DEF ServerInit, clientVars
<1>2. m \in Datagram /\ m.epoch \in Nat /\ m.path \in Nat /\ m.mid \in Nat
  BY <1>0 DEF HandoverTypes, Datagram
<1>3. server'.path = server.path /\ server'.last = server.last => CandidateIsNext'
  BY <1>0, <1>1 DEF CandidateIsNext
<1>4. CASE net' = net \ {m} /\ UNCHANGED <<server, tokens>>
  <2>1. HandoverTypes'
    BY <1>0, <1>1, <1>4 DEF HandoverTypes
  <2>2. Additions
    BY <1>0, <1>1, <1>4 DEF Additions, DataIsCommitted
  <2> QED
    BY <1>1, <1>3, <1>4, <2>1, <2>2, NobodyMoves
<1>5. ASSUME NEW token \in Nat, tokens' \in Nat,
             server' = [server EXCEPT !.cand = [id |-> token, path |-> m.path], !.ticket = token],
             net' \in Sent(net \ {m}, Down("challenge", m.epoch, m.path, m.mid, token))
      PROVE  HandoverInv'
  <2> DEFINE d == Down("challenge", m.epoch, m.path, m.mid, token)
  <2>1. d \in Datagram /\ d.to = "client" /\ d.kind = "challenge"
    BY <1>2, <1>5 DEF Down, Datagram
  <2>2. net' \subseteq (net \ {m}) \cup {d}
    BY <1>5, Transmission
  <2> HIDE DEF d
  <2>3. [id |-> token, path |-> m.path] \in ServerCandidate
    BY <1>2, <1>5 DEF ServerCandidate
  <2>4. /\ server' \in [live : BOOLEAN, epoch : Nat, path : Nat, cand : ServerCandidate,
                        ticket : Nat, last : ServerCandidate]
        /\ server'.epoch = server.epoch /\ server'.path = server.path
        /\ server'.last = server.last
    BY <1>0, <1>5, <2>3 DEF HandoverTypes
  <2>5. HandoverTypes'
    BY <1>0, <1>1, <1>5, <2>1, <2>2, <2>4 DEF HandoverTypes
  <2>6. Genuine(d)
    BY <2>1 DEF Genuine
  <2>7. Additions
    BY <1>0, <1>1, <2>2, <2>6 DEF Additions, DataIsCommitted
  <2> QED
    BY <1>1, <1>3, <2>4, <2>5, <2>7, NobodyMoves
<1>6. CASE /\ InitAccepted(m)
           /\ server.cand = NoCandidate \/ server.cand.path = m.path
           /\ server.cand = NoCandidate => tokens < MaxToken
  <2> DEFINE token == IF server.cand = NoCandidate THEN tokens + 1 ELSE server.cand.id
  <2>1. /\ tokens' = (IF server.cand = NoCandidate THEN tokens + 1 ELSE tokens)
        /\ server' = [server EXCEPT !.cand = [id |-> token, path |-> m.path], !.ticket = token]
        /\ net' \in Sent(net \ {m}, Down("challenge", m.epoch, m.path, m.mid, token))
    BY <1>6 DEF ServerInit
  <2>2. tokens' \in Nat /\ token \in Nat
    <3>1. tokens \in Nat /\ server.cand \in ServerCandidate
      BY <1>0 DEF HandoverTypes
    <3>2. server.cand # NoCandidate => server.cand.id \in Nat
      BY <3>1 DEF ServerCandidate
    <3> QED
      BY <2>1, <3>1, <3>2
  <2> HIDE DEF token
  <2> QED
    BY <1>5, <2>1, <2>2
<1>7. CASE ~(/\ InitAccepted(m)
             /\ server.cand = NoCandidate \/ server.cand.path = m.path
             /\ server.cand = NoCandidate => tokens < MaxToken)
  BY <1>4, <1>7 DEF ServerInit
<1> QED
  BY <1>6, <1>7

-----------------------------------------------------------------------------
(* The two moves.                                                          *)

\* The server moves to the path of a proven response, which is newer than any it
\* committed before, and is then one epoch ahead of the client.
LEMMA ServerMoves ==
  ASSUME HandoverInv, NEW m \in net, m.to = "server", Proven(m), ServerResponse(m),
         UNCHANGED clientVars,
         server' = [server EXCEPT !.epoch = m.epoch, !.path = m.path,
                                  !.last = [id |-> server.ticket, path |-> m.path],
                                  !.cand = NoCandidate],
         history' = [e \in DOMAIN history \cup {m.epoch} |->
                       IF e = m.epoch THEN m.path ELSE history[e]],
         net' \in Sent(net \ {m}, Down("commit", m.epoch, m.path, m.mid, 0)),
         UNCHANGED tokens
  PROVE  HandoverInv'
<1>0. HandoverTypes /\ HistoryIsOrdered /\ CandidateIsNext /\ MessagesAreGenuine /\ DataIsCommitted
  BY DEF HandoverInv
<1>1. UNCHANGED <<alive, client, cand, offered, early, queue, delivered>>
  BY DEF clientVars
<1>2. /\ m \in Datagram /\ m.epoch \in Nat /\ m.path \in Nat /\ m.mid \in Nat
      /\ client.epoch \in Nat /\ server.epoch \in Nat /\ client.path \in Nat
  BY <1>0 DEF HandoverTypes, Datagram
<1>3. /\ m.epoch = server.epoch + 1 /\ m.mid = m.path /\ m.epoch <= client.epoch + 1
      /\ m.epoch = client.epoch + 1 => client.path < m.path
  BY <1>0 DEF Proven, MessagesAreGenuine, Genuine
<1>4. /\ history \in [0..server.epoch -> Nat]
      /\ \A i, j \in 0..server.epoch : i < j => history[i] < history[j]
      /\ client.epoch <= server.epoch /\ server.epoch <= client.epoch + 1
      /\ history[client.epoch] = client.path
      /\ client.drain # None => client.drain \in 0..server.epoch /\ client.drain < client.epoch
                                  /\ history[client.drain] = client.drainPath
  BY <1>0 DEF HistoryIsOrdered
<1>5. server.epoch = client.epoch /\ client.path < m.path
  BY <1>2, <1>3, <1>4
<1>6. /\ server' \in [live : BOOLEAN, epoch : Nat, path : Nat, cand : ServerCandidate,
                      ticket : Nat, last : ServerCandidate]
      /\ server'.epoch = server.epoch + 1 /\ server'.path = m.path
  <2>1. NoCandidate \in ServerCandidate /\ server.ticket \in Nat
        /\ [id |-> server.ticket, path |-> m.path] \in ServerCandidate
    BY <1>0, <1>2 DEF ServerCandidate, HandoverTypes
  <2> QED
    BY <1>0, <1>2, <1>3, <2>1 DEF HandoverTypes
<1>7. /\ history' \in [0..(server.epoch + 1) -> Nat] /\ history'[server.epoch + 1] = m.path
      /\ \A e \in 0..server.epoch : history'[e] = history[e]
  <2>1. DOMAIN history \cup {m.epoch} = 0..(server.epoch + 1)
    BY <1>2, <1>3, <1>4
  <2>2. \A e \in 0..server.epoch : e # m.epoch
    BY <1>2, <1>3
  <2> QED
    BY <1>2, <1>3, <1>4, <2>1, <2>2
<1>8. \A x : Committed(x) => Committed(x)'
  BY <1>2, <1>6, <1>7 DEF Committed
<1>9. HistoryIsOrdered'
  <2>1. \A i, j \in 0..(server.epoch + 1) : i < j => history'[i] < history'[j]
    <3> SUFFICES ASSUME NEW i \in 0..(server.epoch + 1), NEW j \in 0..(server.epoch + 1), i < j
                 PROVE  history'[i] < history'[j]
      OBVIOUS
    <3>1. i \in 0..server.epoch /\ history'[i] = history[i] /\ history[i] \in Nat
      BY <1>2, <1>4, <1>7
    <3>2. CASE j = server.epoch + 1
      <4>0. server.epoch \in 0..server.epoch /\ (i = server.epoch \/ i < server.epoch)
        BY <1>2, <3>1
      <4>1. i = server.epoch \/ history[i] < history[server.epoch]
        BY <1>4, <3>1, <4>0
      <4>2. history[server.epoch] < m.path /\ history[server.epoch] \in Nat
        BY <1>2, <1>4, <1>5
      <4> QED
        BY <1>2, <1>7, <3>1, <3>2, <4>1, <4>2
    <3>3. CASE j # server.epoch + 1
      <4>1. j \in 0..server.epoch
        BY <1>2, <3>3
      <4> QED
        BY <1>4, <1>7, <3>1, <4>1
    <3> QED
      BY <3>2, <3>3
  <2>2. history'[client.epoch] = client.path
    BY <1>2, <1>4, <1>5, <1>7
  <2>3. client.drain # None => client.drain \in 0..(server.epoch + 1) /\ client.drain < client.epoch
                                 /\ history'[client.drain] = client.drainPath
    BY <1>2, <1>4, <1>7
  <2>4. client.epoch <= server'.epoch /\ server'.epoch <= client.epoch + 1
    BY <1>2, <1>5, <1>6
  <2>5. /\ history' \in [0..server'.epoch -> Nat] /\ history'[server'.epoch] = server'.path
        /\ \A i, j \in 0..server'.epoch : i < j => history'[i] < history'[j]
        /\ client.drain # None => client.drain \in 0..server'.epoch
    BY <1>6, <1>7, <2>1, <2>3
  <2> QED
    BY <1>1, <2>2, <2>3, <2>4, <2>5 DEF HistoryIsOrdered
<1> DEFINE d == Down("commit", m.epoch, m.path, m.mid, 0)
<1>10. /\ d \in Datagram /\ d.to = "client" /\ d.kind = "commit" /\ d.epoch = m.epoch
       /\ d.path = m.path /\ d.mid = m.mid
  BY <1>2 DEF Down, Datagram
<1>11. net' \subseteq net \cup {d}
  BY Transmission
<1> HIDE DEF d
<1>12. Genuine(d)'
  <2>1. Committed(d)'
    BY <1>2, <1>3, <1>6, <1>7, <1>10 DEF Committed
  <2> QED
    BY <1>3, <1>10, <2>1 DEF Genuine
<1>13. MessagesAreGenuine'
  <2>1. \A x \in net : Genuine(x)'
    BY <1>0, <1>1, <1>8 DEF MessagesAreGenuine, Genuine
  <2>2. \A r \in queue : Tagged(r)'
    BY <1>0, <1>8 DEF MessagesAreGenuine, Tagged
  <2> QED
    BY <1>1, <1>11, <1>12, <2>1, <2>2 DEF MessagesAreGenuine
<1>14. DataIsCommitted'
  BY <1>0, <1>1, <1>8 DEF DataIsCommitted
<1>15. HandoverTypes'
  BY <1>0, <1>1, <1>6, <1>10, <1>11 DEF HandoverTypes
<1>16. CandidateIsNext'
  <2>1. server'.last.path = m.path
    BY <1>0 DEF HandoverTypes
  <2> QED
    BY <1>0, <1>1, <1>6, <2>1 DEF CandidateIsNext
<1> QED
  BY <1>9, <1>13, <1>14, <1>15, <1>16 DEF HandoverInv

\* A repeated response is answered with the commit it was answered with before.
LEMMA ResponseStep ==
  ASSUME HandoverInv, NEW m \in net, m.to = "server", ServerResponse(m), UNCHANGED clientVars
  PROVE  HandoverInv'
<1>0. HandoverTypes /\ HistoryIsOrdered /\ CandidateIsNext /\ MessagesAreGenuine /\ DataIsCommitted
  BY DEF HandoverInv
<1>1. /\ UNCHANGED <<alive, client, cand, offered, early, queue, delivered>> /\ UNCHANGED tokens
  BY DEF clientVars, ServerResponse
<1>2. server' = server => CandidateIsNext'
  BY <1>0, <1>1 DEF CandidateIsNext
<1>3. CASE net' = net \ {m} /\ UNCHANGED <<server, history>>
  <2>1. HandoverTypes'
    BY <1>0, <1>1, <1>3 DEF HandoverTypes
  <2>2. Additions
    BY <1>0, <1>1, <1>3 DEF Additions, DataIsCommitted
  <2> QED
    BY <1>1, <1>2, <1>3, <2>1, <2>2, NobodyMoves
<1>4. CASE /\ Replayed(m) /\ net' \in Sent(net \ {m}, Down("commit", m.epoch, m.path, m.mid, 0))
           /\ UNCHANGED <<server, history>>
  <2> DEFINE d == Down("commit", m.epoch, m.path, m.mid, 0)
  <2>1. m.epoch \in Nat /\ m.path \in Nat /\ m.mid \in Nat
    BY <1>0 DEF HandoverTypes, Datagram
  <2>2. /\ d \in Datagram /\ d.to = "client" /\ d.kind = "commit" /\ d.epoch = m.epoch
        /\ d.path = m.path /\ d.mid = m.mid
    BY <2>1 DEF Down, Datagram
  <2>3. net' \subseteq net \cup {d}
    BY <1>4, Transmission
  <2> HIDE DEF d
  <2>4. m.mid = m.path /\ m.epoch = server.epoch /\ m.path = server.last.path
    BY <1>0, <1>4 DEF MessagesAreGenuine, Genuine, Replayed
  <2>5. Genuine(d)
    <3>1. history[server.epoch] = server.path /\ server.epoch \in 0..server.epoch
      BY <1>0, <2>1, <2>4 DEF HistoryIsOrdered
    <3>2. server.last.path = server.path
      BY <1>0, <1>4 DEF Replayed, CandidateIsNext
    <3> QED
      BY <2>2, <2>4, <3>1, <3>2 DEF Genuine, Committed
  <2>6. HandoverTypes'
    BY <1>0, <1>1, <1>4, <2>2, <2>3 DEF HandoverTypes
  <2>7. Additions
    BY <1>0, <1>1, <2>3, <2>5 DEF Additions, DataIsCommitted
  <2> QED
    BY <1>1, <1>2, <1>4, <2>6, <2>7, NobodyMoves
<1>5. CASE Proven(m) /\ net' \in Sent(net \ {m}, Down("commit", m.epoch, m.path, m.mid, 0))
           /\ server' = [server EXCEPT !.epoch = m.epoch, !.path = m.path,
                                  !.last = [id |-> server.ticket, path |-> m.path],
                                  !.cand = NoCandidate]
           /\ history' = [e \in DOMAIN history \cup {m.epoch} |->
                            IF e = m.epoch THEN m.path ELSE history[e]]
  BY <1>1, <1>5, ServerMoves
<1> QED
  BY <1>3, <1>4, <1>5 DEF ServerResponse

\* The client moves to the path of an accepted commit, which is the one the server
\* committed for that epoch.
LEMMA ClientMoves ==
  ASSUME HandoverInv, NEW r \in queue, cand # NoCandidate, AcceptCommit(r.m), alive' = alive,
         Publish, cand' = NoCandidate, early' = {}, queue' \subseteq queue,
         UNCHANGED <<offered, serverVars, net>>
  PROVE  HandoverInv'
<1> DEFINE m == r.m
<1>0. HandoverTypes /\ HistoryIsOrdered /\ CandidateIsNext /\ MessagesAreGenuine /\ DataIsCommitted
  BY DEF HandoverInv
<1>1. UNCHANGED <<offered, server, tokens, history, net>>
  BY DEF serverVars
<1>2. /\ client' = [epoch |-> cand.epoch, path |-> cand.id, drain |-> client.epoch,
                    drainPath |-> client.path]
      /\ delivered' = delivered \cup early
  BY DEF Publish
<1>3. cand \in ClientCandidate /\ cand.epoch = client.epoch + 1 /\ client.path < cand.id
      /\ cand.id <= offered.begun /\ cand.id \in Nat
  BY <1>0 DEF HandoverTypes, CandidateIsNext, ClientCandidate
<1>4. client.epoch \in Nat /\ server.epoch \in Nat /\ client.path \in Nat
  BY <1>0 DEF HandoverTypes
<1>5. m.epoch = cand.epoch /\ m.path = cand.id /\ Committed(m)
  <2>1. m.kind = "commit" /\ m.epoch = cand.epoch /\ m.mid = cand.id
    BY DEF AcceptCommit, Addressed
  <2> QED
    BY <1>0, <2>1 DEF MessagesAreGenuine, Tagged
<1>6. cand.epoch \in 0..server.epoch /\ history[cand.epoch] = cand.id
  BY <1>5 DEF Committed
<1>7. server.epoch = client.epoch + 1
  BY <1>0, <1>3, <1>4, <1>6 DEF HistoryIsOrdered
<1>8. client'.epoch = client.epoch + 1 /\ client'.path = cand.id /\ client'.drain = client.epoch
      /\ client'.drainPath = client.path
  BY <1>2, <1>3
<1>9. HistoryIsOrdered'
  <2>1. history[client.epoch] = client.path /\ client.epoch \in 0..server.epoch
    BY <1>0, <1>4 DEF HistoryIsOrdered
  <2>2. client'.drain < client'.epoch /\ client'.epoch <= server.epoch
        /\ server.epoch <= client'.epoch + 1
    BY <1>4, <1>7, <1>8
  <2>3. history[client'.epoch] = client'.path
    BY <1>3, <1>6, <1>8
  <2> QED
    BY <1>0, <1>1, <1>8, <2>1, <2>2, <2>3 DEF HistoryIsOrdered
<1>10. CandidateIsNext'
  BY <1>0, <1>1, <1>3, <1>8 DEF CandidateIsNext
<1>11. \A x : Committed(x)' <=> Committed(x)
  BY <1>1 DEF Committed
<1>12. MessagesAreGenuine'
  <2>1. ASSUME NEW x \in net PROVE Genuine(x)'
    <3>1. x.epoch \in Nat /\ Genuine(x)
      BY <1>0 DEF HandoverTypes, Datagram, MessagesAreGenuine
    <3>2. x.epoch <= client.epoch + 1 => x.epoch <= client'.epoch + 1 /\ x.epoch # client'.epoch + 1
      BY <1>4, <1>8, <3>1
    <3> QED
      BY <1>11, <3>1, <3>2 DEF Genuine
  <2>2. ASSUME NEW x \in queue PROVE Tagged(x)'
    BY <1>0, <1>11 DEF MessagesAreGenuine, Tagged
  <2> QED
    BY <1>1, <2>1, <2>2 DEF MessagesAreGenuine
<1>13. DataIsCommitted'
  <2>1. ASSUME NEW x \in delivered' PROVE x.epoch <= client'.epoch /\ Committed(x)
    <3>1. x.epoch \in Nat
      BY <1>0, <1>2, <2>1 DEF HandoverTypes, Datagram
    <3>2. CASE x \in delivered
      <4>1. x.epoch <= client.epoch /\ Committed(x)
        BY <1>0, <3>2 DEF DataIsCommitted
      <4> QED
        BY <1>4, <1>8, <3>1, <4>1
    <3>3. CASE x \in early
      <4>1. x.epoch = cand.epoch /\ Committed(x)
        BY <1>0, <3>3 DEF DataIsCommitted
      <4> QED
        BY <1>3, <1>4, <1>8, <4>1
    <3> QED
      BY <1>2, <2>1, <3>2, <3>3
  <2> QED
    BY <1>11, <2>1 DEF DataIsCommitted
<1>14. HandoverTypes'
  <2>1. client' \in [epoch : Nat, path : Nat, drain : Nat \cup {None}, drainPath : Nat \cup {None}]
    BY <1>2, <1>3, <1>4
  <2> QED
    BY <1>0, <1>1, <1>2, <2>1 DEF HandoverTypes
<1> QED
  BY <1>9, <1>10, <1>12, <1>13, <1>14 DEF HandoverInv

\* Every way the client handles a datagram.
LEMMA ReceiveStep ==
  ASSUME HandoverInv, Receive
  PROVE  HandoverInv'
<1>0. HandoverTypes /\ HistoryIsOrdered /\ CandidateIsNext /\ MessagesAreGenuine /\ DataIsCommitted
  BY DEF HandoverInv
<1>1. PICK r \in queue :
         /\ IF r.tag = client.epoch \/ r.tag = client.drain
            THEN /\ delivered' = delivered \cup {m \in {r.m} : m.kind = "data"}
                 /\ UNCHANGED <<alive, client, cand, early, recovery, net>>
            ELSE IF Current /\ r.tag = cand.epoch
            THEN CandidateDatagram(r.m)
            ELSE Ignore
         /\ queue' = IF alive' THEN queue \ {r} ELSE {}
  BY DEF Receive
<1>2. UNCHANGED <<offered, server, tokens, history>> /\ queue' \subseteq queue
  BY <1>1 DEF Receive, serverVars
<1>3. /\ r.m \in Datagram /\ r.tag \in Nat /\ Tagged(r) /\ client.epoch \in Nat
      /\ r.m.epoch \in Nat
  BY <1>0 DEF HandoverTypes, MessagesAreGenuine, Datagram
<1>4. CASE Ignore
  <2>1. UNCHANGED <<alive, client, cand, early, delivered, net>>
    BY <1>4 DEF Ignore
  <2>2. HandoverTypes' /\ CandidateIsNext'
    BY <1>0, <1>2, <2>1 DEF HandoverTypes, CandidateIsNext
  <2>3. Additions
    BY <1>0, <1>2, <2>1 DEF Additions, DataIsCommitted
  <2> QED
    BY <1>2, <2>1, <2>2, <2>3, NobodyMoves
<1>5. CASE r.tag = client.epoch \/ r.tag = client.drain
  <2>1. /\ delivered' = delivered \cup {m \in {r.m} : m.kind = "data"}
        /\ UNCHANGED <<alive, client, cand, early, net>>
    BY <1>1, <1>5
  <2>2. HandoverTypes' /\ CandidateIsNext'
    <3>1. delivered' \subseteq Datagram
      BY <1>0, <1>3, <2>1 DEF HandoverTypes
    <3> QED
      BY <1>0, <1>2, <2>1, <3>1 DEF HandoverTypes, CandidateIsNext
  <2>3. r.tag <= client.epoch
    <3>1. CASE r.tag = client.epoch
      BY <1>3, <3>1
    <3>2. CASE r.tag = client.drain
      <4>1. client.drain # None
        BY <1>3, <3>2 DEF None
      <4> QED
        BY <1>0, <1>3, <3>2, <4>1 DEF HistoryIsOrdered
    <3> QED
      BY <1>5, <3>1, <3>2
  <2>4. r.m.kind = "data" => r.m.epoch <= client.epoch /\ Committed(r.m)
    BY <1>3, <2>3 DEF Tagged
  <2>5. Additions
    BY <1>0, <1>2, <2>1, <2>4 DEF Additions, DataIsCommitted
  <2> QED
    BY <1>2, <2>1, <2>2, <2>5, NobodyMoves
<1>6. ASSUME Current, r.tag = cand.epoch, CandidateDatagram(r.m) PROVE HandoverInv'
  <2>1. cand # NoCandidate
    BY <1>6 DEF Current
  <2>2. /\ cand \in ClientCandidate /\ cand.epoch = client.epoch + 1 /\ client.path < cand.id
        /\ cand.id <= offered.begun /\ cand.id \in Nat /\ cand.epoch \in Nat
    BY <1>0, <2>1 DEF HandoverTypes, CandidateIsNext, ClientCandidate
  <2>3. ASSUME alive' = FALSE, cand' = NoCandidate, early' = {}, UNCHANGED <<client, delivered, net>>
        PROVE  HandoverInv'
    <3>1. HandoverTypes' /\ CandidateIsNext'
      BY <1>0, <1>2, <2>3 DEF HandoverTypes, CandidateIsNext
    <3>2. Additions
      BY <1>0, <1>2, <2>3 DEF Additions
    <3> QED
      BY <1>2, <2>3, <3>1, <3>2, NobodyMoves
  <2>4. CASE r.m.kind = "data" /\ EarlyData(r.m)
    <3>1. CASE Cardinality(early) < EarlyItems
      <4>1. early' = early \cup {r.m} /\ UNCHANGED <<alive, client, cand, delivered, net>>
        BY <2>4, <3>1 DEF EarlyData
      <4>2. HandoverTypes' /\ CandidateIsNext'
        BY <1>0, <1>2, <1>3, <4>1 DEF HandoverTypes, CandidateIsNext
      <4>3. r.m.epoch = cand.epoch /\ Committed(r.m)
        BY <1>3, <1>6, <2>4 DEF Tagged
      <4>4. Additions
        BY <1>0, <1>2, <2>1, <4>1, <4>3 DEF Additions, DataIsCommitted
      <4> QED
        BY <1>2, <4>1, <4>2, <4>4, NobodyMoves
    <3>2. CASE ~(Cardinality(early) < EarlyItems)
      BY <2>3, <2>4, <3>2 DEF EarlyData
    <3> QED
      BY <3>1, <3>2
  <2>5. CASE AcceptChallenge(r.m)
    <3> DEFINE up == Up("response", cand.epoch, cand.id, r.m.token)
    <3>1. /\ cand' = [cand EXCEPT !.phase = "commit", !.token = r.m.token, !.sent = @ + 1]
          /\ net' \in Sent(net, up) /\ UNCHANGED <<alive, client, early, delivered>>
      BY <2>5 DEF AcceptChallenge
    <3>2. r.m.token \in Nat
      BY <1>3 DEF Datagram
    <3>3. cand' \in ClientCandidate /\ cand'.id = cand.id /\ cand'.epoch = cand.epoch
      <4> DEFINE reply == [cand EXCEPT !.phase = "commit", !.token = r.m.token, !.sent = cand.sent + 1]
      <4>1. cand' = reply
        BY <3>1
      <4>2. cand.sent \in Nat /\ cand.sent + 1 \in Nat
        BY <2>2 DEF ClientCandidate
      <4>3. reply \in ClientCandidate /\ reply.id = cand.id /\ reply.epoch = cand.epoch
        BY <2>2, <3>2, <4>2 DEF ClientCandidate
      <4> QED
        BY <4>1, <4>3
    <3>4. /\ up \in Datagram /\ up.to = "server" /\ up.mid = cand.id /\ up.path = cand.id
          /\ up.epoch = cand.epoch
      BY <2>2, <3>2 DEF Up, Datagram
    <3>5. net' \subseteq net \cup {up}
      BY <3>1, Transmission
    <3> HIDE DEF up
    <3>6. HandoverTypes'
      BY <1>0, <1>2, <3>1, <3>3, <3>4, <3>5 DEF HandoverTypes
    <3>7. CandidateIsNext'
      BY <1>0, <1>2, <2>1, <2>2, <3>1, <3>3 DEF CandidateIsNext
    <3>8. Genuine(up)
      BY <1>3, <2>2, <3>4 DEF Genuine
    <3>9. cand' # NoCandidate
      BY <3>3, CandidatesDiffer
    <3>10. Additions
      BY <1>0, <1>2, <3>1, <3>3, <3>5, <3>8, <3>9 DEF Additions, DataIsCommitted
    <3> QED
      BY <1>2, <3>1, <3>6, <3>7, <3>10, NobodyMoves
  <2>6. CASE AcceptCommit(r.m)
    <3>1. CASE Publish /\ cand' = NoCandidate /\ early' = {} /\ UNCHANGED alive
      BY <1>2, <2>1, <2>6, <3>1, ClientMoves DEF AcceptCommit, serverVars
    <3>2. CASE alive' = FALSE /\ cand' = NoCandidate /\ early' = {} /\ UNCHANGED <<client, delivered>>
      BY <2>3, <2>6, <3>2 DEF AcceptCommit
    <3> QED
      BY <2>6, <3>1, <3>2 DEF AcceptCommit
  <2> QED
    BY <1>4, <1>6, <2>4, <2>5, <2>6 DEF CandidateDatagram
<1> QED
  BY <1>1, <1>4, <1>5, <1>6

-----------------------------------------------------------------------------
\* Client and server never disagree on the path of an epoch, are at most one move
\* apart, and downlink data reaches the TUN only from a path both have committed,
\* whatever is lost, delayed or reordered, however candidates supersede each other
\* and whatever times out, for any number of paths, retries and datagrams.
THEOREM HandoverAgreement == Spec => []HandoverStaysAgreed
<1>1. Init => HandoverInv
  BY HandoverInit
<1>2. HandoverInv /\ [Next]_vars => HandoverInv'
  <2> SUFFICES ASSUME HandoverInv, [Next]_vars PROVE HandoverInv'
    OBVIOUS
  <2>1. CASE \/ PathUpdate \/ Supersede \/ GiveUp \/ DrainEnds \/ ReceiveTimeout \/ CarrierFails
             \/ GraceEnds \/ RecoveryEnds \/ ServerExpires \/ ServerForgets \/ Lose
             \/ UNCHANGED vars
    BY <2>1, IdleStep
  <2>2. CASE BeginCandidate \/ Retransmit
    BY <2>2, RequestStep
  <2>3. CASE Pump
    BY <2>3, PumpStep
  <2>4. CASE Receive
    BY <2>4, ReceiveStep
  <2>5. CASE ServerReceive
    BY <2>5, ObserveStep, ResponseStep DEF ServerReceive
  <2>6. CASE ServerSends
    BY <2>6, DownlinkStep
  <2> QED
    BY <2>1, <2>2, <2>3, <2>4, <2>5, <2>6 DEF Next
<1>3. HandoverInv => HandoverStaysAgreed
  <2> SUFFICES ASSUME HandoverInv PROVE HandoverStaysAgreed
    OBVIOUS
  <2>1. HandoverTypes /\ HistoryIsOrdered /\ DataIsCommitted
    BY DEF HandoverInv
  <2>2. client.epoch \in Nat /\ server.epoch \in Nat
    BY <2>1 DEF HandoverTypes
  <2>3. PathsAgree /\ EpochsStayClose
    BY <2>1, <2>2 DEF PathsAgree, EpochsStayClose, HistoryIsOrdered
  <2>4. DeliveredOnCommittedPath
    BY <2>1 DEF DeliveredOnCommittedPath, DataIsCommitted, Committed
  <2> QED
    BY <2>3, <2>4 DEF HandoverStaysAgreed
<1> QED
  BY <1>1, <1>2, <1>3, PTL DEF Spec

-----------------------------------------------------------------------------
(* The resume of a TCP session.                                            *)

\* Slots are numbered from 0, carriers from 1, and the primary is the first.
ResumeConstants ==
  /\ 0 \in Slot /\ 1 \in Transport /\ Transport \subseteq Nat \ {0}
  /\ MaxStreams \in Nat /\ MaxEpoch \in Nat /\ MaxOrphans \in Nat

Ended == trLife \in {"closing", "revoked"}
Holders == {"reserved", "prepared", "aborting"}

\* The generation counter is ahead of every reservation and ticket.
GenerationsAreFresh ==
  /\ IsFiniteSet(trAttached)
  /\ trResv.gen <= trGen /\ \A t \in Transport : trMine[t].gen <= trGen

\* A ticket exists only while no carrier is ready and somebody will look at it:
\* its reaper, or the resume that holds the session past its deadline.
TicketIsWatched ==
  /\ trTicket # 0 => trLife \in {"orphaned", "resuming"} /\ \A k \in Slot : trReady[k] = 0
  /\ trLife = "orphaned" => trTicket # 0 /\ trTicket \in trArmed
  /\ trLife = "resuming" /\ trTicket # 0 => trTicket \in trArmed \cup trDue

\* Whoever removes the session from the map comes after its end.
EndComesFirst ==
  /\ \A t \in Transport : trPhase[t] = "teardown" => Ended
  /\ "finalize" \in trPending => Ended

\* A reservation is held by one task and its slot drains nothing.
ReservationIsHeld ==
  /\ trLife = "resuming" =>
       /\ trDraining[trResv.slot] = 0
       /\ \E t \in Transport : trPhase[t] \in Holders /\ trMine[t] = trResv
  /\ \A t, u \in Transport :
       trPhase[t] \in Holders /\ trPhase[u] \in Holders /\ trMine[t].gen = trMine[u].gen => t = u

\* The primary carrier is committed from the start, a committed candidate is on its
\* slot until it activates, and only live carriers are scheduled.
CarriersAreCommitted ==
  /\ trPhase[1] = "primary" => Ended \/ (trLife = "active" /\ trReady[0] = 1)
  /\ \A t \in Transport : trPhase[t] = "activating" =>
       Ended \/ trReady[trMine[t].slot] = t \/ trDraining[trMine[t].slot] = t
  /\ \A t \in trScheduled : trPhase[t] = "live"

ResumeInv ==
  /\ TR!TypeOK /\ GenerationsAreFresh /\ TicketIsWatched /\ EndComesFirst
  /\ ReservationIsHeld /\ CarriersAreCommitted
  /\ TR!OrphansAreCounted /\ TR!ResumableIsMapped /\ TR!ScheduledIsCommitted

\* TcpRoaming's cardinality is the one of the theorems about finite sets.
LEMMA ResumeCardinality == \A S : TR!Cardinality(S) = Cardinality(S)
BY DEF TR!Cardinality, Cardinality

\* The list of streams is finite and has room for one candidate above the limit.
LEMMA StreamsStep ==
  ASSUME ResumeConstants, ResumeInv, TR!Next
  PROVE  IsFiniteSet(trAttached') /\ Cardinality(trAttached') <= MaxStreams + 1
<1>0. IsFiniteSet(trAttached) /\ Cardinality(trAttached) <= MaxStreams + 1 /\ MaxStreams \in Nat
  BY ResumeCardinality DEF ResumeInv, GenerationsAreFresh, TR!TypeOK, ResumeConstants
<1>1. \/ trAttached' \subseteq trAttached \/ trAttached' = {1}
      \/ \E t \in Transport : trAttached' = trAttached \cup {t}
                             /\ ~(Cardinality(trAttached) >= MaxStreams + 1)
  BY ResumeCardinality
  DEF TR!Next, TR!AttachPrimary, TR!Finalize, TR!Kick, TR!Violate, TR!CloseAll,
     TR!RoamingRevoke, TR!RoamingClose, TR!Lookup, TR!Refuse, TR!Prepare, TR!PrepareFails,
     TR!Abort, TR!Commit, TR!CommitRefused, TR!Activate, TR!Leave, TR!DetachTerminal,
     TR!DetachOne, TR!DetachOrphans, TR!DetachLimited, TR!Teardown, TR!BeginResume,
     TR!Expire, TR!Reap
<1>2. CASE trAttached' \subseteq trAttached
  <2>1. IsFiniteSet(trAttached') /\ Cardinality(trAttached') <= Cardinality(trAttached)
    BY <1>0, <1>2, FS_Subset
  <2>2. Cardinality(trAttached') \in Nat /\ Cardinality(trAttached) \in Nat
    BY <1>0, <2>1, FS_CardinalityType
  <2> QED
    BY <1>0, <2>1, <2>2
<1>3. CASE trAttached' = {1}
  <2>1. IsFiniteSet({1}) /\ Cardinality({1}) = 1
    BY FS_Singleton
  <2> QED
    BY <1>0, <1>3, <2>1
<1>4. ASSUME NEW t \in Transport, trAttached' = trAttached \cup {t},
             ~(Cardinality(trAttached) >= MaxStreams + 1)
      PROVE  IsFiniteSet(trAttached') /\ Cardinality(trAttached') <= MaxStreams + 1
  <2>1. Cardinality(trAttached) \in Nat
    BY <1>0, FS_CardinalityType
  <2>2. /\ IsFiniteSet(trAttached')
        /\ Cardinality(trAttached') = Cardinality(trAttached) \/ Cardinality(trAttached') = Cardinality(trAttached) + 1
    BY <1>0, <1>4, FS_AddElement
  <2> QED
    BY <1>0, <1>4, <2>1, <2>2
<1> QED
  BY <1>1, <1>2, <1>3, <1>4

\* Every step keeps the types, and no generation is handed out twice.
LEMMA CountersStep ==
  ASSUME ResumeConstants, ResumeInv, TR!Next
  PROVE  (TR!TypeOK /\ GenerationsAreFresh)'
<1>0. IsFiniteSet(trAttached') /\ TR!Cardinality(trAttached') <= MaxStreams + 1
  BY StreamsStep, ResumeCardinality
<1> USE DEF ResumeInv, ResumeConstants, TR!lifecycle, TR!None, TR!TypeOK, TR!Phases,
         GenerationsAreFresh
<1>1. CASE TR!AttachPrimary
  <2>1. CASE trRevoked \/ trClosing
    BY <1>0, <1>1, <2>1 DEF TR!AttachPrimary, TR!Go
  <2>2. CASE ~(trRevoked \/ trClosing)
    BY <1>0, <1>1, <2>2 DEF TR!AttachPrimary, TR!Go
  <2> QED
    BY <2>1, <2>2
<1>2. CASE TR!Finalize
  BY <1>0, <1>2 DEF TR!Finalize
<1>3. CASE TR!Kick
  BY <1>0, <1>3 DEF TR!Kick
<1>4. CASE TR!Violate
  BY <1>0, <1>4 DEF TR!Violate
<1>5. CASE TR!CloseAll
  BY <1>0, <1>5 DEF TR!CloseAll
<1>6. CASE TR!RoamingRevoke
  BY <1>0, <1>6 DEF TR!RoamingRevoke, TR!Terminal, TR!NoResv
<1>7. CASE TR!RoamingClose
  BY <1>0, <1>7 DEF TR!RoamingClose, TR!Terminal, TR!NoResv
<1>8. ASSUME NEW t \in Transport, TR!Lookup(t) PROVE (TR!TypeOK /\ GenerationsAreFresh)'
  BY <1>0, <1>8 DEF TR!Lookup, TR!Go
<1>9. ASSUME NEW t \in Transport, TR!Refuse(t) PROVE (TR!TypeOK /\ GenerationsAreFresh)'
  BY <1>0, <1>9 DEF TR!Refuse, TR!Go
<1>10. ASSUME NEW t \in Transport, TR!Prepare(t) PROVE (TR!TypeOK /\ GenerationsAreFresh)'
  <2> DEFINE refused == trRevoked \/ trClosing \/ TR!Cardinality(trAttached) >= MaxStreams + 1
  <2>1. CASE refused
    BY <1>0, <1>10, <2>1 DEF TR!Prepare, TR!Go
  <2>2. CASE ~refused
    <3>1. /\ trAttached' = trAttached \cup {t} /\ trPhase' = [trPhase EXCEPT ![t] = "prepared"]
          /\ UNCHANGED <<trLife, trTicket, trGen, trEpoch, trResv, trReady, trDraining, trCounted, trOthers,
                         trArmed, trDue, trScheduled, trRevoked, trClosing, trInMap, trMine, trWasLast, trPending>>
      BY <1>10, <2>2 DEF TR!Prepare, TR!Go
    <3>2. trAttached' \subseteq Transport /\ trScheduled' \subseteq trAttached'
      BY <3>1
    <3>3. trPhase' \in [Transport -> TR!Phases]
      BY <3>1
    <3> QED
      BY <1>0, <3>1, <3>2, <3>3
  <2> QED
    BY <2>1, <2>2
<1>11. ASSUME NEW t \in Transport, TR!PrepareFails(t) PROVE (TR!TypeOK /\ GenerationsAreFresh)'
  BY <1>0, <1>11 DEF TR!PrepareFails, TR!Go
<1>12. ASSUME NEW t \in Transport, TR!Abort(t) PROVE (TR!TypeOK /\ GenerationsAreFresh)'
  BY <1>0, <1>12 DEF TR!Abort, TR!Go, TR!HoldsReservation, TR!NoResv
<1>13. ASSUME NEW t \in Transport, TR!Commit(t) PROVE (TR!TypeOK /\ GenerationsAreFresh)'
  BY <1>0, <1>13 DEF TR!Commit, TR!Go, TR!HoldsReservation, TR!NoResv
<1>14. ASSUME NEW t \in Transport, TR!CommitRefused(t) PROVE (TR!TypeOK /\ GenerationsAreFresh)'
  BY <1>0, <1>14 DEF TR!CommitRefused, TR!Go, TR!HoldsReservation
<1>15. ASSUME NEW t \in Transport, TR!Activate(t) PROVE (TR!TypeOK /\ GenerationsAreFresh)'
  BY <1>0, <1>15 DEF TR!Activate, TR!Go
<1>16. ASSUME NEW t \in Transport, TR!Leave(t) PROVE (TR!TypeOK /\ GenerationsAreFresh)'
  BY <1>0, <1>16 DEF TR!Leave, TR!Go
<1>17. ASSUME NEW t \in Transport, TR!DetachTerminal(t)
       PROVE  (TR!TypeOK /\ GenerationsAreFresh)'
  BY <1>0, <1>17 DEF TR!DetachTerminal, TR!Go, TR!Terminal, TR!NoResv
<1>18. ASSUME NEW t \in Transport, TR!DetachOne(t) PROVE (TR!TypeOK /\ GenerationsAreFresh)'
  BY <1>0, <1>18 DEF TR!DetachOne, TR!Go, TR!Lost, TR!LastReady, TR!Without, TR!Undrained, TR!ReadyStreams
<1>19. ASSUME NEW t \in Transport, TR!DetachOrphans(t) PROVE (TR!TypeOK /\ GenerationsAreFresh)'
  BY <1>0, <1>19 DEF TR!DetachOrphans, TR!Go, TR!Lost, TR!LastReady, TR!Without, TR!ReadyStreams
<1>20. ASSUME NEW t \in Transport, TR!DetachLimited(t) PROVE (TR!TypeOK /\ GenerationsAreFresh)'
  BY <1>0, <1>20 DEF TR!DetachLimited, TR!Go, TR!Lost, TR!LastReady, TR!Without, TR!NoResv, TR!ReadyStreams
<1>21. ASSUME NEW t \in Transport, TR!Teardown(t) PROVE (TR!TypeOK /\ GenerationsAreFresh)'
  BY <1>0, <1>21 DEF TR!Teardown, TR!Go
<1>22. ASSUME NEW t \in Transport, NEW e \in 1..MaxEpoch, NEW k \in Slot,
             TR!BeginResume(t, e, k)
      PROVE  (TR!TypeOK /\ GenerationsAreFresh)'
  BY <1>0, <1>22 DEF TR!BeginResume, TR!Go
<1>23. ASSUME NEW g \in trArmed, TR!Expire(g) PROVE (TR!TypeOK /\ GenerationsAreFresh)'
  BY <1>0, <1>23 DEF TR!Expire
<1>24. ASSUME NEW g \in trArmed, TR!Reap(g) PROVE (TR!TypeOK /\ GenerationsAreFresh)'
  <2>1. trArmed' \subseteq Nat /\ trCounted' \subseteq Nat /\ trDue' \subseteq Nat /\ trTicket' \in Nat
    BY <1>24 DEF TR!Reap
  <2>2. trPending' \subseteq {"revoke", "close", "finalize"}
    BY <1>24 DEF TR!Reap
  <2>3. trLife' \in {"active", "orphaned", "resuming", "closing", "revoked"}
    BY <1>24 DEF TR!Reap
  <2>4. UNCHANGED <<trGen, trEpoch, trResv, trReady, trDraining, trOthers, trAttached, trScheduled, trRevoked,
                    trClosing, trInMap, trPhase, trMine, trWasLast>>
    BY <1>24 DEF TR!Reap
  <2> QED
    BY <1>0, <2>1, <2>2, <2>3, <2>4
<1> QED
  BY <1>1, <1>2, <1>3, <1>4, <1>5, <1>6, <1>7, <1>8, <1>9, <1>10, <1>11, <1>12, <1>13,
     <1>14, <1>15, <1>16, <1>17, <1>18, <1>19, <1>20, <1>21, <1>22, <1>23, <1>24 DEF TR!Next

\* Every step keeps the orphan's ticket watched and counted exactly once: a resume
\* takes it over as its fallback, a commit or the end gives it back, an abort re-arms it.
LEMMA TicketStep ==
  ASSUME ResumeConstants, ResumeInv, TR!Next
  PROVE  (TicketIsWatched /\ TR!OrphansAreCounted)'
<1> USE DEF ResumeInv, ResumeConstants, TR!lifecycle, TR!None, TR!TypeOK, TicketIsWatched,
         TR!OrphansAreCounted
<1>1. CASE TR!AttachPrimary
  BY <1>1 DEF TR!AttachPrimary, TR!Go
<1>2. CASE TR!Finalize
  BY <1>2 DEF TR!Finalize
<1>3. CASE TR!Kick
  BY <1>3 DEF TR!Kick
<1>4. CASE TR!Violate
  BY <1>4 DEF TR!Violate
<1>5. CASE TR!CloseAll
  BY <1>5 DEF TR!CloseAll
<1>6. CASE TR!RoamingRevoke
  BY <1>6 DEF TR!RoamingRevoke, TR!Terminal, TR!NoResv
<1>7. CASE TR!RoamingClose
  BY <1>7 DEF TR!RoamingClose, TR!Terminal, TR!NoResv
<1>8. ASSUME NEW t \in Transport, TR!Lookup(t) PROVE (TicketIsWatched /\ TR!OrphansAreCounted)'
  BY <1>8 DEF TR!Lookup, TR!Go
<1>9. ASSUME NEW t \in Transport, TR!Refuse(t) PROVE (TicketIsWatched /\ TR!OrphansAreCounted)'
  BY <1>9 DEF TR!Refuse, TR!Go
<1>10. ASSUME NEW t \in Transport, TR!Prepare(t)
       PROVE  (TicketIsWatched /\ TR!OrphansAreCounted)'
  BY <1>10 DEF TR!Prepare, TR!Go
<1>11. ASSUME NEW t \in Transport, TR!PrepareFails(t)
       PROVE  (TicketIsWatched /\ TR!OrphansAreCounted)'
  BY <1>11 DEF TR!PrepareFails, TR!Go
<1>12. ASSUME NEW t \in Transport, TR!Abort(t) PROVE (TicketIsWatched /\ TR!OrphansAreCounted)'
  BY <1>12 DEF TR!Abort, TR!Go, TR!HoldsReservation, TR!NoResv
<1>13. ASSUME NEW t \in Transport, TR!Commit(t) PROVE (TicketIsWatched /\ TR!OrphansAreCounted)'
  BY <1>13 DEF TR!Commit, TR!Go, TR!HoldsReservation, TR!NoResv
<1>14. ASSUME NEW t \in Transport, TR!CommitRefused(t)
       PROVE  (TicketIsWatched /\ TR!OrphansAreCounted)'
  BY <1>14 DEF TR!CommitRefused, TR!Go, TR!HoldsReservation
<1>15. ASSUME NEW t \in Transport, TR!Activate(t)
       PROVE  (TicketIsWatched /\ TR!OrphansAreCounted)'
  BY <1>15 DEF TR!Activate, TR!Go
<1>16. ASSUME NEW t \in Transport, TR!Leave(t) PROVE (TicketIsWatched /\ TR!OrphansAreCounted)'
  BY <1>16 DEF TR!Leave, TR!Go
<1>17. ASSUME NEW t \in Transport, TR!DetachTerminal(t)
       PROVE  (TicketIsWatched /\ TR!OrphansAreCounted)'
  BY <1>17 DEF TR!DetachTerminal, TR!Go, TR!Terminal, TR!NoResv
<1>18. ASSUME NEW t \in Transport, TR!DetachOne(t)
       PROVE  (TicketIsWatched /\ TR!OrphansAreCounted)'
  BY <1>18 DEF TR!DetachOne, TR!Go, TR!Lost, TR!LastReady, TR!Without, TR!Undrained, TR!ReadyStreams
<1>19. ASSUME NEW t \in Transport, TR!DetachOrphans(t)
       PROVE  (TicketIsWatched /\ TR!OrphansAreCounted)'
  BY <1>19 DEF TR!DetachOrphans, TR!Go, TR!Lost, TR!LastReady, TR!Without, TR!ReadyStreams
<1>20. ASSUME NEW t \in Transport, TR!DetachLimited(t)
       PROVE  (TicketIsWatched /\ TR!OrphansAreCounted)'
  BY <1>20 DEF TR!DetachLimited, TR!Go, TR!Lost, TR!LastReady, TR!Without, TR!NoResv, TR!ReadyStreams
<1>21. ASSUME NEW t \in Transport, TR!Teardown(t)
       PROVE  (TicketIsWatched /\ TR!OrphansAreCounted)'
  BY <1>21 DEF TR!Teardown, TR!Go
<1>22. ASSUME NEW t \in Transport, NEW e \in 1..MaxEpoch, NEW k \in Slot,
             TR!BeginResume(t, e, k)
      PROVE  (TicketIsWatched /\ TR!OrphansAreCounted)'
  BY <1>22 DEF TR!BeginResume, TR!Go
<1>23. ASSUME NEW g \in trArmed, TR!Expire(g) PROVE (TicketIsWatched /\ TR!OrphansAreCounted)'
  BY <1>23 DEF TR!Expire
<1>24. ASSUME NEW g \in trArmed, TR!Reap(g) PROVE (TicketIsWatched /\ TR!OrphansAreCounted)'
  BY <1>24 DEF TR!Reap
<1> QED
  BY <1>1, <1>2, <1>3, <1>4, <1>5, <1>6, <1>7, <1>8, <1>9, <1>10, <1>11, <1>12, <1>13,
     <1>14, <1>15, <1>16, <1>17, <1>18, <1>19, <1>20, <1>21, <1>22, <1>23, <1>24 DEF TR!Next

\* Every step leaves a session that can still be resumed in the map: the end of the
\* lifecycle comes before the removal, and a kick announces its revocation.
LEMMA EndStep ==
  ASSUME ResumeConstants, ResumeInv, TR!Next
  PROVE  (EndComesFirst /\ TR!ResumableIsMapped)'
<1> USE DEF ResumeInv, ResumeConstants, TR!lifecycle, TR!None, TR!TypeOK, EndComesFirst,
         Ended, TR!ResumableIsMapped
<1>1. CASE TR!AttachPrimary
  BY <1>1 DEF TR!AttachPrimary, TR!Go
<1>2. CASE TR!Finalize
  BY <1>2 DEF TR!Finalize
<1>3. CASE TR!Kick
  BY <1>3 DEF TR!Kick
<1>4. CASE TR!Violate
  BY <1>4 DEF TR!Violate
<1>5. CASE TR!CloseAll
  BY <1>5 DEF TR!CloseAll
<1>6. CASE TR!RoamingRevoke
  BY <1>6 DEF TR!RoamingRevoke, TR!Terminal, TR!NoResv
<1>7. CASE TR!RoamingClose
  BY <1>7 DEF TR!RoamingClose, TR!Terminal, TR!NoResv
<1>8. ASSUME NEW t \in Transport, TR!Lookup(t) PROVE (EndComesFirst /\ TR!ResumableIsMapped)'
  BY <1>8 DEF TR!Lookup, TR!Go
<1>9. ASSUME NEW t \in Transport, TR!Refuse(t) PROVE (EndComesFirst /\ TR!ResumableIsMapped)'
  BY <1>9 DEF TR!Refuse, TR!Go
<1>10. ASSUME NEW t \in Transport, TR!Prepare(t) PROVE (EndComesFirst /\ TR!ResumableIsMapped)'
  BY <1>10 DEF TR!Prepare, TR!Go
<1>11. ASSUME NEW t \in Transport, TR!PrepareFails(t)
       PROVE  (EndComesFirst /\ TR!ResumableIsMapped)'
  BY <1>11 DEF TR!PrepareFails, TR!Go
<1>12. ASSUME NEW t \in Transport, TR!Abort(t) PROVE (EndComesFirst /\ TR!ResumableIsMapped)'
  BY <1>12 DEF TR!Abort, TR!Go, TR!HoldsReservation, TR!NoResv
<1>13. ASSUME NEW t \in Transport, TR!Commit(t) PROVE (EndComesFirst /\ TR!ResumableIsMapped)'
  BY <1>13 DEF TR!Commit, TR!Go, TR!HoldsReservation, TR!NoResv
<1>14. ASSUME NEW t \in Transport, TR!CommitRefused(t)
       PROVE  (EndComesFirst /\ TR!ResumableIsMapped)'
  BY <1>14 DEF TR!CommitRefused, TR!Go, TR!HoldsReservation
<1>15. ASSUME NEW t \in Transport, TR!Activate(t) PROVE (EndComesFirst /\ TR!ResumableIsMapped)'
  BY <1>15 DEF TR!Activate, TR!Go
<1>16. ASSUME NEW t \in Transport, TR!Leave(t) PROVE (EndComesFirst /\ TR!ResumableIsMapped)'
  BY <1>16 DEF TR!Leave, TR!Go
<1>17. ASSUME NEW t \in Transport, TR!DetachTerminal(t)
       PROVE  (EndComesFirst /\ TR!ResumableIsMapped)'
  BY <1>17 DEF TR!DetachTerminal, TR!Go, TR!Terminal, TR!NoResv
<1>18. ASSUME NEW t \in Transport, TR!DetachOne(t)
       PROVE  (EndComesFirst /\ TR!ResumableIsMapped)'
  BY <1>18 DEF TR!DetachOne, TR!Go, TR!Lost, TR!LastReady, TR!Without, TR!Undrained, TR!ReadyStreams
<1>19. ASSUME NEW t \in Transport, TR!DetachOrphans(t)
       PROVE  (EndComesFirst /\ TR!ResumableIsMapped)'
  BY <1>19 DEF TR!DetachOrphans, TR!Go, TR!Lost, TR!LastReady, TR!Without, TR!ReadyStreams
<1>20. ASSUME NEW t \in Transport, TR!DetachLimited(t)
       PROVE  (EndComesFirst /\ TR!ResumableIsMapped)'
  BY <1>20 DEF TR!DetachLimited, TR!Go, TR!Lost, TR!LastReady, TR!Without, TR!NoResv, TR!ReadyStreams
<1>21. ASSUME NEW t \in Transport, TR!Teardown(t) PROVE (EndComesFirst /\ TR!ResumableIsMapped)'
  BY <1>21 DEF TR!Teardown, TR!Go
<1>22. ASSUME NEW t \in Transport, NEW e \in 1..MaxEpoch, NEW k \in Slot,
             TR!BeginResume(t, e, k)
      PROVE  (EndComesFirst /\ TR!ResumableIsMapped)'
  BY <1>22 DEF TR!BeginResume, TR!Go
<1>23. ASSUME NEW g \in trArmed, TR!Expire(g) PROVE (EndComesFirst /\ TR!ResumableIsMapped)'
  BY <1>23 DEF TR!Expire
<1>24. ASSUME NEW g \in trArmed, TR!Reap(g) PROVE (EndComesFirst /\ TR!ResumableIsMapped)'
  BY <1>24 DEF TR!Reap
<1> QED
  BY <1>1, <1>2, <1>3, <1>4, <1>5, <1>6, <1>7, <1>8, <1>9, <1>10, <1>11, <1>12, <1>13,
     <1>14, <1>15, <1>16, <1>17, <1>18, <1>19, <1>20, <1>21, <1>22, <1>23, <1>24 DEF TR!Next

\* Every step keeps the reservation with the one task that will commit or abort it.
LEMMA HeldStep ==
  ASSUME ResumeConstants, ResumeInv, TR!Next
  PROVE  (ReservationIsHeld)'
<1> USE DEF ResumeInv, ResumeConstants, TR!lifecycle, TR!None, TR!TypeOK, ReservationIsHeld,
         Holders
<1>1. CASE TR!AttachPrimary
  BY <1>1 DEF TR!AttachPrimary, TR!Go
<1>2. CASE TR!Finalize
  BY <1>2 DEF TR!Finalize
<1>3. CASE TR!Kick
  BY <1>3 DEF TR!Kick
<1>4. CASE TR!Violate
  BY <1>4 DEF TR!Violate
<1>5. CASE TR!CloseAll
  BY <1>5 DEF TR!CloseAll
<1>6. CASE TR!RoamingRevoke
  BY <1>6 DEF TR!RoamingRevoke, TR!Terminal, TR!NoResv
<1>7. CASE TR!RoamingClose
  BY <1>7 DEF TR!RoamingClose, TR!Terminal, TR!NoResv
<1>8. ASSUME NEW t \in Transport, TR!Lookup(t) PROVE (ReservationIsHeld)'
  BY <1>8 DEF TR!Lookup, TR!Go
<1>9. ASSUME NEW t \in Transport, TR!Refuse(t) PROVE (ReservationIsHeld)'
  BY <1>9 DEF TR!Refuse, TR!Go
<1>10. ASSUME NEW t \in Transport, TR!Prepare(t) PROVE (ReservationIsHeld)'
  BY <1>10 DEF TR!Prepare, TR!Go
<1>11. ASSUME NEW t \in Transport, TR!PrepareFails(t) PROVE (ReservationIsHeld)'
  BY <1>11 DEF TR!PrepareFails, TR!Go
<1>12. ASSUME NEW t \in Transport, TR!Abort(t) PROVE (ReservationIsHeld)'
  BY <1>12 DEF TR!Abort, TR!Go, TR!HoldsReservation, TR!NoResv
<1>13. ASSUME NEW t \in Transport, TR!Commit(t) PROVE (ReservationIsHeld)'
  BY <1>13 DEF TR!Commit, TR!Go, TR!HoldsReservation, TR!NoResv
<1>14. ASSUME NEW t \in Transport, TR!CommitRefused(t) PROVE (ReservationIsHeld)'
  BY <1>14 DEF TR!CommitRefused, TR!Go, TR!HoldsReservation
<1>15. ASSUME NEW t \in Transport, TR!Activate(t) PROVE (ReservationIsHeld)'
  BY <1>15 DEF TR!Activate, TR!Go
<1>16. ASSUME NEW t \in Transport, TR!Leave(t) PROVE (ReservationIsHeld)'
  BY <1>16 DEF TR!Leave, TR!Go
<1>17. ASSUME NEW t \in Transport, TR!DetachTerminal(t) PROVE (ReservationIsHeld)'
  BY <1>17 DEF TR!DetachTerminal, TR!Go, TR!Terminal, TR!NoResv
<1>18. ASSUME NEW t \in Transport, TR!DetachOne(t) PROVE (ReservationIsHeld)'
  BY <1>18 DEF TR!DetachOne, TR!Go, TR!Lost, TR!LastReady, TR!Without, TR!Undrained, TR!ReadyStreams
<1>19. ASSUME NEW t \in Transport, TR!DetachOrphans(t) PROVE (ReservationIsHeld)'
  BY <1>19 DEF TR!DetachOrphans, TR!Go, TR!Lost, TR!LastReady, TR!Without, TR!ReadyStreams
<1>20. ASSUME NEW t \in Transport, TR!DetachLimited(t) PROVE (ReservationIsHeld)'
  BY <1>20 DEF TR!DetachLimited, TR!Go, TR!Lost, TR!LastReady, TR!Without, TR!NoResv, TR!ReadyStreams
<1>21. ASSUME NEW t \in Transport, TR!Teardown(t) PROVE (ReservationIsHeld)'
  BY <1>21 DEF TR!Teardown, TR!Go
<1>22. ASSUME NEW t \in Transport, NEW e \in 1..MaxEpoch, NEW k \in Slot,
             TR!BeginResume(t, e, k)
      PROVE  (ReservationIsHeld)'
  <2>1. /\ trPhase' = [trPhase EXCEPT ![t] = "reserved"] /\ trPhase[t] = "found"
        /\ trMine' = [trMine EXCEPT ![t] = trResv'] /\ trResv' = [gen |-> trGen + 1, slot |-> k]
        /\ trDraining' = trDraining /\ trDraining[k] = 0
    BY <1>22 DEF TR!BeginResume, TR!Go
  <2>2. /\ trPhase'[t] = "reserved" /\ trMine'[t] = trResv' /\ trMine'[t].gen = trGen + 1
        /\ \A u \in Transport \ {t} : trPhase'[u] = trPhase[u] /\ trMine'[u] = trMine[u]
    BY <2>1
  <2>3. \A u \in Transport \ {t} : trMine'[u].gen # trMine'[t].gen
    BY <2>2 DEF GenerationsAreFresh
  <2> QED
    BY <2>1, <2>2, <2>3
<1>23. ASSUME NEW g \in trArmed, TR!Expire(g) PROVE (ReservationIsHeld)'
  BY <1>23 DEF TR!Expire
<1>24. ASSUME NEW g \in trArmed, TR!Reap(g) PROVE (ReservationIsHeld)'
  BY <1>24 DEF TR!Reap
<1> QED
  BY <1>1, <1>2, <1>3, <1>4, <1>5, <1>6, <1>7, <1>8, <1>9, <1>10, <1>11, <1>12, <1>13,
     <1>14, <1>15, <1>16, <1>17, <1>18, <1>19, <1>20, <1>21, <1>22, <1>23, <1>24 DEF TR!Next

\* Every step leaves downlink data to committed carriers: a commit moves the slot's
\* carrier to the drain, an activation takes it off the schedule.
LEMMA CarriersStep ==
  ASSUME ResumeConstants, ResumeInv, TR!Next
  PROVE  (CarriersAreCommitted /\ TR!ScheduledIsCommitted)'
<1> USE DEF ResumeInv, ResumeConstants, TR!lifecycle, TR!None, TR!TypeOK,
         CarriersAreCommitted, TR!ScheduledIsCommitted, ReservationIsHeld, Ended
<1>1. CASE TR!AttachPrimary
  <2>1. CASE trRevoked \/ trClosing
    <3>1. trPhase' = [trPhase EXCEPT ![1] = "done"] /\ trPhase[1] = "primary"
      BY <1>1, <2>1 DEF TR!AttachPrimary, TR!Go
    <3>2. UNCHANGED <<trLife, trReady, trDraining, trMine, trRevoked, trClosing, trScheduled>>
      BY <1>1, <2>1 DEF TR!AttachPrimary
    <3>3. CarriersAreCommitted'
      BY <3>1, <3>2
    <3>4. TR!ScheduledIsCommitted'
      BY <2>1, <3>2
    <3> QED
      BY <3>3, <3>4
  <2>2. CASE ~(trRevoked \/ trClosing)
    <3>1. trScheduled' = {1} /\ trPhase' = [trPhase EXCEPT ![1] = "live"] /\ trPhase[1] = "primary"
      BY <1>1, <2>2 DEF TR!AttachPrimary, TR!Go
    <3>2. UNCHANGED <<trLife, trReady, trDraining, trMine, trRevoked, trClosing>>
      BY <1>1 DEF TR!AttachPrimary
    <3>3. CarriersAreCommitted'
      BY <3>1, <3>2
    <3>4. TR!ScheduledIsCommitted'
      BY <3>1, <3>2
    <3> QED
      BY <3>3, <3>4
  <2> QED
    BY <2>1, <2>2
<1>2. CASE TR!Finalize
  BY <1>2 DEF TR!Finalize
<1>3. CASE TR!Kick
  BY <1>3 DEF TR!Kick
<1>4. CASE TR!Violate
  BY <1>4 DEF TR!Violate
<1>5. CASE TR!CloseAll
  BY <1>5 DEF TR!CloseAll
<1>6. CASE TR!RoamingRevoke
  BY <1>6 DEF TR!RoamingRevoke, TR!Terminal, TR!NoResv
<1>7. CASE TR!RoamingClose
  BY <1>7 DEF TR!RoamingClose, TR!Terminal, TR!NoResv
<1>8. ASSUME NEW t \in Transport, TR!Lookup(t)
      PROVE  (CarriersAreCommitted /\ TR!ScheduledIsCommitted)'
  BY <1>8 DEF TR!Lookup, TR!Go
<1>9. ASSUME NEW t \in Transport, TR!Refuse(t)
      PROVE  (CarriersAreCommitted /\ TR!ScheduledIsCommitted)'
  BY <1>9 DEF TR!Refuse, TR!Go
<1>10. ASSUME NEW t \in Transport, TR!Prepare(t)
       PROVE  (CarriersAreCommitted /\ TR!ScheduledIsCommitted)'
  BY <1>10 DEF TR!Prepare, TR!Go
<1>11. ASSUME NEW t \in Transport, TR!PrepareFails(t)
       PROVE  (CarriersAreCommitted /\ TR!ScheduledIsCommitted)'
  BY <1>11 DEF TR!PrepareFails, TR!Go
<1>12. ASSUME NEW t \in Transport, TR!Abort(t)
       PROVE  (CarriersAreCommitted /\ TR!ScheduledIsCommitted)'
  BY <1>12 DEF TR!Abort, TR!Go, TR!HoldsReservation, TR!NoResv
<1>13. ASSUME NEW t \in Transport, TR!Commit(t)
       PROVE  (CarriersAreCommitted /\ TR!ScheduledIsCommitted)'
  BY <1>13 DEF TR!Commit, TR!Go, TR!HoldsReservation, TR!NoResv
<1>14. ASSUME NEW t \in Transport, TR!CommitRefused(t)
       PROVE  (CarriersAreCommitted /\ TR!ScheduledIsCommitted)'
  BY <1>14 DEF TR!CommitRefused, TR!Go, TR!HoldsReservation
<1>15. ASSUME NEW t \in Transport, TR!Activate(t)
       PROVE  (CarriersAreCommitted /\ TR!ScheduledIsCommitted)'
  BY <1>15 DEF TR!Activate, TR!Go
<1>16. ASSUME NEW t \in Transport, TR!Leave(t)
       PROVE  (CarriersAreCommitted /\ TR!ScheduledIsCommitted)'
  BY <1>16 DEF TR!Leave, TR!Go
<1>17. ASSUME NEW t \in Transport, TR!DetachTerminal(t)
       PROVE  (CarriersAreCommitted /\ TR!ScheduledIsCommitted)'
  BY <1>17 DEF TR!DetachTerminal, TR!Go, TR!Terminal, TR!NoResv
<1>18. ASSUME NEW t \in Transport, TR!DetachOne(t)
       PROVE  (CarriersAreCommitted /\ TR!ScheduledIsCommitted)'
  BY <1>18 DEF TR!DetachOne, TR!Go, TR!Lost, TR!LastReady, TR!Without, TR!Undrained, TR!ReadyStreams
<1>19. ASSUME NEW t \in Transport, TR!DetachOrphans(t)
       PROVE  (CarriersAreCommitted /\ TR!ScheduledIsCommitted)'
  BY <1>19 DEF TR!DetachOrphans, TR!Go, TR!Lost, TR!LastReady, TR!Without, TR!ReadyStreams
<1>20. ASSUME NEW t \in Transport, TR!DetachLimited(t)
       PROVE  (CarriersAreCommitted /\ TR!ScheduledIsCommitted)'
  BY <1>20 DEF TR!DetachLimited, TR!Go, TR!Lost, TR!LastReady, TR!Without, TR!NoResv, TR!ReadyStreams
<1>21. ASSUME NEW t \in Transport, TR!Teardown(t)
       PROVE  (CarriersAreCommitted /\ TR!ScheduledIsCommitted)'
  BY <1>21 DEF TR!Teardown, TR!Go
<1>22. ASSUME NEW t \in Transport, NEW e \in 1..MaxEpoch, NEW k \in Slot,
             TR!BeginResume(t, e, k)
      PROVE  (CarriersAreCommitted /\ TR!ScheduledIsCommitted)'
  BY <1>22 DEF TR!BeginResume, TR!Go
<1>23. ASSUME NEW g \in trArmed, TR!Expire(g)
       PROVE  (CarriersAreCommitted /\ TR!ScheduledIsCommitted)'
  BY <1>23 DEF TR!Expire
<1>24. ASSUME NEW g \in trArmed, TR!Reap(g)
       PROVE  (CarriersAreCommitted /\ TR!ScheduledIsCommitted)'
  BY <1>24 DEF TR!Reap
<1> QED
  BY <1>1, <1>2, <1>3, <1>4, <1>5, <1>6, <1>7, <1>8, <1>9, <1>10, <1>11, <1>12, <1>13,
     <1>14, <1>15, <1>16, <1>17, <1>18, <1>19, <1>20, <1>21, <1>22, <1>23, <1>24 DEF TR!Next

\* A session starts with its primary carrier on slot 0 and no ticket.
LEMMA ResumeInit == ASSUME ResumeConstants, TR!Init PROVE ResumeInv
<1>1. IsFiniteSet({}) /\ Cardinality({}) = 0
  BY FS_EmptySet
<1>2. IsFiniteSet(trAttached) /\ TR!Cardinality(trAttached) <= MaxStreams + 1
  BY <1>1, ResumeCardinality DEF TR!Init, ResumeConstants
<1>3. /\ trReady \in [Slot -> Transport \cup {0}] /\ trDraining \in [Slot -> Transport \cup {0}]
      /\ trPhase \in [Transport -> TR!Phases] /\ trWasLast \in [Transport -> BOOLEAN]
  BY DEF TR!Init, TR!None, TR!Phases, ResumeConstants
<1>4. /\ trResv \in [gen : Nat, slot : Slot] /\ trMine \in [Transport -> [gen : Nat, slot : Slot]]
      /\ trGen = 1 /\ trResv.gen = 0 /\ \A t \in Transport : trMine[t].gen = 0
  BY DEF TR!Init, TR!NoResv, TR!None, ResumeConstants
<1>5. /\ trOthers \in Nat /\ trTicket = 0 /\ trEpoch = 0 /\ {trRevoked, trClosing, trInMap} \subseteq BOOLEAN
      /\ trScheduled = {} /\ trAttached = {} /\ trPending = {} /\ trLife = "active"
      /\ trCounted = {} /\ trArmed = {} /\ trDue = {}
  <2>1. trOthers \in Nat
    BY DEF TR!Init, ResumeConstants
  <2>2. {trRevoked, trClosing, trInMap} \subseteq BOOLEAN
    BY Zenon DEF TR!Init
  <2> QED
    BY <2>1, <2>2 DEF TR!Init, TR!None
<1>6. TR!TypeOK /\ GenerationsAreFresh
  BY <1>2, <1>3, <1>4, <1>5 DEF TR!None, TR!TypeOK, GenerationsAreFresh
<1>7. TicketIsWatched /\ EndComesFirst /\ TR!OrphansAreCounted /\ TR!ResumableIsMapped
  BY DEF TR!Init, TR!NoResv, TR!None, TicketIsWatched, EndComesFirst, TR!OrphansAreCounted,
     TR!ResumableIsMapped, ResumeConstants
<1>8. ReservationIsHeld /\ CarriersAreCommitted /\ TR!ScheduledIsCommitted
  BY DEF TR!Init, TR!NoResv, TR!None, ReservationIsHeld, Holders, CarriersAreCommitted,
     TR!ScheduledIsCommitted, ResumeConstants
<1> QED
  BY <1>6, <1>7, <1>8 DEF ResumeInv

\* A step of another part of the system changes nothing here.
LEMMA ResumeStutter == ASSUME ResumeInv, UNCHANGED TR!vars PROVE ResumeInv'
BY DEF TR!vars, ResumeInv, TR!TypeOK, GenerationsAreFresh, TicketIsWatched, EndComesFirst,
   ReservationIsHeld, CarriersAreCommitted, Ended, TR!OrphansAreCounted, TR!ResumableIsMapped,
   TR!ScheduledIsCommitted

\* The holder of a reservation is exactly one task.
LEMMA OneHolder == ASSUME ResumeInv PROVE TR!ReservationHasOwner
<1> DEFINE holding == {t \in Transport : trMine[t] = trResv /\ trPhase[t] \in Holders}
<1>1. SUFFICES ASSUME trLife = "resuming" PROVE TR!Cardinality(holding) = 1
  BY DEF TR!ReservationHasOwner, Holders
<1>2. PICK t \in Transport : trPhase[t] \in Holders /\ trMine[t] = trResv
  BY <1>1 DEF ResumeInv, ReservationIsHeld
<1>3. holding = {t}
  BY <1>2 DEF ResumeInv, ReservationIsHeld
<1> QED
  BY <1>3, FS_Singleton, ResumeCardinality

\* Whatever commits, aborts, reapers, kicks and closes race: the orphan limiter counts
\* exactly the ticket the session holds, an orphan has a reaper for that ticket, a session
\* that can be resumed is in the map, a reservation has one owner, and only committed
\* carriers are scheduled, for any number of slots, carriers, epochs and orphans.
THEOREM ResumesAccounted ==
  ASSUME ResumeConstants PROVE AnySpec => []ResumesAreAccountedFor
<1>1. StartAll => ResumeInv
  BY ResumeInit DEF StartAll
<1>2. ResumeInv /\ [StepOne]_allVars => ResumeInv'
  <2>1. ASSUME ResumeInv, TR!Next PROVE ResumeInv'
    BY <2>1, CountersStep, TicketStep, EndStep, HeldStep, CarriersStep DEF ResumeInv
  <2>2. [StepOne]_allVars => [TR!Next]_TR!vars
    BY DEF StepOne, allVars, trVars, TR!vars
  <2> QED
    BY <2>1, <2>2, ResumeStutter
<1>3. ResumeInv => ResumesAreAccountedFor
  BY OneHolder DEF ResumeInv, ResumesAreAccountedFor, TR!ResumesAreAccountedFor, TicketIsWatched, TR!OrphanHasReaper
<1> QED
  BY <1>1, <1>2, <1>3, PTL DEF AnySpec

-----------------------------------------------------------------------------
(* The UDP registry (UdpRoamingServer). The AUTH task's lease keeps its    *)
(* half-open entry, so a live session has exactly one registration, with   *)
(* an entry or with a task (OneRegistration), and every entry has the      *)
(* generation, epoch and path of its session (EntriesAreFiled). A          *)
(* challenge names the path and the epoch of the candidate with its token  *)
(* as long as that candidate lasts (ChallengesAgree, HandAgrees): a        *)
(* response that proves a candidate was challenged on the path it moves    *)
(* to.                                                                     *)

\* What the registry, the directory and the ingress hold.
Number == Nat \ {0}
PathCandidate(b) == [id : Number, path : b.addresses, epoch : Nat, old : BOOLEAN]
Session(b) ==
  [gen : Number, epoch : Nat, path : b.addresses,
   cand : {RR(b)!NoCandidate} \cup PathCandidate(b),
   last : {RR(b)!NoCandidate} \cup [id : Number, path : b.addresses]]
PathTicket(b) == [id : Number, gen : Number, sid : b.sids]
SessionEntry(b) ==
  [kind : {"session"}, sid : b.sids, gen : Number, auth : BOOLEAN, epoch : Nat,
   peer : b.addresses, ticket : {RR(b)!NoCandidate} \cup PathTicket(b)]
CidOwner(b) == [sid : b.sids, gen : Number, epoch : Nat]
Routed(b) ==
  [m : [kind : {"init", "response"}, token : Nat], from : b.addresses, sent : Nat,
   at : CidOwner(b)]

RegistryTypes(b) ==
  /\ rsSessions \in [b.sids -> {RR(b)!NoSession} \cup Session(b)]
  /\ rsIndex \in [DOMAIN rsIndex -> CidOwner(b)]
  /\ rsNextGen \in Number /\ rsNextTicket \in Number /\ rsCount \in Int
  /\ rsTotals \in [attempts : Int, commits : Int, failures : Int]

DirectoryTypes(b) ==
  /\ rsDir \in [b.addresses -> {RR(b)!NoEntry, RR(b)!HalfOpen} \cup SessionEntry(b)]
  /\ rsOwners \in [b.sids -> {RR(b)!NoOwner} \cup [gen : Number, address : b.addresses]]
  /\ rsHeld \in [b.addresses ->
                   {RR(b)!Unregistered, RR(b)!Refused} \cup [gen : Number, sid : b.sids]]

IngressTypes(b) ==
  /\ rsMailbox \subseteq Routed(b)
  /\ rsHand \in {RR(b)!Idle}
       \cup [pc : {"init", "response"}, d : Routed(b), owner : b.addresses,
             ticket : {RR(b)!NoCandidate}]
       \cup [pc : {"publish", "challenge"}, d : Routed(b), owner : b.addresses,
             ticket : PathTicket(b)]
  /\ rsChallenges \subseteq [gen : Nat, epoch : Nat, path : b.addresses, token : Nat]

\* Each alias of a live session is indexed for it, and nothing else is.
IndexHolds(b) ==
  /\ \A s \in b.sids : RR(b)!Live(s) =>
       \A n \in RR(b)!Aliases(rsSessions[s].epoch) :
         /\ b.cid[rsSessions[s].gen, n] \in DOMAIN rsIndex
         /\ rsIndex[b.cid[rsSessions[s].gen, n]] = RR(b)!Owner(s, rsSessions[s].gen, n)
  /\ \A c \in DOMAIN rsIndex :
       /\ RR(b)!Live(rsIndex[c].sid) /\ rsSessions[rsIndex[c].sid].gen = rsIndex[c].gen
       /\ rsIndex[c].epoch \in RR(b)!Aliases(rsSessions[rsIndex[c].sid].epoch)
       /\ c = b.cid[rsIndex[c].gen, rsIndex[c].epoch]

\* A session is filed at an address, or an AUTH task there holds its registration.
Files(a, s) == rsDir[a].kind = "session" /\ rsDir[a].sid = s
Holds(a, s) == rsHeld[a].gen # 0 /\ rsHeld[a].sid = s

\* The AUTH task's lease keeps the half-open entry; a live session has one
\* registration, with an entry or with a task.
OneRegistration(b) ==
  /\ \A a \in b.addresses : rsHeld[a] # RR(b)!Unregistered => rsDir[a] = RR(b)!HalfOpen
  /\ \A s \in b.sids : RR(b)!Live(s) => \E a \in b.addresses : Files(a, s) \/ Holds(a, s)
  /\ \A s \in b.sids, a, k \in b.addresses :
       (Files(a, s) \/ Holds(a, s)) /\ (Files(k, s) \/ Holds(k, s)) => a = k

\* An entry or a task has the generation and the path of its session.
EntriesAreFiled(b) ==
  /\ \A a \in b.addresses : rsDir[a].kind = "session" =>
       /\ RR(b)!Live(rsDir[a].sid) /\ rsDir[a].gen = rsSessions[rsDir[a].sid].gen
       /\ rsDir[a].epoch = rsSessions[rsDir[a].sid].epoch
       /\ rsDir[a].peer = a /\ rsSessions[rsDir[a].sid].path = a
  /\ \A a \in b.addresses : rsHeld[a].gen # 0 =>
       /\ RR(b)!Live(rsHeld[a].sid) /\ rsHeld[a].gen = rsSessions[rsHeld[a].sid].gen
       /\ rsSessions[rsHeld[a].sid].epoch = 0 /\ rsSessions[rsHeld[a].sid].path = a
  /\ \A a \in b.addresses : rsDir[a].kind = "session" /\ rsDir[a].auth =>
       rsOwners[rsDir[a].sid] = [gen |-> rsDir[a].gen, address |-> a]

\* A candidate is for the next epoch and has a ticket of its own.
CandidatesAreTheirOwn(b) ==
  /\ \A s \in b.sids : RR(b)!HasCandidate(s) =>
       rsSessions[s].cand.id < rsNextTicket /\ rsSessions[s].cand.epoch = rsSessions[s].epoch + 1
  /\ \A s, t \in b.sids :
       RR(b)!HasCandidate(s) /\ RR(b)!HasCandidate(t)
         /\ rsSessions[s].cand.id = rsSessions[t].cand.id => s = t

\* A challenge names the path and epoch of the candidate with its token.
ChallengesAgree(b) ==
  \A c \in rsChallenges :
    /\ c.token < rsNextTicket
    /\ \A s \in b.sids : RR(b)!HasCandidate(s) /\ rsSessions[s].cand.id = c.token =>
         /\ c.gen = rsSessions[s].gen /\ c.epoch = rsSessions[s].cand.epoch
         /\ c.path = rsSessions[s].cand.path

\* So does the datagram whose candidate is about to be challenged.
HandAgrees(b) ==
  rsHand.pc \in {"publish", "challenge"} =>
    /\ rsHand.ticket.id < rsNextTicket
    /\ \A s \in b.sids : RR(b)!HasCandidate(s) /\ rsSessions[s].cand.id = rsHand.ticket.id =>
         /\ rsHand.ticket.sid = s /\ rsHand.ticket.gen = rsSessions[s].gen
         /\ rsHand.d.at.epoch = rsSessions[s].cand.epoch /\ rsHand.d.from = rsSessions[s].cand.path

\* A response repeats the token of a challenge.
ResponsesAreChallenged(b) ==
  /\ \A d \in rsMailbox : d.m.kind = "response" =>
       \E c \in rsChallenges : c.token = d.m.token
  /\ rsHand.pc = "response" => \E c \in rsChallenges : c.token = rsHand.d.m.token

\* The sessions with a candidate.
Candidates(b) == {s \in b.sids : RR(b)!HasCandidate(s)}

\* Candidates are counted, attempts balance.
CountHolds(b) ==
  /\ rsCount = RR(b)!Cardinality(Candidates(b)) /\ rsCount <= b.maxCandidates
  /\ rsTotals.attempts = rsTotals.commits + rsTotals.failures + rsCount

\* The inductive invariant of the registry.
RegistryInv(b) ==
  /\ RegistryTypes(b) /\ DirectoryTypes(b) /\ IngressTypes(b)
  /\ IndexHolds(b) /\ OneRegistration(b) /\ EntriesAreFiled(b)
  /\ CandidatesAreTheirOwn(b) /\ ChallengesAgree(b) /\ HandAgrees(b) /\ ResponsesAreChallenged(b)
  /\ RR(b)!MovesAreValidated /\ CountHolds(b)

\* The registry's cardinality is the one of the theorems about finite sets.
LEMMA RegistryCardinality == \A b, S : RR(b)!Cardinality(S) = Cardinality(S)
BY DEF RR!Cardinality, Cardinality

\* A session that is live is a record of one, a candidate is not the absence of one.
LEMMA SessionShape ==
  ASSUME NEW b \in Registries, RegistryTypes(b), NEW s \in b.sids
  PROVE  /\ rsSessions[s] \in {RR(b)!NoSession} \cup Session(b)
         /\ RR(b)!Live(s) <=> rsSessions[s] \in Session(b)
         /\ rsSessions[s].gen \in Nat /\ (RR(b)!Live(s) <=> rsSessions[s].gen # 0)
         /\ rsSessions[s].cand \in {RR(b)!NoCandidate} \cup PathCandidate(b)
         /\ RR(b)!HasCandidate(s) <=> rsSessions[s].cand \in PathCandidate(b)
         /\ RR(b)!HasCandidate(s) <=> rsSessions[s].cand # RR(b)!NoCandidate
         /\ RR(b)!HasCandidate(s) => RR(b)!Live(s)
<1>1. rsSessions[s] \in {RR(b)!NoSession} \cup Session(b)
  BY DEF RegistryTypes
<1>2. RR(b)!NoSession.gen = 0 /\ RR(b)!NoSession.cand = RR(b)!NoCandidate
        /\ RR(b)!NoCandidate.id = 0
  BY DEF RR!NoSession, RR!NoCandidate
<1>3. \A r \in Session(b) : r.gen \in Number /\ r.cand \in {RR(b)!NoCandidate} \cup PathCandidate(b)
  BY DEF Session
<1>4. \A c \in PathCandidate(b) : c.id # 0
  BY DEF PathCandidate, Number
<1> QED
  BY <1>1, <1>2, <1>3, <1>4 DEF RR!Live, RR!HasCandidate, Number

\* An entry with a session is a record of one.
LEMMA EntryShape ==
  ASSUME NEW b \in Registries, DirectoryTypes(b), NEW a \in b.addresses
  PROVE  /\ rsDir[a] \in {RR(b)!NoEntry, RR(b)!HalfOpen} \cup SessionEntry(b)
         /\ rsDir[a].kind = "session" <=> rsDir[a] \in SessionEntry(b)
         /\ rsDir[a].kind = "session" => rsDir[a].sid \in b.sids /\ rsDir[a].gen \in Number
         /\ rsDir[a] = RR(b)!NoEntry => rsDir[a].kind = "none"
         /\ rsDir[a] = RR(b)!HalfOpen => rsDir[a].kind = "open"
         /\ rsHeld[a] \in {RR(b)!Unregistered, RR(b)!Refused} \cup [gen : Number, sid : b.sids]
         /\ rsHeld[a].gen # 0 <=> rsHeld[a] \in [gen : Number, sid : b.sids]
         /\ rsHeld[a].gen # 0 => rsHeld[a].sid \in b.sids /\ rsHeld[a] # RR(b)!Unregistered
<1>1. rsDir[a] \in {RR(b)!NoEntry, RR(b)!HalfOpen} \cup SessionEntry(b)
  BY DEF DirectoryTypes
<1>2. RR(b)!NoEntry.kind = "none" /\ RR(b)!HalfOpen.kind = "open"
  BY DEF RR!NoEntry, RR!HalfOpen
<1>3. \A r \in SessionEntry(b) : r.kind = "session" /\ r.sid \in b.sids /\ r.gen \in Number
  BY DEF SessionEntry
<1>4. rsHeld[a] \in {RR(b)!Unregistered, RR(b)!Refused} \cup [gen : Number, sid : b.sids]
  BY DEF DirectoryTypes
<1>5. RR(b)!Unregistered.gen = 0 /\ RR(b)!Refused.gen = 0
  BY DEF RR!Unregistered, RR!Refused
<1>6. \A r \in [gen : Number, sid : b.sids] : r.gen # 0 /\ r.sid \in b.sids
  BY DEF Number
<1> QED
  BY <1>1, <1>2, <1>3, <1>4, <1>5, <1>6

\* A datagram in hand has the fields of its stage.
LEMMA HandShape ==
  ASSUME NEW b \in Registries, IngressTypes(b), rsHand # RR(b)!Idle
  PROVE  /\ rsHand.d \in Routed(b) /\ rsHand.owner \in b.addresses
         /\ rsHand.pc \in {"init", "response", "publish", "challenge"}
         /\ rsHand.pc \in {"init", "response"} =>
              rsHand \in [pc : {"init", "response"}, d : Routed(b), owner : b.addresses,
                        ticket : {RR(b)!NoCandidate}]
         /\ rsHand.pc \in {"publish", "challenge"} =>
              /\ rsHand \in [pc : {"publish", "challenge"}, d : Routed(b), owner : b.addresses,
                           ticket : PathTicket(b)]
              /\ rsHand.ticket \in PathTicket(b) /\ rsHand.ticket.sid \in b.sids
         /\ rsHand.d.at \in CidOwner(b) /\ rsHand.d.at.sid \in b.sids
              /\ rsHand.d.from \in b.addresses
<1>1. \/ rsHand \in [pc : {"init", "response"}, d : Routed(b), owner : b.addresses,
                   ticket : {RR(b)!NoCandidate}]
      \/ rsHand \in [pc : {"publish", "challenge"}, d : Routed(b), owner : b.addresses,
                   ticket : PathTicket(b)]
  BY DEF IngressTypes
<1>2. rsHand.d \in Routed(b) /\ rsHand.owner \in b.addresses
  BY <1>1
<1>3. rsHand.d.at \in CidOwner(b) /\ rsHand.d.at.sid \in b.sids /\ rsHand.d.from \in b.addresses
  BY <1>2 DEF Routed, CidOwner
<1>4. \A t \in PathTicket(b) : t.sid \in b.sids
  BY DEF PathTicket
<1> QED
  BY <1>1, <1>2, <1>3, <1>4

\* Nothing is in hand.
LEMMA IdleShape == \A b : RR(b)!Idle.pc = "idle"
BY DEF RR!Idle

\* Sweeping candidates changes nothing else of a session.
LEMMA SweepFacts ==
  ASSUME NEW b \in Registries, RegistryTypes(b), NEW S, S \subseteq Candidates(b)
  PROVE  /\ RR(b)!Swept(S) \in [b.sids -> {RR(b)!NoSession} \cup Session(b)]
         /\ \A s \in b.sids :
              /\ RR(b)!Swept(S)[s].gen = rsSessions[s].gen
              /\ RR(b)!Swept(S)[s] = RR(b)!NoSession <=> rsSessions[s] = RR(b)!NoSession
              /\ RR(b)!Live(s) => /\ RR(b)!Swept(S)[s].epoch = rsSessions[s].epoch
                                  /\ RR(b)!Swept(S)[s].path = rsSessions[s].path
                                  /\ RR(b)!Swept(S)[s].last = rsSessions[s].last
              /\ RR(b)!Swept(S)[s].cand = IF s \in S THEN RR(b)!NoCandidate ELSE rsSessions[s].cand
<1>1. ASSUME NEW s \in b.sids
      PROVE  /\ RR(b)!Swept(S)[s] \in {RR(b)!NoSession} \cup Session(b)
             /\ RR(b)!Swept(S)[s].gen = rsSessions[s].gen
             /\ RR(b)!Swept(S)[s] = RR(b)!NoSession <=> rsSessions[s] = RR(b)!NoSession
             /\ RR(b)!Live(s) => /\ RR(b)!Swept(S)[s].epoch = rsSessions[s].epoch
                                 /\ RR(b)!Swept(S)[s].path = rsSessions[s].path
                                 /\ RR(b)!Swept(S)[s].last = rsSessions[s].last
             /\ RR(b)!Swept(S)[s].cand = IF s \in S THEN RR(b)!NoCandidate ELSE rsSessions[s].cand
  <2>1. CASE s \notin S
    <3>1. RR(b)!Swept(S)[s] = rsSessions[s]
      BY <2>1 DEF RR!Swept
    <3> QED
      BY <2>1, <3>1, SessionShape
  <2>2. CASE s \in S
    <3>1. RR(b)!HasCandidate(s)
      BY <2>2 DEF Candidates
    <3>2. rsSessions[s] \in Session(b)
      BY <3>1, SessionShape
    <3>3. RR(b)!Swept(S)[s] = [rsSessions[s] EXCEPT !.cand = RR(b)!NoCandidate]
      BY <2>2 DEF RR!Swept
    <3>4. /\ RR(b)!Swept(S)[s] \in Session(b)
          /\ RR(b)!Swept(S)[s].gen = rsSessions[s].gen
               /\ RR(b)!Swept(S)[s].epoch = rsSessions[s].epoch
          /\ RR(b)!Swept(S)[s].path = rsSessions[s].path
               /\ RR(b)!Swept(S)[s].last = rsSessions[s].last
          /\ RR(b)!Swept(S)[s].cand = RR(b)!NoCandidate
      BY <3>2, <3>3 DEF Session
    <3>5. RR(b)!Swept(S)[s].gen # 0 /\ RR(b)!NoSession.gen = 0
      BY <3>2, <3>4 DEF Session, Number, RR!NoSession
    <3> QED
      BY <2>2, <3>2, <3>4, <3>5
  <2> QED
    BY <2>1, <2>2
<1>2. RR(b)!Swept(S) = [s \in b.sids |-> RR(b)!Swept(S)[s]]
  BY DEF RR!Swept
<1> QED
  BY <1>1, <1>2

\* The overdue are candidates, and there are finitely many.
LEMMA OverdueFacts ==
  ASSUME NEW b \in Registries, RegistryTypes(b)
  PROVE  /\ RR(b)!Overdue \subseteq Candidates(b) /\ Candidates(b) \subseteq b.sids
         /\ IsFiniteSet(Candidates(b)) /\ IsFiniteSet(RR(b)!Overdue)
<1>1. RR(b)!Overdue \subseteq Candidates(b) /\ Candidates(b) \subseteq b.sids
  BY DEF RR!Overdue, Candidates, RR!Expired
<1> QED
  BY <1>1, FS_Subset, RegistriesAssumption

\* Cardinalities of what is left.
LEMMA LeftOver ==
  ASSUME NEW b \in Registries, NEW A, NEW S, IsFiniteSet(A), S \subseteq A
  PROVE  /\ IsFiniteSet(S) /\ RR(b)!Cardinality(S) \in Nat /\ RR(b)!Cardinality(A) \in Nat
         /\ RR(b)!Cardinality(A \ S) = RR(b)!Cardinality(A) - RR(b)!Cardinality(S)
         /\ RR(b)!Cardinality(S) <= RR(b)!Cardinality(A)
<1>1. IsFiniteSet(S) /\ RR(b)!Cardinality(S) <= RR(b)!Cardinality(A)
  BY FS_Subset, RegistryCardinality
<1>2. RR(b)!Cardinality(S) \in Nat /\ RR(b)!Cardinality(A) \in Nat
  BY <1>1, FS_CardinalityType, RegistryCardinality
<1>3. IsFiniteSet(A \ S)
        /\ RR(b)!Cardinality(A \ S) = RR(b)!Cardinality(A) - RR(b)!Cardinality(A \cap S)
  BY FS_Difference, RegistryCardinality
<1>4. A \cap S = S
  OBVIOUS
<1> QED
  BY <1>1, <1>2, <1>3, <1>4


\* Sessions keep their identity, epoch and path.
SameSessions(b) ==
  \A s \in b.sids :
    /\ rsSessions'[s].gen = rsSessions[s].gen
    /\ rsSessions'[s] = RR(b)!NoSession <=> rsSessions[s] = RR(b)!NoSession
    /\ RR(b)!Live(s) => rsSessions'[s].epoch = rsSessions[s].epoch
         /\ rsSessions'[s].path = rsSessions[s].path

\* Entries stay where they are.
SameEntries(b) ==
  \A a \in b.addresses :
    /\ rsDir'[a].kind = rsDir[a].kind
    /\ rsDir[a] = RR(b)!HalfOpen => rsDir'[a] = RR(b)!HalfOpen
    /\ rsDir[a].kind = "session" =>
         /\ rsDir'[a].sid = rsDir[a].sid /\ rsDir'[a].gen = rsDir[a].gen
              /\ rsDir'[a].auth = rsDir[a].auth
         /\ rsDir'[a].epoch = rsDir[a].epoch /\ rsDir'[a].peer = rsDir[a].peer

\* What no candidate has part in stays.
LEMMA SessionsStay ==
  ASSUME NEW b \in Registries, RegistryInv(b), SameSessions(b), SameEntries(b),
         rsIndex' = rsIndex, rsOwners' = rsOwners,
         rsHeld' = rsHeld, rsChallenges \subseteq rsChallenges'
  PROVE  IndexHolds(b)' /\ OneRegistration(b)' /\ EntriesAreFiled(b)' /\ RR(b)!MovesAreValidated'
<1>0. /\ RegistryTypes(b) /\ DirectoryTypes(b)
      /\ IndexHolds(b) /\ OneRegistration(b) /\ EntriesAreFiled(b) /\ RR(b)!MovesAreValidated
  BY DEF RegistryInv
<1>1. \A s \in b.sids :
        /\ RR(b)!Live(s)' <=> RR(b)!Live(s)
        /\ rsSessions'[s].gen = rsSessions[s].gen
        /\ RR(b)!Live(s) => rsSessions'[s].epoch = rsSessions[s].epoch
             /\ rsSessions'[s].path = rsSessions[s].path
  BY DEF SameSessions, RR!Live
<1>2. \A a \in b.addresses :
        /\ rsDir'[a].kind = rsDir[a].kind
        /\ rsDir[a] = RR(b)!HalfOpen => rsDir'[a] = RR(b)!HalfOpen
        /\ rsDir[a].kind = "session" =>
             /\ rsDir'[a].sid = rsDir[a].sid /\ rsDir'[a].gen = rsDir[a].gen
                  /\ rsDir'[a].auth = rsDir[a].auth
             /\ rsDir'[a].epoch = rsDir[a].epoch /\ rsDir'[a].peer = rsDir[a].peer
  BY DEF SameEntries
<1>3. \A c \in DOMAIN rsIndex : rsIndex[c].sid \in b.sids
  BY <1>0 DEF RegistryTypes, CidOwner
<1>4. \A a \in b.addresses : /\ rsDir[a].kind = "session" => rsDir[a].sid \in b.sids
                             /\ rsHeld[a].gen # 0 => rsHeld[a].sid \in b.sids
  BY <1>0, EntryShape
<1>5. IndexHolds(b)'
  <2>1. /\ \A s \in b.sids : RR(b)!Live(s) =>
             \A n \in RR(b)!Aliases(rsSessions[s].epoch) :
               /\ b.cid[rsSessions[s].gen, n] \in DOMAIN rsIndex
               /\ rsIndex[b.cid[rsSessions[s].gen, n]] = RR(b)!Owner(s, rsSessions[s].gen, n)
        /\ \A c \in DOMAIN rsIndex :
             /\ RR(b)!Live(rsIndex[c].sid) /\ rsSessions[rsIndex[c].sid].gen = rsIndex[c].gen
             /\ rsIndex[c].epoch \in RR(b)!Aliases(rsSessions[rsIndex[c].sid].epoch)
             /\ c = b.cid[rsIndex[c].gen, rsIndex[c].epoch]
    BY <1>0 DEF IndexHolds
  <2>2. \A s \in b.sids : RR(b)!Live(s)' =>
             \A n \in RR(b)!Aliases(rsSessions'[s].epoch) :
               /\ b.cid[rsSessions'[s].gen, n] \in DOMAIN rsIndex'
               /\ rsIndex'[b.cid[rsSessions'[s].gen, n]] = RR(b)!Owner(s, rsSessions'[s].gen, n)
    <3> SUFFICES ASSUME NEW s \in b.sids, RR(b)!Live(s)',
                        NEW n \in RR(b)!Aliases(rsSessions'[s].epoch)
                 PROVE  /\ b.cid[rsSessions'[s].gen, n] \in DOMAIN rsIndex
                        /\ rsIndex[b.cid[rsSessions'[s].gen, n]] =
                               RR(b)!Owner(s, rsSessions'[s].gen, n)
      OBVIOUS
    <3>1. RR(b)!Live(s) /\ rsSessions'[s].gen = rsSessions[s].gen
            /\ n \in RR(b)!Aliases(rsSessions[s].epoch)
      BY <1>1
    <3>2. /\ b.cid[rsSessions[s].gen, n] \in DOMAIN rsIndex
          /\ rsIndex[b.cid[rsSessions[s].gen, n]] = RR(b)!Owner(s, rsSessions[s].gen, n)
      BY <2>1, <3>1
    <3> QED
      BY <3>1, <3>2
  <2>3. \A c \in DOMAIN rsIndex' :
             /\ rsSessions'[rsIndex'[c].sid] # RR(b)!NoSession
             /\ rsSessions'[rsIndex'[c].sid].gen = rsIndex'[c].gen
             /\ rsIndex'[c].epoch \in RR(b)!Aliases(rsSessions'[rsIndex'[c].sid].epoch)
             /\ c = b.cid[rsIndex'[c].gen, rsIndex'[c].epoch]
    <3> SUFFICES ASSUME NEW c \in DOMAIN rsIndex
                 PROVE /\ rsSessions'[rsIndex[c].sid] # RR(b)!NoSession
                       /\ rsSessions'[rsIndex[c].sid].gen = rsIndex[c].gen
                       /\ rsIndex[c].epoch \in RR(b)!Aliases(rsSessions'[rsIndex[c].sid].epoch)
                       /\ c = b.cid[rsIndex[c].gen, rsIndex[c].epoch]
      OBVIOUS
    <3> DEFINE s == rsIndex[c].sid
    <3>1. s \in b.sids /\ RR(b)!Live(s)
      BY <1>3, <2>1
    <3>2. rsSessions'[s] # RR(b)!NoSession /\ rsSessions'[s].gen = rsSessions[s].gen
          /\ rsSessions'[s].epoch = rsSessions[s].epoch
      BY <3>1, <1>1 DEF RR!Live
    <3> QED
      BY <2>1, <3>1, <3>2 DEF RR!Live
  <2> QED
    BY <2>2, <2>3 DEF IndexHolds, RR!Live
<1>6. OneRegistration(b)'
  <2>1. \A a \in b.addresses, s \in b.sids : /\ Files(a, s)' <=> Files(a, s)
                                             /\ Holds(a, s)' <=> Holds(a, s)
    BY <1>2 DEF Files, Holds
  <2>2. \A a \in b.addresses : rsHeld'[a] # RR(b)!Unregistered => rsDir'[a] = RR(b)!HalfOpen
    BY <1>0, <1>2 DEF OneRegistration
  <2>3. \A s \in b.sids : RR(b)!Live(s)' => \E a \in b.addresses : Files(a, s)' \/ Holds(a, s)'
    BY <1>0, <1>1, <2>1 DEF OneRegistration
  <2>4. \A s \in b.sids, a, k \in b.addresses :
          (Files(a, s)' \/ Holds(a, s)') /\ (Files(k, s)' \/ Holds(k, s)') => a = k
    BY <1>0, <2>1 DEF OneRegistration
  <2> QED
    BY <2>2, <2>3, <2>4 DEF OneRegistration
<1>7. EntriesAreFiled(b)'
  <2>1. ASSUME NEW a \in b.addresses, rsDir'[a].kind = "session"
        PROVE  /\ rsSessions'[rsDir'[a].sid] # RR(b)!NoSession
                    /\ rsDir'[a].gen = rsSessions'[rsDir'[a].sid].gen
               /\ rsDir'[a].epoch = rsSessions'[rsDir'[a].sid].epoch
               /\ rsDir'[a].peer = a /\ rsSessions'[rsDir'[a].sid].path = a
               /\ rsDir'[a].auth =>
                    rsOwners'[rsDir'[a].sid] = [gen |-> rsDir'[a].gen, address |-> a]
    <3>1. /\ rsDir[a].kind = "session" /\ rsDir'[a].sid = rsDir[a].sid
               /\ rsDir'[a].gen = rsDir[a].gen
          /\ rsDir'[a].auth = rsDir[a].auth /\ rsDir'[a].epoch = rsDir[a].epoch
          /\ rsDir'[a].peer = rsDir[a].peer /\ rsDir[a].sid \in b.sids
      BY <1>2, <1>4, <2>1
    <3>2. /\ RR(b)!Live(rsDir[a].sid) /\ rsDir[a].gen = rsSessions[rsDir[a].sid].gen
          /\ rsDir[a].epoch = rsSessions[rsDir[a].sid].epoch
          /\ rsDir[a].peer = a /\ rsSessions[rsDir[a].sid].path = a
          /\ rsDir[a].auth => rsOwners[rsDir[a].sid] = [gen |-> rsDir[a].gen, address |-> a]
      BY <1>0, <3>1 DEF EntriesAreFiled
    <3> QED
      BY <3>1, <3>2, <1>1 DEF RR!Live
  <2>2. ASSUME NEW a \in b.addresses, rsHeld'[a].gen # 0
        PROVE  /\ rsSessions'[rsHeld'[a].sid] # RR(b)!NoSession
               /\ rsHeld'[a].gen = rsSessions'[rsHeld'[a].sid].gen
               /\ rsSessions'[rsHeld'[a].sid].epoch = 0 /\ rsSessions'[rsHeld'[a].sid].path = a
    <3>1. rsHeld[a].gen # 0 /\ rsHeld[a].sid \in b.sids /\ rsHeld'[a] = rsHeld[a]
      BY <1>4, <2>2
    <3>2. /\ RR(b)!Live(rsHeld[a].sid) /\ rsHeld[a].gen = rsSessions[rsHeld[a].sid].gen
          /\ rsSessions[rsHeld[a].sid].epoch = 0 /\ rsSessions[rsHeld[a].sid].path = a
      BY <1>0, <3>1 DEF EntriesAreFiled
    <3> QED
      BY <3>1, <3>2, <1>1 DEF RR!Live
  <2> QED
    BY <2>1, <2>2 DEF EntriesAreFiled, RR!Live
<1>8. RR(b)!MovesAreValidated'
  <2>1. ASSUME NEW s \in b.sids, rsSessions'[s] # RR(b)!NoSession, rsSessions'[s].epoch > 0
        PROVE  \E c \in rsChallenges' : /\ c.gen = rsSessions'[s].gen
                                        /\ c.epoch = rsSessions'[s].epoch
                                        /\ c.path = rsSessions'[s].path
    <3>1. RR(b)!Live(s) /\ rsSessions'[s].epoch = rsSessions[s].epoch
            /\ rsSessions'[s].gen = rsSessions[s].gen
          /\ rsSessions'[s].path = rsSessions[s].path
      BY <1>1, <2>1 DEF RR!Live
    <3> QED
      BY <1>0, <2>1, <3>1 DEF RR!MovesAreValidated
  <2> QED
    BY <2>1 DEF RR!MovesAreValidated, RR!Live
<1> QED
  BY <1>5, <1>6, <1>7, <1>8

\* No candidate is new.
FewerCandidates(b) ==
  \A s \in b.sids : rsSessions'[s] # RR(b)!NoSession /\ rsSessions'[s].cand # RR(b)!NoCandidate =>
    /\ RR(b)!HasCandidate(s) /\ rsSessions'[s].gen = rsSessions[s].gen
    /\ rsSessions'[s].epoch = rsSessions[s].epoch
    /\ rsSessions'[s].cand.id = rsSessions[s].cand.id
    /\ rsSessions'[s].cand.epoch = rsSessions[s].cand.epoch
    /\ rsSessions'[s].cand.path = rsSessions[s].cand.path

\* Candidates that end take nothing with them that another needs.
LEMMA CandidatesEnd ==
  ASSUME NEW b \in Registries, RegistryInv(b), FewerCandidates(b), rsNextTicket' = rsNextTicket
  PROVE  CandidatesAreTheirOwn(b)' /\ (rsChallenges' = rsChallenges => ChallengesAgree(b)')
<1>0. CandidatesAreTheirOwn(b) /\ ChallengesAgree(b)
  BY DEF RegistryInv
<1>1. \A s \in b.sids : RR(b)!HasCandidate(s)' =>
        /\ RR(b)!HasCandidate(s) /\ rsSessions'[s].gen = rsSessions[s].gen
        /\ rsSessions'[s].epoch = rsSessions[s].epoch
        /\ rsSessions'[s].cand.id = rsSessions[s].cand.id
        /\ rsSessions'[s].cand.epoch = rsSessions[s].cand.epoch
        /\ rsSessions'[s].cand.path = rsSessions[s].cand.path
  BY DEF FewerCandidates, RR!HasCandidate, RR!Live
<1>2. CandidatesAreTheirOwn(b)'
  BY <1>0, <1>1 DEF CandidatesAreTheirOwn
<1>3. ASSUME rsChallenges' = rsChallenges PROVE ChallengesAgree(b)'
  BY <1>0, <1>1, <1>3 DEF ChallengesAgree
<1> QED
  BY <1>2, <1>3

\* Nor does the datagram in hand, or one that waits.
LEMMA HandStays ==
  ASSUME NEW b \in Registries, RegistryInv(b), FewerCandidates(b), rsNextTicket' = rsNextTicket,
         rsChallenges \subseteq rsChallenges', rsMailbox' \subseteq rsMailbox,
         \/ rsHand'.pc \notin {"publish", "challenge", "response"}
         \/ rsHand' = rsHand
         \/ /\ rsHand'.ticket = rsHand.ticket /\ rsHand'.d = rsHand.d
            /\ rsHand.pc = "publish" /\ rsHand'.pc = "challenge"
  PROVE  HandAgrees(b)' /\ ResponsesAreChallenged(b)'
<1>0. HandAgrees(b) /\ ResponsesAreChallenged(b)
  BY DEF RegistryInv
<1>1. \A s \in b.sids : RR(b)!HasCandidate(s)' =>
        /\ RR(b)!HasCandidate(s) /\ rsSessions'[s].gen = rsSessions[s].gen
        /\ rsSessions'[s].cand.id = rsSessions[s].cand.id
        /\ rsSessions'[s].cand.epoch = rsSessions[s].cand.epoch
        /\ rsSessions'[s].cand.path = rsSessions[s].cand.path
  BY DEF FewerCandidates, RR!HasCandidate, RR!Live
<1>4. HandAgrees(b)'
  <2>1. ASSUME rsHand'.pc \in {"publish", "challenge"}
        PROVE  /\ rsHand.pc \in {"publish", "challenge"} /\ rsHand'.ticket = rsHand.ticket
               /\ rsHand'.d = rsHand.d
    BY <2>1
  <2>2. ASSUME rsHand'.pc \in {"publish", "challenge"}, NEW s \in b.sids, RR(b)!HasCandidate(s)',
               rsSessions'[s].cand.id = rsHand'.ticket.id
        PROVE  /\ rsHand'.ticket.sid = s /\ rsHand'.ticket.gen = rsSessions'[s].gen
               /\ rsHand'.d.at.epoch = rsSessions'[s].cand.epoch
               /\ rsHand'.d.from = rsSessions'[s].cand.path
    BY <1>0, <1>1, <2>1, <2>2 DEF HandAgrees
  <2>3. rsHand'.pc \in {"publish", "challenge"} => rsHand'.ticket.id < rsNextTicket'
    BY <1>0, <2>1 DEF HandAgrees
  <2> QED
    BY <2>2, <2>3 DEF HandAgrees
<1>5. ResponsesAreChallenged(b)'
  <2>1. rsHand'.pc = "response" => rsHand' = rsHand
    OBVIOUS
  <2> QED
    BY <1>0, <2>1 DEF ResponsesAreChallenged
<1> QED
  BY <1>4, <1>5

\* The candidates that are swept are counted as failures.
LEMMA SweepIsCounted ==
  ASSUME NEW b \in Registries, RegistryInv(b),
         NEW S, S \subseteq Candidates(b), Candidates(b)' = Candidates(b) \ S,
         rsCount' = rsCount - RR(b)!Cardinality(S), rsTotals' = RR(b)!Failed(RR(b)!Cardinality(S))
  PROVE  CountHolds(b)' /\ rsCount' \in Int
           /\ rsTotals' \in [attempts : Int, commits : Int, failures : Int]
<1>1. RegistryTypes(b) /\ CountHolds(b)
  BY DEF RegistryInv
<1>2. IsFiniteSet(Candidates(b))
  BY <1>1, OverdueFacts
<1>3. /\ RR(b)!Cardinality(S) \in Nat
           /\ RR(b)!Cardinality(Candidates(b) \ S) =
                  RR(b)!Cardinality(Candidates(b)) - RR(b)!Cardinality(S)
      /\ RR(b)!Cardinality(Candidates(b)) \in Nat
  BY <1>2, LeftOver
<1>4. rsTotals \in [attempts : Int, commits : Int, failures : Int]
  BY <1>1 DEF RegistryTypes
<1>5. /\ rsTotals'.attempts = rsTotals.attempts /\ rsTotals'.commits = rsTotals.commits
      /\ rsTotals'.failures = rsTotals.failures + RR(b)!Cardinality(S)
      /\ rsTotals' \in [attempts : Int, commits : Int, failures : Int]
  BY <1>3, <1>4 DEF RR!Failed
<1>6. /\ rsCount = RR(b)!Cardinality(Candidates(b)) /\ rsCount <= b.maxCandidates /\ rsCount \in Int
      /\ rsTotals.attempts = rsTotals.commits + rsTotals.failures + rsCount
  BY <1>1 DEF CountHolds, RegistryTypes
<1>7. /\ rsCount' = RR(b)!Cardinality(Candidates(b)') /\ rsCount' \in Int
  BY <1>3, <1>6
<1>8. rsCount' <= b.maxCandidates
  BY <1>3, <1>6, RegistriesAssumption
<1>9. rsTotals.attempts \in Int /\ rsTotals.commits \in Int /\ rsTotals.failures \in Int
  BY <1>4
<1>10. rsTotals'.attempts = rsTotals'.commits + rsTotals'.failures + rsCount'
  BY <1>3, <1>5, <1>6, <1>9
<1> QED
  BY <1>5, <1>7, <1>8, <1>10 DEF CountHolds

\* The same for the table of a sweep.
LEMMA SweptStep ==
  ASSUME NEW b \in Registries, RegistryInv(b),
         NEW S, S \subseteq Candidates(b), rsSessions' = RR(b)!Swept(S),
         rsCount' = rsCount - RR(b)!Cardinality(S), rsTotals' = RR(b)!Failed(RR(b)!Cardinality(S)),
         rsIndex' = rsIndex, rsNextGen' = rsNextGen, rsNextTicket' = rsNextTicket
  PROVE  RegistryTypes(b)' /\ SameSessions(b) /\ FewerCandidates(b) /\ CountHolds(b)'
<1>1. RegistryTypes(b)
  BY DEF RegistryInv
<1>2. /\ RR(b)!Swept(S) \in [b.sids -> {RR(b)!NoSession} \cup Session(b)]
      /\ \A s \in b.sids :
           /\ RR(b)!Swept(S)[s].gen = rsSessions[s].gen
           /\ RR(b)!Swept(S)[s] = RR(b)!NoSession <=> rsSessions[s] = RR(b)!NoSession
           /\ RR(b)!Live(s) => /\ RR(b)!Swept(S)[s].epoch = rsSessions[s].epoch
                               /\ RR(b)!Swept(S)[s].path = rsSessions[s].path
           /\ RR(b)!Swept(S)[s].cand = IF s \in S THEN RR(b)!NoCandidate ELSE rsSessions[s].cand
  BY <1>1, SweepFacts
<1>3. SameSessions(b)
  BY <1>2 DEF SameSessions
<1>4. FewerCandidates(b)
  BY <1>2 DEF FewerCandidates, RR!HasCandidate, RR!Live
<1>5. Candidates(b)' = Candidates(b) \ S
  <2>1. \A s \in b.sids : RR(b)!HasCandidate(s)' <=> RR(b)!HasCandidate(s) /\ s \notin S
    BY <1>2 DEF RR!HasCandidate, RR!Live
  <2> QED
    BY <2>1 DEF Candidates
<1>6. CountHolds(b)' /\ rsCount' \in Int
        /\ rsTotals' \in [attempts : Int, commits : Int, failures : Int]
  BY <1>5, SweepIsCounted
<1>7. RegistryTypes(b)'
  BY <1>1, <1>2, <1>6 DEF RegistryTypes
<1> QED
  BY <1>3, <1>4, <1>6, <1>7

\* An untouched registry.
LEMMA RegistryStays ==
  ASSUME NEW b \in Registries, RegistryInv(b), UNCHANGED RR(b)!registry
  PROVE  RegistryTypes(b)' /\ SameSessions(b) /\ FewerCandidates(b) /\ CountHolds(b)'
<1>0. RegistryTypes(b) /\ CountHolds(b)
  BY DEF RegistryInv
<1>1. rsSessions' = rsSessions /\ rsIndex' = rsIndex /\ rsNextGen' = rsNextGen
        /\ rsNextTicket' = rsNextTicket
      /\ rsCount' = rsCount /\ rsTotals' = rsTotals
  BY DEF RR!registry
<1>2. SameSessions(b) /\ FewerCandidates(b)
  BY <1>1 DEF SameSessions, FewerCandidates, RR!HasCandidate, RR!Live
<1>3. Candidates(b)' = Candidates(b)
  BY <1>1 DEF Candidates, RR!HasCandidate, RR!Live
<1> QED
  BY <1>0, <1>1, <1>2, <1>3 DEF RegistryTypes, CountHolds

\* An abort ends the candidate of that ticket or none.
LEMMA AbortStep ==
  ASSUME NEW b \in Registries, RegistryInv(b), NEW t, t.sid \in b.sids, RR(b)!AbortCandidate(t)
  PROVE  /\ RegistryTypes(b)' /\ SameSessions(b) /\ FewerCandidates(b) /\ CountHolds(b)'
         /\ rsIndex' = rsIndex /\ rsNextTicket' = rsNextTicket
<1>1. CASE RR(b)!HasCandidate(t.sid) /\ RR(b)!Ticket(t.sid) = t
  <2>1. {t.sid} \subseteq Candidates(b)
    BY <1>1 DEF Candidates
  <2>2. /\ rsSessions' = RR(b)!Swept({t.sid}) /\ rsCount' = rsCount - 1
             /\ rsTotals' = RR(b)!Failed(1)
        /\ rsIndex' = rsIndex /\ rsNextGen' = rsNextGen /\ rsNextTicket' = rsNextTicket
    BY <1>1 DEF RR!AbortCandidate
  <2>3. RR(b)!Cardinality({t.sid}) = 1
    BY FS_Singleton, RegistryCardinality
  <2> QED
    BY <2>1, <2>2, <2>3, SweptStep
<1>2. CASE ~(RR(b)!HasCandidate(t.sid) /\ RR(b)!Ticket(t.sid) = t)
  <2>1. UNCHANGED RR(b)!registry
    BY <1>2 DEF RR!AbortCandidate
  <2> QED
    BY <2>1, RegistryStays DEF RR!registry
<1> QED
  BY <1>1, <1>2

\* Candidates end or stay, sessions stay: the whole invariant.
LEMMA QuietStep ==
  ASSUME NEW b \in Registries, RegistryInv(b), RegistryTypes(b)', DirectoryTypes(b)',
         IngressTypes(b)', CountHolds(b)',
         SameSessions(b), SameEntries(b), FewerCandidates(b),
         rsIndex' = rsIndex, rsNextTicket' = rsNextTicket, rsOwners' = rsOwners, rsHeld' = rsHeld,
         rsChallenges' = rsChallenges, rsMailbox' \subseteq rsMailbox,
         \/ rsHand'.pc \notin {"publish", "challenge", "response"}
         \/ rsHand' = rsHand
         \/ /\ rsHand'.ticket = rsHand.ticket /\ rsHand'.d = rsHand.d
            /\ rsHand.pc = "publish" /\ rsHand'.pc = "challenge"
  PROVE  RegistryInv(b)'
<1>1. IndexHolds(b)' /\ OneRegistration(b)' /\ EntriesAreFiled(b)' /\ RR(b)!MovesAreValidated'
  BY SessionsStay
<1>2. CandidatesAreTheirOwn(b)' /\ ChallengesAgree(b)'
  BY CandidatesEnd
<1>3. HandAgrees(b)' /\ ResponsesAreChallenged(b)'
  BY HandStays
<1> QED
  BY <1>1, <1>2, <1>3 DEF RegistryInv

\* The cleanup tick drops the candidates whose lifetime has elapsed.
LEMMA ExpireStep ==
  ASSUME NEW b \in Registries, RegistryInv(b), RR(b)!ExpireCandidates
  PROVE  RegistryInv(b)'
<1>0. RegistryTypes(b) /\ DirectoryTypes(b) /\ IngressTypes(b)
  BY DEF RegistryInv
<1>1. /\ rsSessions' = RR(b)!Swept(RR(b)!Overdue)
           /\ rsCount' = rsCount - RR(b)!Cardinality(RR(b)!Overdue)
      /\ rsTotals' = RR(b)!Failed(RR(b)!Cardinality(RR(b)!Overdue))
      /\ rsIndex' = rsIndex /\ rsNextGen' = rsNextGen /\ rsNextTicket' = rsNextTicket
      /\ rsDir' = rsDir /\ rsOwners' = rsOwners /\ rsHeld' = rsHeld /\ rsMailbox' = rsMailbox
      /\ rsHand' = rsHand /\ rsChallenges' = rsChallenges
  BY DEF RR!ExpireCandidates, RR!directory
<1>2. RegistryTypes(b)' /\ SameSessions(b) /\ FewerCandidates(b) /\ CountHolds(b)'
  BY <1>0, <1>1, OverdueFacts, SweptStep
<1>3. SameEntries(b) /\ DirectoryTypes(b)' /\ IngressTypes(b)'
  BY <1>0, <1>1 DEF SameEntries, DirectoryTypes, IngressTypes
<1> QED
  BY <1>1, <1>2, <1>3, QuietStep

\* A lifetime elapses.
LEMMA LifetimeStep ==
  ASSUME NEW b \in Registries, RegistryInv(b), NEW s \in b.sids, RR(b)!LifetimeElapses(s)
  PROVE  RegistryInv(b)'
<1>0. RegistryTypes(b) /\ DirectoryTypes(b) /\ IngressTypes(b) /\ CountHolds(b)
  BY DEF RegistryInv
<1>1. /\ RR(b)!HasCandidate(s) /\ rsSessions' = [rsSessions EXCEPT ![s].cand.old = TRUE]
      /\ rsIndex' = rsIndex /\ rsNextGen' = rsNextGen /\ rsNextTicket' = rsNextTicket
      /\ rsCount' = rsCount /\ rsTotals' = rsTotals
      /\ rsDir' = rsDir /\ rsOwners' = rsOwners /\ rsHeld' = rsHeld /\ rsMailbox' = rsMailbox
      /\ rsHand' = rsHand /\ rsChallenges' = rsChallenges
  BY DEF RR!LifetimeElapses, RR!directory
<1>2. rsSessions[s] \in Session(b) /\ rsSessions[s].cand \in PathCandidate(b)
  BY <1>0, <1>1, SessionShape
<1> DEFINE new == [rsSessions[s].cand EXCEPT !.old = TRUE]
<1>3. /\ new \in PathCandidate(b) /\ new.id = rsSessions[s].cand.id
      /\ new.epoch = rsSessions[s].cand.epoch /\ new.path = rsSessions[s].cand.path
  BY <1>2 DEF PathCandidate
<1>4. new # RR(b)!NoCandidate
  BY <1>3 DEF PathCandidate, Number, RR!NoCandidate
<1>5. rsSessions \in [b.sids -> {RR(b)!NoSession} \cup Session(b)]
  BY <1>0 DEF RegistryTypes
<1>6. rsSessions' = [rsSessions EXCEPT ![s] = [rsSessions[s] EXCEPT !.cand = new]]
  BY <1>1, <1>5
<1> HIDE DEF new
<1>7. /\ rsSessions'[s] = [rsSessions[s] EXCEPT !.cand = new]
      /\ \A t \in b.sids : t # s => rsSessions'[t] = rsSessions[t]
      /\ DOMAIN rsSessions' = b.sids
  BY <1>5, <1>6
<1>8. /\ rsSessions'[s] \in Session(b) /\ rsSessions'[s].gen = rsSessions[s].gen
      /\ rsSessions'[s].epoch = rsSessions[s].epoch /\ rsSessions'[s].path = rsSessions[s].path
      /\ rsSessions'[s].cand = new
  BY <1>2, <1>3, <1>7 DEF Session
<1>9. rsSessions'[s] # RR(b)!NoSession /\ rsSessions[s] # RR(b)!NoSession
        /\ rsSessions[s].cand # RR(b)!NoCandidate
  BY <1>2, <1>8 DEF Session, Number, RR!NoSession, PathCandidate, RR!NoCandidate
<1>10. SameSessions(b)
  BY <1>7, <1>8, <1>9 DEF SameSessions
<1>11. FewerCandidates(b)
  BY <1>1, <1>3, <1>7, <1>8, <1>9 DEF FewerCandidates, RR!HasCandidate, RR!Live
<1>12. Candidates(b)' = Candidates(b)
  <2>1. \A t \in b.sids : RR(b)!HasCandidate(t)' <=> RR(b)!HasCandidate(t)
    BY <1>4, <1>7, <1>8, <1>9 DEF RR!HasCandidate, RR!Live
  <2> QED
    BY <2>1 DEF Candidates
<1>13. RegistryTypes(b)' /\ CountHolds(b)'
  <2>1. rsSessions' \in [b.sids -> {RR(b)!NoSession} \cup Session(b)]
    BY <1>5, <1>6, <1>8
  <2> QED
    BY <1>0, <1>1, <1>12, <2>1 DEF RegistryTypes, CountHolds
<1>14. SameEntries(b) /\ DirectoryTypes(b)' /\ IngressTypes(b)'
  BY <1>0, <1>1 DEF SameEntries, DirectoryTypes, IngressTypes
<1> QED
  BY <1>1, <1>10, <1>11, <1>13, <1>14, QuietStep


\* A datagram is routed: what it carries was challenged.
LEMMA RouteStep ==
  ASSUME NEW b \in Registries, RegistryInv(b), NEW g \in Nat, NEW e,
         NEW a \in b.addresses, RR(b)!Route(g, e, a)
  PROVE  RegistryInv(b)'
<1>0. RegistryTypes(b) /\ DirectoryTypes(b) /\ IngressTypes(b)
  BY DEF RegistryInv
<1>1. /\ UNCHANGED RR(b)!registry /\ rsDir' = rsDir /\ rsOwners' = rsOwners /\ rsHeld' = rsHeld
      /\ rsHand' = rsHand /\ rsChallenges' = rsChallenges /\ b.cid[g, e] \in DOMAIN rsIndex
      /\ \E m \in [kind : {"init"}, token : {0}]
             \cup [kind : {"response"}, token : RR(b)!Tokens(g)] :
            rsMailbox' = rsMailbox \cup
              {[m |-> m, from |-> a, sent |-> g, at |-> rsIndex[b.cid[g, e]]]}
  BY DEF RR!Route, RR!directory
<1> DEFINE at == rsIndex[b.cid[g, e]]
<1>2. at \in CidOwner(b)
  BY <1>0, <1>1 DEF RegistryTypes
<1> HIDE DEF at
<1>3. PICK m \in [kind : {"init"}, token : {0}]
               \cup [kind : {"response"}, token : RR(b)!Tokens(g)] :
            rsMailbox' = rsMailbox \cup {[m |-> m, from |-> a, sent |-> g, at |-> at]}
  BY <1>1 DEF at
<1> DEFINE d == [m |-> m, from |-> a, sent |-> g, at |-> at]
<1>4. RR(b)!Tokens(g) \subseteq Nat
  BY <1>0 DEF RR!Tokens, IngressTypes
<1>5. m \in [kind : {"init", "response"}, token : Nat]
  BY <1>4
<1>6. d \in Routed(b)
  BY <1>2, <1>5 DEF Routed
<1>7. d.m = m /\ rsMailbox' = rsMailbox \cup {d}
  BY <1>3
<1> HIDE DEF d
<1>8. m.kind = "response" => \E c \in rsChallenges : c.token = m.token
  BY DEF RR!Tokens
<1>9. RegistryTypes(b)' /\ SameSessions(b) /\ FewerCandidates(b) /\ CountHolds(b)'
  BY <1>1, RegistryStays
<1>10. SameEntries(b) /\ DirectoryTypes(b)'
  BY <1>0, <1>1 DEF SameEntries, DirectoryTypes
<1>11. IngressTypes(b)'
  BY <1>0, <1>1, <1>6, <1>7 DEF IngressTypes
<1>12. rsIndex' = rsIndex /\ rsNextTicket' = rsNextTicket
  BY <1>1 DEF RR!registry
<1>13. IndexHolds(b)' /\ OneRegistration(b)' /\ EntriesAreFiled(b)' /\ RR(b)!MovesAreValidated'
  BY <1>1, <1>9, <1>10, <1>12, SessionsStay
<1>14. CandidatesAreTheirOwn(b)' /\ ChallengesAgree(b)'
  BY <1>1, <1>9, <1>12, CandidatesEnd
<1>15. HandAgrees(b)' /\ ResponsesAreChallenged(b)'
  <2>1. HandAgrees(b) /\ ResponsesAreChallenged(b)
    BY DEF RegistryInv
  <2>2. rsSessions' = rsSessions
    BY <1>1 DEF RR!registry
  <2>3. HandAgrees(b)'
    BY <1>1, <1>12, <2>1, <2>2 DEF HandAgrees, RR!HasCandidate, RR!Live
  <2>4. ResponsesAreChallenged(b)'
    BY <1>1, <1>7, <1>8, <2>1 DEF ResponsesAreChallenged
  <2> QED
    BY <2>3, <2>4
<1> QED
  BY <1>9, <1>10, <1>11, <1>13, <1>14, <1>15 DEF RegistryInv

\* The worker takes a routed datagram.
LEMMA DispatchStep ==
  ASSUME NEW b \in Registries, RegistryInv(b), RR(b)!Dispatch
  PROVE  RegistryInv(b)'
<1>0. RegistryTypes(b) /\ DirectoryTypes(b) /\ IngressTypes(b)
  BY DEF RegistryInv
<1>1. /\ UNCHANGED RR(b)!registry /\ rsDir' = rsDir /\ rsOwners' = rsOwners /\ rsHeld' = rsHeld
      /\ rsChallenges' = rsChallenges
  BY DEF RR!Dispatch, RR!directory
<1>2. PICK d \in rsMailbox :
        /\ rsMailbox' = rsMailbox \ {d}
        /\ \/ \E a \in RR(b)!Takers(d) :
                rsHand' = [pc |-> d.m.kind, d |-> d, owner |-> a, ticket |-> RR(b)!NoCandidate]
           \/ rsHand' = RR(b)!Idle
  BY DEF RR!Dispatch
<1>3. d \in Routed(b)
  BY <1>0 DEF IngressTypes
<1>4. d.m.kind \in {"init", "response"}
  BY <1>3 DEF Routed
<1>5. \/ rsHand' = RR(b)!Idle
      \/ /\ rsHand' \in [pc : {"init", "response"}, d : Routed(b), owner : b.addresses,
                       ticket : {RR(b)!NoCandidate}]
         /\ rsHand'.pc = d.m.kind /\ rsHand'.d = d
  <2>1. ASSUME NEW a \in RR(b)!Takers(d),
               rsHand' = [pc |-> d.m.kind, d |-> d, owner |-> a, ticket |-> RR(b)!NoCandidate]
        PROVE  /\ rsHand' \in [pc : {"init", "response"}, d : Routed(b), owner : b.addresses,
                             ticket : {RR(b)!NoCandidate}]
               /\ rsHand'.pc = d.m.kind /\ rsHand'.d = d
    <3>1. a \in b.addresses
      BY DEF RR!Takers, RR!OwnerOf
    <3> QED
      BY <1>3, <1>4, <2>1, <3>1
  <2> QED
    BY <1>2, <2>1
<1>6. RegistryTypes(b)' /\ SameSessions(b) /\ FewerCandidates(b) /\ CountHolds(b)'
  BY <1>1, RegistryStays
<1>7. SameEntries(b) /\ DirectoryTypes(b)'
  BY <1>0, <1>1 DEF SameEntries, DirectoryTypes
<1>8. IngressTypes(b)'
  BY <1>0, <1>1, <1>2, <1>5 DEF IngressTypes
<1>9. rsIndex' = rsIndex /\ rsNextTicket' = rsNextTicket
  BY <1>1 DEF RR!registry
<1>10. IndexHolds(b)' /\ OneRegistration(b)' /\ EntriesAreFiled(b)' /\ RR(b)!MovesAreValidated'
  BY <1>1, <1>6, <1>7, <1>9, SessionsStay
<1>11. CandidatesAreTheirOwn(b)' /\ ChallengesAgree(b)'
  BY <1>1, <1>6, <1>9, CandidatesEnd
<1>12. rsHand'.pc \notin {"publish", "challenge"}
  BY <1>4, <1>5, IdleShape
<1>13. HandAgrees(b)'
  BY <1>12 DEF HandAgrees
<1>14. ResponsesAreChallenged(b)'
  <2>1. ResponsesAreChallenged(b)
    BY DEF RegistryInv
  <2>2. rsHand'.pc = "response" => rsHand'.d = d /\ d.m.kind = "response"
    BY <1>5, IdleShape
  <2> QED
    BY <1>1, <1>2, <2>1, <2>2 DEF ResponsesAreChallenged
<1> QED
  BY <1>6, <1>7, <1>8, <1>10, <1>11, <1>13, <1>14 DEF RegistryInv

\* Another ticket leaves the entry where it is.
LEMMA TicketOnly ==
  ASSUME NEW b \in Registries, RegistryInv(b), NEW a \in b.addresses, rsDir[a].kind = "session",
         NEW t \in {RR(b)!NoCandidate} \cup PathTicket(b), rsDir' = [rsDir EXCEPT ![a].ticket = t],
         rsOwners' = rsOwners, rsHeld' = rsHeld
  PROVE  SameEntries(b) /\ DirectoryTypes(b)'
<1>0. DirectoryTypes(b)
  BY DEF RegistryInv
<1>1. rsDir[a] \in SessionEntry(b)
  BY <1>0, EntryShape
<1>2. rsDir \in [b.addresses -> {RR(b)!NoEntry, RR(b)!HalfOpen} \cup SessionEntry(b)]
  BY <1>0 DEF DirectoryTypes
<1>3. /\ rsDir'[a] = [rsDir[a] EXCEPT !.ticket = t]
      /\ \A c \in b.addresses : c # a => rsDir'[c] = rsDir[c]
      /\ rsDir' = [c \in b.addresses |-> rsDir'[c]]
  BY <1>2
<1>4. /\ rsDir'[a] \in SessionEntry(b) /\ rsDir'[a].kind = "session" /\ rsDir'[a].sid = rsDir[a].sid
      /\ rsDir'[a].gen = rsDir[a].gen /\ rsDir'[a].auth = rsDir[a].auth
      /\ rsDir'[a].epoch = rsDir[a].epoch /\ rsDir'[a].peer = rsDir[a].peer
  BY <1>1, <1>3 DEF SessionEntry
<1>5. rsDir[a] # RR(b)!HalfOpen
  BY <1>0, EntryShape
<1>6. SameEntries(b)
  BY <1>3, <1>4, <1>5 DEF SameEntries
<1>7. rsDir' \in [b.addresses -> {RR(b)!NoEntry, RR(b)!HalfOpen} \cup SessionEntry(b)]
  BY <1>2, <1>3, <1>4
<1> QED
  BY <1>0, <1>6, <1>7 DEF DirectoryTypes

\* The entry learns the ticket, or the candidate is aborted.
LEMMA PublishStep ==
  ASSUME NEW b \in Registries, RegistryInv(b), RR(b)!PublishTicket
  PROVE  RegistryInv(b)'
<1>0. RegistryTypes(b) /\ DirectoryTypes(b) /\ IngressTypes(b)
  BY DEF RegistryInv
<1>1. /\ rsHand.pc = "publish" /\ rsOwners' = rsOwners /\ rsHeld' = rsHeld /\ rsMailbox' = rsMailbox
      /\ rsChallenges' = rsChallenges
  BY DEF RR!PublishTicket
<1>2. /\ rsHand \in [pc : {"publish", "challenge"}, d : Routed(b), owner : b.addresses,
                   ticket : PathTicket(b)]
      /\ rsHand.ticket \in PathTicket(b) /\ rsHand.ticket.sid \in b.sids
           /\ rsHand.owner \in b.addresses
  BY <1>0, <1>1, HandShape, IdleShape
<1>3. CASE RR(b)!Matches(rsHand.owner, rsHand.d.at)
  <2>1. /\ rsDir' = [rsDir EXCEPT ![rsHand.owner].ticket = rsHand.ticket]
        /\ rsHand' = [rsHand EXCEPT !.pc = "challenge"] /\ UNCHANGED RR(b)!registry
    BY <1>3 DEF RR!PublishTicket
  <2>2. rsDir[rsHand.owner].kind = "session"
    BY <1>3 DEF RR!Matches
  <2>3. SameEntries(b) /\ DirectoryTypes(b)'
    BY <1>1, <1>2, <2>1, <2>2, TicketOnly
  <2>4. RegistryTypes(b)' /\ SameSessions(b) /\ FewerCandidates(b) /\ CountHolds(b)'
    BY <2>1, RegistryStays
  <2>5. /\ rsHand' \in [pc : {"publish", "challenge"}, d : Routed(b), owner : b.addresses,
                      ticket : PathTicket(b)]
        /\ rsHand'.ticket = rsHand.ticket /\ rsHand'.d = rsHand.d /\ rsHand'.pc = "challenge"
    BY <1>2, <2>1
  <2>6. IngressTypes(b)'
    BY <1>0, <1>1, <2>5 DEF IngressTypes
  <2>7. rsIndex' = rsIndex /\ rsNextTicket' = rsNextTicket
    BY <2>1 DEF RR!registry
  <2> QED
    BY <1>1, <2>3, <2>4, <2>5, <2>6, <2>7, QuietStep
<1>4. CASE ~RR(b)!Matches(rsHand.owner, rsHand.d.at)
  <2>1. RR(b)!AbortCandidate(rsHand.ticket) /\ rsHand' = RR(b)!Idle /\ rsDir' = rsDir
    BY <1>4 DEF RR!PublishTicket
  <2>2. /\ RegistryTypes(b)' /\ SameSessions(b) /\ FewerCandidates(b) /\ CountHolds(b)'
        /\ rsIndex' = rsIndex /\ rsNextTicket' = rsNextTicket
    BY <1>2, <2>1, AbortStep
  <2>3. SameEntries(b) /\ DirectoryTypes(b)' /\ IngressTypes(b)'
    BY <1>0, <1>1, <2>1 DEF SameEntries, DirectoryTypes, IngressTypes
  <2> QED
    BY <1>1, <2>1, <2>2, <2>3, IdleShape, QuietStep
<1> QED
  BY <1>3, <1>4

\* A challenge that is sent names its candidate.
LEMMA ChallengeStep ==
  ASSUME NEW b \in Registries, RegistryInv(b), RR(b)!SendChallenge
  PROVE  RegistryInv(b)'
<1>0. RegistryTypes(b) /\ DirectoryTypes(b) /\ IngressTypes(b)
  BY DEF RegistryInv
<1> DEFINE t == rsHand.ticket
           S == {t.sid} \cap RR(b)!Overdue
           c == [gen |-> t.gen, epoch |-> rsHand.d.at.epoch, path |-> rsHand.d.from, token |-> t.id]
<1>1. /\ rsHand.pc = "challenge" /\ rsHand' = RR(b)!Idle /\ rsOwners' = rsOwners /\ rsHeld' = rsHeld
      /\ rsMailbox' = rsMailbox /\ rsIndex' = rsIndex /\ rsNextGen' = rsNextGen
           /\ rsNextTicket' = rsNextTicket
      /\ rsSessions' = RR(b)!Swept(S) /\ rsCount' = rsCount - RR(b)!Cardinality(S)
      /\ rsTotals' = RR(b)!Failed(RR(b)!Cardinality(S))
  BY DEF RR!SendChallenge
<1>2. \/ rsChallenges' = rsChallenges \cup {c} /\ rsDir' = rsDir
      \/ /\ rsChallenges' = rsChallenges
         /\ \/ rsDir[rsHand.owner].kind = "session"
                 /\ rsDir' = [rsDir EXCEPT ![rsHand.owner].ticket = RR(b)!NoCandidate]
            \/ rsDir' = rsDir
  BY DEF RR!SendChallenge
<1>3. /\ t \in PathTicket(b) /\ t.sid \in b.sids /\ rsHand.owner \in b.addresses
      /\ rsHand.d.at \in CidOwner(b) /\ rsHand.d.from \in b.addresses
  BY <1>0, <1>1, HandShape, IdleShape
<1>4. S \subseteq Candidates(b)
  BY <1>0, OverdueFacts
<1>5. c \in [gen : Nat, epoch : Nat, path : b.addresses, token : Nat]
  BY <1>3 DEF PathTicket, CidOwner, Number
<1> HIDE DEF S
<1>6. RegistryTypes(b)' /\ SameSessions(b) /\ FewerCandidates(b) /\ CountHolds(b)'
  BY <1>1, <1>4, SweptStep
<1>7. SameEntries(b) /\ DirectoryTypes(b)'
  <2>1. CASE rsDir' = rsDir
    BY <1>0, <1>1, <2>1 DEF SameEntries, DirectoryTypes
  <2>2. CASE rsDir[rsHand.owner].kind = "session"
               /\ rsDir' = [rsDir EXCEPT ![rsHand.owner].ticket = RR(b)!NoCandidate]
    BY <1>1, <1>3, <2>2, TicketOnly
  <2> QED
    BY <1>2, <2>1, <2>2
<1>8. IngressTypes(b)'
  BY <1>0, <1>1, <1>2, <1>5 DEF IngressTypes
<1>9. rsChallenges \subseteq rsChallenges'
  BY <1>2
<1>10. IndexHolds(b)' /\ OneRegistration(b)' /\ EntriesAreFiled(b)' /\ RR(b)!MovesAreValidated'
  BY <1>1, <1>6, <1>7, <1>9, SessionsStay
<1>11. CandidatesAreTheirOwn(b)' /\ (rsChallenges' = rsChallenges => ChallengesAgree(b)')
  BY <1>1, <1>6, CandidatesEnd
<1>12. HandAgrees(b)' /\ ResponsesAreChallenged(b)'
  BY <1>1, <1>6, <1>9, HandStays, IdleShape
<1>13. ASSUME rsChallenges' = rsChallenges \cup {c} PROVE ChallengesAgree(b)'
  <2>1. HandAgrees(b) /\ ChallengesAgree(b)
    BY DEF RegistryInv
  <2>2. \A s \in b.sids : RR(b)!HasCandidate(s)' =>
          /\ RR(b)!HasCandidate(s) /\ rsSessions'[s].gen = rsSessions[s].gen
          /\ rsSessions'[s].cand.id = rsSessions[s].cand.id
          /\ rsSessions'[s].cand.epoch = rsSessions[s].cand.epoch
          /\ rsSessions'[s].cand.path = rsSessions[s].cand.path
    BY <1>6 DEF FewerCandidates, RR!HasCandidate, RR!Live
  <2>3. \A x \in rsChallenges :
          /\ x.token < rsNextTicket'
          /\ \A s \in b.sids : RR(b)!HasCandidate(s)' /\ rsSessions'[s].cand.id = x.token =>
               /\ x.gen = rsSessions'[s].gen /\ x.epoch = rsSessions'[s].cand.epoch
               /\ x.path = rsSessions'[s].cand.path
    BY <1>1, <2>1, <2>2 DEF ChallengesAgree
  <2>4. /\ c.token = rsHand.ticket.id /\ c.gen = rsHand.ticket.gen
        /\ c.epoch = rsHand.d.at.epoch /\ c.path = rsHand.d.from
    OBVIOUS
  <2> HIDE DEF c
  <2>5. /\ c.token < rsNextTicket'
        /\ \A s \in b.sids : RR(b)!HasCandidate(s)' /\ rsSessions'[s].cand.id = c.token =>
             /\ c.gen = rsSessions'[s].gen /\ c.epoch = rsSessions'[s].cand.epoch
             /\ c.path = rsSessions'[s].cand.path
    BY <1>1, <2>1, <2>2, <2>4 DEF HandAgrees
  <2> QED
    BY <1>13, <2>3, <2>5 DEF ChallengesAgree
<1> HIDE DEF c
<1>14. ChallengesAgree(b)'
  BY <1>2, <1>11, <1>13
<1> QED
  BY <1>6, <1>7, <1>8, <1>10, <1>11, <1>12, <1>14 DEF RegistryInv

\* The sweep before an observation takes overdue candidates only, its own among them.
LEMMA FirstSweptFacts ==
  ASSUME NEW b \in Registries, RegistryTypes(b), NEW at, at.sid \in b.sids
  PROVE  /\ RR(b)!FirstSwept(at) \subseteq RR(b)!Overdue
         /\ RR(b)!Expired(at.sid) => at.sid \in RR(b)!FirstSwept(at)
<1>1. RR(b)!Expired(at.sid) => at.sid \in {at.sid} \cap RR(b)!Overdue
  BY DEF RR!Overdue
<1>2. RR(b)!FirstSwept(at) = {at.sid} \cap RR(b)!Overdue \/ RR(b)!FirstSwept(at) = RR(b)!Overdue
  BY DEF RR!FirstSwept
<1> QED
  BY <1>1, <1>2

\* A new candidate takes a number that nothing has.
LEMMA NewCandidate ==
  ASSUME NEW b \in Registries, RegistryInv(b), NEW S, S \subseteq Candidates(b),
         NEW s \in b.sids, RR(b)!Live(s),
         s \notin Candidates(b) \ S, NEW p \in b.addresses,
         rsCount - RR(b)!Cardinality(S) < b.maxCandidates,
         rsSessions' = [RR(b)!Swept(S) EXCEPT ![s].cand =
           [id |-> rsNextTicket, path |-> p, epoch |-> rsSessions[s].epoch + 1, old |-> FALSE]],
         rsCount' = rsCount - RR(b)!Cardinality(S) + 1, rsNextTicket' = rsNextTicket + 1,
         rsTotals' = [RR(b)!Failed(RR(b)!Cardinality(S)) EXCEPT !.attempts = @ + 1],
         rsIndex' = rsIndex, rsNextGen' = rsNextGen, rsChallenges' = rsChallenges
  PROVE  /\ RegistryTypes(b)' /\ SameSessions(b) /\ CountHolds(b)'
         /\ CandidatesAreTheirOwn(b)' /\ ChallengesAgree(b)'
         /\ rsSessions'[s].gen = rsSessions[s].gen /\ rsSessions'[s].cand.path = p
         /\ rsSessions'[s].cand.epoch = rsSessions[s].epoch + 1
         /\ \A r \in b.sids : RR(b)!HasCandidate(r)' /\ rsSessions'[r].cand.id = rsNextTicket =>
              r = s
<1>0. RegistryTypes(b) /\ CandidatesAreTheirOwn(b) /\ ChallengesAgree(b) /\ CountHolds(b)
  BY DEF RegistryInv
<1> DEFINE T == RR(b)!Swept(S)
           new == [id |-> rsNextTicket, path |-> p, epoch |-> rsSessions[s].epoch + 1,
                   old |-> FALSE]
<1>1. /\ T \in [b.sids -> {RR(b)!NoSession} \cup Session(b)]
      /\ \A r \in b.sids :
           /\ T[r].gen = rsSessions[r].gen
           /\ T[r] = RR(b)!NoSession <=> rsSessions[r] = RR(b)!NoSession
           /\ RR(b)!Live(r) => /\ T[r].epoch = rsSessions[r].epoch /\ T[r].path = rsSessions[r].path
                               /\ T[r].last = rsSessions[r].last
           /\ T[r].cand = IF r \in S THEN RR(b)!NoCandidate ELSE rsSessions[r].cand
  BY <1>0, SweepFacts
<1>2. rsSessions[s] \in Session(b) /\ rsNextTicket \in Number
  BY <1>0, SessionShape DEF RegistryTypes
<1>3. /\ new \in PathCandidate(b) /\ new.id = rsNextTicket /\ new.path = p
      /\ new.epoch = rsSessions[s].epoch + 1 /\ new # RR(b)!NoCandidate
  BY <1>2 DEF PathCandidate, Number, RR!NoCandidate, Session
<1>4. rsSessions' = [T EXCEPT ![s].cand = new]
  OBVIOUS
<1> HIDE DEF new, T
<1>5. T[s] # RR(b)!NoSession /\ T[s] \in Session(b)
  BY <1>1 DEF RR!Live
<1>6. /\ rsSessions'[s] = [T[s] EXCEPT !.cand = new]
      /\ \A r \in b.sids : r # s => rsSessions'[r] = T[r]
      /\ rsSessions' = [r \in b.sids |-> rsSessions'[r]]
  BY <1>1, <1>4
<1>7. /\ rsSessions'[s] \in Session(b) /\ rsSessions'[s].gen = rsSessions[s].gen
      /\ rsSessions'[s].epoch = rsSessions[s].epoch
      /\ rsSessions'[s].path = rsSessions[s].path
      /\ rsSessions'[s].cand = new
  <2>1. /\ T[s].gen = rsSessions[s].gen /\ T[s].epoch = rsSessions[s].epoch
        /\ T[s].path = rsSessions[s].path
    BY <1>1
  <2>2. /\ rsSessions'[s] \in Session(b) /\ rsSessions'[s].gen = T[s].gen
        /\ rsSessions'[s].epoch = T[s].epoch
        /\ rsSessions'[s].path = T[s].path
        /\ rsSessions'[s].cand = new
    BY <1>3, <1>5, <1>6 DEF Session
  <2> QED
    BY <2>1, <2>2
<1>8. rsSessions'[s] # RR(b)!NoSession
  BY <1>7 DEF Session, Number, RR!NoSession
<1>9. SameSessions(b)
  <2>1. ASSUME NEW r \in b.sids
        PROVE  /\ rsSessions'[r].gen = rsSessions[r].gen
               /\ rsSessions'[r] = RR(b)!NoSession <=> rsSessions[r] = RR(b)!NoSession
               /\ RR(b)!Live(r) => rsSessions'[r].epoch = rsSessions[r].epoch
                    /\ rsSessions'[r].path = rsSessions[r].path
    <3>1. CASE r = s
      BY <1>7, <1>8, <3>1 DEF RR!Live
    <3>2. CASE r # s
      BY <1>1, <1>6, <3>2
    <3> QED
      BY <3>1, <3>2
  <2> QED
    BY <2>1 DEF SameSessions
<1>10. rsSessions' \in [b.sids -> {RR(b)!NoSession} \cup Session(b)]
  BY <1>1, <1>6, <1>7
<1>11. /\ RR(b)!HasCandidate(s)'
       /\ \A r \in b.sids : r # s => (RR(b)!HasCandidate(r)' <=> RR(b)!HasCandidate(r)
            /\ r \notin S)
       /\ \A r \in b.sids : r # s /\ RR(b)!HasCandidate(r)' =>
            rsSessions'[r].cand = rsSessions[r].cand
  <2>1. RR(b)!HasCandidate(s)'
    BY <1>3, <1>7, <1>8 DEF RR!HasCandidate, RR!Live
  <2>2. ASSUME NEW r \in b.sids, r # s
        PROVE  /\ RR(b)!HasCandidate(r)' <=> RR(b)!HasCandidate(r) /\ r \notin S
               /\ RR(b)!HasCandidate(r)' => rsSessions'[r].cand = rsSessions[r].cand
    <3>1. /\ rsSessions'[r] = T[r] /\ (T[r] = RR(b)!NoSession <=> rsSessions[r] = RR(b)!NoSession)
          /\ T[r].cand = IF r \in S THEN RR(b)!NoCandidate ELSE rsSessions[r].cand
      BY <1>1, <1>6, <2>2
    <3> QED
      BY <3>1 DEF RR!HasCandidate, RR!Live
  <2> QED
    BY <2>1, <2>2
<1>12. Candidates(b)' = (Candidates(b) \ S) \cup {s}
  BY <1>11 DEF Candidates
<1>13. RegistryTypes(b)' /\ CountHolds(b)'
  <2>1. IsFiniteSet(Candidates(b))
    BY <1>0, OverdueFacts
  <2>2. /\ RR(b)!Cardinality(S) \in Nat /\ RR(b)!Cardinality(Candidates(b)) \in Nat
        /\ RR(b)!Cardinality(Candidates(b) \ S) =
               RR(b)!Cardinality(Candidates(b)) - RR(b)!Cardinality(S)
    BY <2>1, LeftOver
  <2>3. IsFiniteSet(Candidates(b) \ S)
    BY <2>1, FS_Difference, RegistryCardinality
  <2>4. RR(b)!Cardinality(Candidates(b)') = RR(b)!Cardinality(Candidates(b) \ S) + 1
    BY <1>12, <2>3, FS_AddElement, RegistryCardinality
  <2>5. /\ rsCount = RR(b)!Cardinality(Candidates(b)) /\ rsCount \in Int
        /\ rsTotals.attempts = rsTotals.commits + rsTotals.failures + rsCount
        /\ rsTotals \in [attempts : Int, commits : Int, failures : Int]
    BY <1>0 DEF CountHolds, RegistryTypes
  <2>6. rsCount' = RR(b)!Cardinality(Candidates(b)') /\ rsCount' \in Int
          /\ rsCount' <= b.maxCandidates
    BY <2>2, <2>4, <2>5, RegistriesAssumption
  <2>7. /\ RR(b)!Failed(RR(b)!Cardinality(S)) \in [attempts : Int, commits : Int, failures : Int]
        /\ RR(b)!Failed(RR(b)!Cardinality(S)).attempts = rsTotals.attempts
        /\ RR(b)!Failed(RR(b)!Cardinality(S)).commits = rsTotals.commits
        /\ RR(b)!Failed(RR(b)!Cardinality(S)).failures = rsTotals.failures + RR(b)!Cardinality(S)
    BY <2>2, <2>5 DEF RR!Failed
  <2>8. /\ rsTotals' \in [attempts : Int, commits : Int, failures : Int]
        /\ rsTotals'.attempts = rsTotals.attempts + 1 /\ rsTotals'.commits = rsTotals.commits
        /\ rsTotals'.failures = rsTotals.failures + RR(b)!Cardinality(S)
    BY <2>7
  <2>9. rsTotals.attempts \in Int /\ rsTotals.commits \in Int /\ rsTotals.failures \in Int
    BY <2>5
  <2>10. rsTotals'.attempts = rsTotals'.commits + rsTotals'.failures + rsCount'
    BY <2>2, <2>5, <2>8, <2>9
  <2>11. rsNextTicket' \in Number
    BY <1>2 DEF Number
  <2>12. RegistryTypes(b)'
    BY <1>0, <1>10, <2>6, <2>8, <2>11 DEF RegistryTypes
  <2> QED
    BY <2>6, <2>10, <2>12 DEF CountHolds
<1>14. /\ \A r \in b.sids : RR(b)!HasCandidate(r) =>
            /\ rsSessions[r].cand.id < rsNextTicket
                 /\ rsSessions[r].cand.epoch = rsSessions[r].epoch + 1
            /\ rsSessions[r].cand.id \in Number
       /\ \A q, r \in b.sids :
            RR(b)!HasCandidate(q) /\ RR(b)!HasCandidate(r)
              /\ rsSessions[q].cand.id = rsSessions[r].cand.id
              => q = r
  <2>1. \A r \in b.sids : RR(b)!HasCandidate(r) => rsSessions[r].cand \in PathCandidate(b)
    BY <1>0, SessionShape
  <2> QED
    BY <1>0, <2>1 DEF CandidatesAreTheirOwn, PathCandidate
<1>15. \A r \in b.sids : RR(b)!HasCandidate(r)' /\ rsSessions'[r].cand.id = rsNextTicket => r = s
  <2> SUFFICES ASSUME NEW r \in b.sids, RR(b)!HasCandidate(r)',
                      rsSessions'[r].cand.id = rsNextTicket, r # s
               PROVE FALSE
    OBVIOUS
  <2>1. RR(b)!HasCandidate(r) /\ rsSessions[r].cand.id = rsNextTicket
    BY <1>11
  <2> QED
    BY <1>2, <1>14, <2>1 DEF Number
<1>16. CandidatesAreTheirOwn(b)'
  <2>1. ASSUME NEW r \in b.sids, RR(b)!HasCandidate(r)'
        PROVE  rsSessions'[r].cand.id < rsNextTicket'
                 /\ rsSessions'[r].cand.epoch = rsSessions'[r].epoch + 1
    <3>1. CASE r = s
      BY <1>2, <1>3, <1>7, <3>1 DEF Number
    <3>2. CASE r # s
      <4>1. RR(b)!HasCandidate(r) /\ rsSessions'[r].cand = rsSessions[r].cand
            /\ rsSessions'[r].epoch = rsSessions[r].epoch
        BY <1>9, <1>11, <2>1, <3>2 DEF SameSessions, RR!HasCandidate
      <4> QED
        BY <1>2, <1>14, <4>1 DEF Number
    <3> QED
      BY <3>1, <3>2
  <2>2. ASSUME NEW q \in b.sids, NEW r \in b.sids, RR(b)!HasCandidate(q)', RR(b)!HasCandidate(r)',
               rsSessions'[q].cand.id = rsSessions'[r].cand.id
        PROVE  q = r
    <3>1. CASE q # s /\ r # s
      <4>1. /\ RR(b)!HasCandidate(q) /\ RR(b)!HasCandidate(r)
                 /\ rsSessions'[q].cand = rsSessions[q].cand
            /\ rsSessions'[r].cand = rsSessions[r].cand
        BY <1>11, <2>2, <3>1
      <4> QED
        BY <1>14, <2>2, <4>1
    <3>2. CASE q = s
      BY <1>3, <1>7, <1>15, <2>2, <3>2
    <3>3. CASE r = s
      BY <1>3, <1>7, <1>15, <2>2, <3>3
    <3> QED
      BY <3>1, <3>2, <3>3
  <2> QED
    BY <2>1, <2>2 DEF CandidatesAreTheirOwn
<1>17. ChallengesAgree(b)'
  <2>1. ASSUME NEW c \in rsChallenges
        PROVE  /\ c.token < rsNextTicket'
               /\ \A r \in b.sids : RR(b)!HasCandidate(r)' /\ rsSessions'[r].cand.id = c.token =>
                    /\ c.gen = rsSessions'[r].gen /\ c.epoch = rsSessions'[r].cand.epoch
                    /\ c.path = rsSessions'[r].cand.path
    <3>1. c.token < rsNextTicket /\ c.token \in Nat
      BY <1>0 DEF ChallengesAgree, RegistryInv, IngressTypes
    <3>2. ASSUME NEW r \in b.sids, RR(b)!HasCandidate(r)', rsSessions'[r].cand.id = c.token
          PROVE  /\ c.gen = rsSessions'[r].gen /\ c.epoch = rsSessions'[r].cand.epoch
                 /\ c.path = rsSessions'[r].cand.path
      <4>1. r # s
        BY <1>2, <1>3, <1>7, <3>1, <3>2 DEF Number
      <4>2. /\ RR(b)!HasCandidate(r) /\ rsSessions'[r].cand = rsSessions[r].cand
            /\ rsSessions'[r].gen = rsSessions[r].gen
        BY <1>9, <1>11, <3>2, <4>1 DEF SameSessions
      <4> QED
        BY <1>0, <3>2, <4>2 DEF ChallengesAgree
    <3> QED
      BY <1>2, <3>1, <3>2 DEF Number
  <2> QED
    BY <2>1 DEF ChallengesAgree
<1> QED
  BY <1>3, <1>7, <1>9, <1>13, <1>15, <1>16, <1>17

\* A PATH_INIT refreshes a candidate, makes one or is refused.
LEMMA PathInitStep ==
  ASSUME NEW b \in Registries, RegistryInv(b), RR(b)!Observe
  PROVE  RegistryInv(b)'
<1>0. RegistryTypes(b) /\ DirectoryTypes(b) /\ IngressTypes(b)
  BY DEF RegistryInv
<1> DEFINE at == rsHand.d.at
           from == rsHand.d.from
           S == RR(b)!FirstSwept(rsHand.d.at)
           T == RR(b)!Swept(S)
           present == T[at.sid].cand
<1>1. /\ rsHand.pc = "init" /\ rsDir' = rsDir /\ rsOwners' = rsOwners /\ rsHeld' = rsHeld
      /\ rsMailbox' = rsMailbox /\ rsIndex' = rsIndex /\ rsNextGen' = rsNextGen
      /\ rsChallenges' = rsChallenges
  BY DEF RR!Observe, RR!directory
<1>2. /\ rsHand \in [pc : {"init", "response"}, d : Routed(b), owner : b.addresses,
                   ticket : {RR(b)!NoCandidate}]
      /\ rsHand.d \in Routed(b) /\ rsHand.owner \in b.addresses
      /\ at \in CidOwner(b) /\ at.sid \in b.sids /\ from \in b.addresses
  BY <1>0, <1>1, HandShape, IdleShape
<1>3. S \subseteq Candidates(b)
  BY <1>0, <1>2, FirstSweptFacts, OverdueFacts
<1>4. SameEntries(b) /\ DirectoryTypes(b)'
  BY <1>0, <1>1 DEF SameEntries, DirectoryTypes
<1>5. /\ T \in [b.sids -> {RR(b)!NoSession} \cup Session(b)]
      /\ \A s \in b.sids :
           /\ T[s].gen = rsSessions[s].gen
           /\ T[s] = RR(b)!NoSession <=> rsSessions[s] = RR(b)!NoSession
           /\ RR(b)!Live(s) => /\ T[s].epoch = rsSessions[s].epoch /\ T[s].path = rsSessions[s].path
                               /\ T[s].last = rsSessions[s].last
           /\ T[s].cand = IF s \in S THEN RR(b)!NoCandidate ELSE rsSessions[s].cand
  BY <1>0, <1>3, SweepFacts
<1>6. \/ /\ RR(b)!Acceptable(at, from) /\ present # RR(b)!NoCandidate /\ present.path = from
         /\ rsSessions' = T /\ rsCount' = rsCount - RR(b)!Cardinality(S)
              /\ rsTotals' = RR(b)!Failed(RR(b)!Cardinality(S))
         /\ rsHand' = [rsHand EXCEPT !.pc = "publish",
                       !.ticket = [id |-> present.id, gen |-> at.gen, sid |-> at.sid]]
         /\ rsNextTicket' = rsNextTicket
      \/ /\ RR(b)!Acceptable(at, from)
         /\ present = RR(b)!NoCandidate /\ rsCount - RR(b)!Cardinality(S) < b.maxCandidates
         /\ rsSessions' = [T EXCEPT ![at.sid].cand =
               [id |-> rsNextTicket, path |-> from, epoch |-> at.epoch, old |-> FALSE]]
         /\ rsCount' = rsCount - RR(b)!Cardinality(S) + 1
         /\ rsNextTicket' = rsNextTicket + 1
         /\ rsTotals' = [RR(b)!Failed(RR(b)!Cardinality(S)) EXCEPT !.attempts = @ + 1]
         /\ rsHand' = [rsHand EXCEPT !.pc = "publish",
                       !.ticket = [id |-> rsNextTicket, gen |-> at.gen, sid |-> at.sid]]
      \/ /\ rsSessions' = T /\ rsCount' = rsCount - RR(b)!Cardinality(S)
              /\ rsTotals' = RR(b)!Failed(RR(b)!Cardinality(S))
         /\ rsHand' = RR(b)!Idle /\ rsNextTicket' = rsNextTicket
  BY DEF RR!Observe
<1>7. RR(b)!Acceptable(at, from) => /\ RR(b)!Live(at.sid) /\ rsSessions[at.sid].gen = at.gen
                                    /\ at.epoch = rsSessions[at.sid].epoch + 1
  BY DEF RR!Acceptable
<1> HIDE DEF S, T, at, from
<1>8. CASE /\ rsSessions' = T /\ rsCount' = rsCount - RR(b)!Cardinality(S)
                /\ rsTotals' = RR(b)!Failed(RR(b)!Cardinality(S))
           /\ rsHand' = RR(b)!Idle /\ rsNextTicket' = rsNextTicket
  <2>1. RegistryTypes(b)' /\ SameSessions(b) /\ FewerCandidates(b) /\ CountHolds(b)'
    BY <1>1, <1>3, <1>8, SweptStep DEF T
  <2>2. IngressTypes(b)'
    BY <1>0, <1>1, <1>8 DEF IngressTypes
  <2> QED
    BY <1>1, <1>4, <1>8, <2>1, <2>2, IdleShape, QuietStep
<1>9. CASE /\ RR(b)!Acceptable(at, from) /\ present # RR(b)!NoCandidate /\ present.path = from
           /\ rsSessions' = T /\ rsCount' = rsCount - RR(b)!Cardinality(S)
                /\ rsTotals' = RR(b)!Failed(RR(b)!Cardinality(S))
           /\ rsHand' = [rsHand EXCEPT !.pc = "publish",
                         !.ticket = [id |-> present.id, gen |-> at.gen, sid |-> at.sid]]
           /\ rsNextTicket' = rsNextTicket
  <2>1. RegistryTypes(b)' /\ SameSessions(b) /\ FewerCandidates(b) /\ CountHolds(b)'
    BY <1>1, <1>3, <1>9, SweptStep DEF T
  <2>2. at.sid \notin S /\ present = rsSessions[at.sid].cand /\ RR(b)!HasCandidate(at.sid)
    BY <1>2, <1>5, <1>7, <1>9 DEF RR!HasCandidate
  <2>3. present \in PathCandidate(b) /\ at.gen \in Number /\ present.id \in Number
    BY <1>0, <1>2, <2>2, SessionShape DEF CidOwner, PathCandidate
  <2> DEFINE ticket == [id |-> present.id, gen |-> at.gen, sid |-> at.sid]
  <2>4. ticket \in PathTicket(b) /\ ticket.id = present.id /\ ticket.gen = at.gen
          /\ ticket.sid = at.sid
    BY <1>2, <2>3 DEF PathTicket
  <2> HIDE DEF present
  <2>5. rsHand' = [rsHand EXCEPT !.pc = "publish", !.ticket = ticket]
    BY <1>9
  <2> HIDE DEF ticket
  <2>6. /\ rsHand' \in [pc : {"publish", "challenge"}, d : Routed(b), owner : b.addresses,
                      ticket : PathTicket(b)]
        /\ rsHand'.pc = "publish" /\ rsHand'.ticket = ticket /\ rsHand'.d = rsHand.d
    BY <1>2, <2>4, <2>5
  <2>7. IngressTypes(b)'
    BY <1>0, <1>1, <2>6 DEF IngressTypes
  <2>8. IndexHolds(b)' /\ OneRegistration(b)' /\ EntriesAreFiled(b)' /\ RR(b)!MovesAreValidated'
    BY <1>1, <1>4, <2>1, SessionsStay
  <2>9. CandidatesAreTheirOwn(b)' /\ ChallengesAgree(b)'
    BY <1>1, <1>9, <2>1, CandidatesEnd
  <2>10. HandAgrees(b)'
    <3>1. \A s \in b.sids : RR(b)!HasCandidate(s)' =>
            /\ RR(b)!HasCandidate(s) /\ rsSessions'[s].gen = rsSessions[s].gen
            /\ rsSessions'[s].cand.id = rsSessions[s].cand.id
            /\ rsSessions'[s].cand.epoch = rsSessions[s].cand.epoch
            /\ rsSessions'[s].cand.path = rsSessions[s].cand.path
      BY <2>1 DEF FewerCandidates, RR!HasCandidate, RR!Live
    <3>2. /\ \A s \in b.sids : RR(b)!HasCandidate(s) =>
               rsSessions[s].cand.id < rsNextTicket
                 /\ rsSessions[s].cand.epoch = rsSessions[s].epoch + 1
          /\ \A s, r \in b.sids :
               RR(b)!HasCandidate(s) /\ RR(b)!HasCandidate(r)
                 /\ rsSessions[s].cand.id = rsSessions[r].cand.id
                 => s = r
      BY DEF RegistryInv, CandidatesAreTheirOwn
    <3>3. rsHand'.ticket.id < rsNextTicket'
      BY <1>2, <1>9, <2>2, <2>4, <2>6, <3>2
    <3>4. ASSUME NEW s \in b.sids, RR(b)!HasCandidate(s)',
                 rsSessions'[s].cand.id = rsHand'.ticket.id
          PROVE  /\ rsHand'.ticket.sid = s /\ rsHand'.ticket.gen = rsSessions'[s].gen
                 /\ rsHand'.d.at.epoch = rsSessions'[s].cand.epoch
                 /\ rsHand'.d.from = rsSessions'[s].cand.path
      <4>1. s = at.sid
        BY <1>2, <2>2, <2>4, <2>6, <3>1, <3>2, <3>4
      <4>2. /\ rsSessions'[s].gen = at.gen /\ rsSessions'[s].cand.epoch = at.epoch
            /\ rsSessions'[s].cand.path = from
        BY <1>7, <1>9, <2>2, <3>1, <3>2, <3>4, <4>1
      <4> QED
        BY <2>4, <2>6, <4>1, <4>2 DEF at, from
    <3> QED
      BY <3>3, <3>4 DEF HandAgrees
  <2>11. ResponsesAreChallenged(b)'
    BY <1>1, <2>6 DEF RegistryInv, ResponsesAreChallenged
  <2> QED
    BY <1>4, <2>1, <2>7, <2>8, <2>9, <2>10, <2>11 DEF RegistryInv
<1>10. CASE /\ RR(b)!Acceptable(at, from)
            /\ present = RR(b)!NoCandidate /\ rsCount - RR(b)!Cardinality(S) < b.maxCandidates
            /\ rsSessions' = [T EXCEPT ![at.sid].cand =
                  [id |-> rsNextTicket, path |-> from, epoch |-> at.epoch, old |-> FALSE]]
            /\ rsCount' = rsCount - RR(b)!Cardinality(S) + 1
            /\ rsNextTicket' = rsNextTicket + 1
            /\ rsTotals' = [RR(b)!Failed(RR(b)!Cardinality(S)) EXCEPT !.attempts = @ + 1]
            /\ rsHand' = [rsHand EXCEPT !.pc = "publish",
                          !.ticket = [id |-> rsNextTicket, gen |-> at.gen, sid |-> at.sid]]
  <2> DEFINE ticket == [id |-> rsNextTicket, gen |-> at.gen, sid |-> at.sid]
  <2>1. rsNextTicket \in Number /\ at.gen \in Number
    BY <1>0, <1>2 DEF RegistryTypes, CidOwner
  <2>2. ticket \in PathTicket(b) /\ ticket.id = rsNextTicket /\ ticket.gen = at.gen
          /\ ticket.sid = at.sid
    BY <1>2, <2>1 DEF PathTicket
  <2>3. rsHand' = [rsHand EXCEPT !.pc = "publish", !.ticket = ticket]
    BY <1>10
  <2> HIDE DEF ticket
  <2>4. /\ rsHand' \in [pc : {"publish", "challenge"}, d : Routed(b), owner : b.addresses,
                      ticket : PathTicket(b)]
        /\ rsHand'.pc = "publish" /\ rsHand'.ticket = ticket /\ rsHand'.d = rsHand.d
    BY <1>2, <2>2, <2>3
  <2>5. IngressTypes(b)'
    BY <1>0, <1>1, <2>4 DEF IngressTypes
  <2>6. PICK s \in b.sids : s = at.sid
    BY <1>2
  <2>7. RR(b)!Live(s) /\ s \notin Candidates(b) \ S /\ at.epoch = rsSessions[s].epoch + 1
        /\ rsSessions[s].gen = at.gen
    BY <1>5, <1>7, <1>10, <2>6 DEF Candidates, RR!HasCandidate
  <2>8. PICK p \in b.addresses : p = from
    BY <1>2
  <2>9. rsSessions' = [RR(b)!Swept(S) EXCEPT ![s].cand =
           [id |-> rsNextTicket, path |-> p, epoch |-> rsSessions[s].epoch + 1, old |-> FALSE]]
    BY <1>10, <2>6, <2>7, <2>8 DEF T
  <2>10. /\ rsCount - RR(b)!Cardinality(S) < b.maxCandidates
         /\ rsCount' = rsCount - RR(b)!Cardinality(S) + 1 /\ rsNextTicket' = rsNextTicket + 1
         /\ rsTotals' = [RR(b)!Failed(RR(b)!Cardinality(S)) EXCEPT !.attempts = @ + 1]
    BY <1>10
  <2>11. /\ RegistryTypes(b)' /\ SameSessions(b) /\ CountHolds(b)'
         /\ CandidatesAreTheirOwn(b)' /\ ChallengesAgree(b)'
         /\ rsSessions'[s].gen = rsSessions[s].gen /\ rsSessions'[s].cand.path = p
         /\ rsSessions'[s].cand.epoch = rsSessions[s].epoch + 1
         /\ \A r \in b.sids : RR(b)!HasCandidate(r)' /\ rsSessions'[r].cand.id = rsNextTicket =>
              r = s
    BY <1>1, <1>3, <2>7, <2>9, <2>10, NewCandidate
  <2>12. IndexHolds(b)' /\ OneRegistration(b)' /\ EntriesAreFiled(b)' /\ RR(b)!MovesAreValidated'
    BY <1>1, <1>4, <2>11, SessionsStay
  <2>13. HandAgrees(b)'
    <3>1. rsHand'.ticket.id < rsNextTicket'
      BY <2>1, <2>2, <2>4, <2>10 DEF Number
    <3>2. ASSUME NEW r \in b.sids, RR(b)!HasCandidate(r)',
                 rsSessions'[r].cand.id = rsHand'.ticket.id
          PROVE  /\ rsHand'.ticket.sid = r /\ rsHand'.ticket.gen = rsSessions'[r].gen
                 /\ rsHand'.d.at.epoch = rsSessions'[r].cand.epoch
                 /\ rsHand'.d.from = rsSessions'[r].cand.path
      <4>1. r = s
        BY <2>2, <2>4, <2>11, <3>2
      <4> QED
        BY <2>2, <2>4, <2>6, <2>7, <2>8, <2>11, <4>1 DEF at, from
    <3> QED
      BY <3>1, <3>2 DEF HandAgrees
  <2>14. ResponsesAreChallenged(b)'
    BY <1>1, <2>4 DEF RegistryInv, ResponsesAreChallenged
  <2> QED
    BY <1>4, <2>5, <2>11, <2>12, <2>13, <2>14 DEF RegistryInv
<1> QED
  BY <1>6, <1>8, <1>9, <1>10


\* Dropping a registration: the session of that generation and its aliases go, or nothing.
LEMMA DropFacts ==
  ASSUME NEW b \in Registries, RegistryInv(b), NEW s \in b.sids,
         NEW g, RR(b)!Live(s), rsSessions[s].gen = g, RR(b)!DropRegistration(s, g)
  PROVE  /\ RegistryTypes(b)' /\ IndexHolds(b)' /\ CountHolds(b)' /\ FewerCandidates(b)
         /\ rsNextTicket' = rsNextTicket /\ rsSessions'[s] = RR(b)!NoSession
         /\ \A r \in b.sids : r # s => rsSessions'[r] = rsSessions[r]
<1>0. RegistryTypes(b) /\ IndexHolds(b) /\ CountHolds(b)
  BY DEF RegistryInv
<1> DEFINE S == IF RR(b)!HasCandidate(s) THEN {s} ELSE {}
<1>1. /\ rsSessions' = [rsSessions EXCEPT ![s] = RR(b)!NoSession]
      /\ rsIndex' = RR(b)!Unindexed(s, g) /\ rsNextGen' = rsNextGen /\ rsNextTicket' = rsNextTicket
      /\ rsCount' = rsCount - (IF RR(b)!HasCandidate(s) THEN 1 ELSE 0)
      /\ rsTotals' = RR(b)!Failed(IF RR(b)!HasCandidate(s) THEN 1 ELSE 0)
  BY DEF RR!DropRegistration
<1>2. RR(b)!Cardinality(S) = IF RR(b)!HasCandidate(s) THEN 1 ELSE 0
  BY FS_Singleton, FS_EmptySet, RegistryCardinality
<1>3. S \subseteq Candidates(b)
  BY DEF Candidates
<1>4. rsSessions \in [b.sids -> {RR(b)!NoSession} \cup Session(b)]
  BY <1>0 DEF RegistryTypes
<1>5. /\ rsSessions'[s] = RR(b)!NoSession /\ \A r \in b.sids : r # s =>
           rsSessions'[r] = rsSessions[r]
      /\ rsSessions' \in [b.sids -> {RR(b)!NoSession} \cup Session(b)]
  BY <1>1, <1>4
<1>6. /\ ~RR(b)!HasCandidate(s)'
      /\ \A r \in b.sids : r # s => (RR(b)!HasCandidate(r)' <=> RR(b)!HasCandidate(r))
  BY <1>5 DEF RR!HasCandidate, RR!Live
<1>7. Candidates(b)' = Candidates(b) \ S
  BY <1>6 DEF Candidates
<1> HIDE DEF S
<1>8. CountHolds(b)' /\ rsCount' \in Int
        /\ rsTotals' \in [attempts : Int, commits : Int, failures : Int]
  BY <1>1, <1>2, <1>3, <1>7, SweepIsCounted
<1>9. FewerCandidates(b)
  BY <1>5 DEF FewerCandidates, RR!HasCandidate, RR!Live
<1>10. /\ DOMAIN rsIndex' = {d \in DOMAIN rsIndex : rsIndex[d].sid # s \/ rsIndex[d].gen # g}
       /\ \A c \in DOMAIN rsIndex' : rsIndex'[c] = rsIndex[c]
       /\ rsIndex' = [c \in DOMAIN rsIndex' |-> rsIndex'[c]]
  BY <1>1 DEF RR!Unindexed
<1>11. \A c \in DOMAIN rsIndex : rsIndex[c] \in CidOwner(b) /\ rsIndex[c].sid \in b.sids
  BY <1>0 DEF RegistryTypes, CidOwner
<1>12. RegistryTypes(b)'
  <2>1. rsIndex' \in [DOMAIN rsIndex' -> CidOwner(b)]
    BY <1>10, <1>11
  <2> QED
    BY <1>0, <1>1, <1>5, <1>8, <2>1 DEF RegistryTypes
<1>13. IndexHolds(b)'
  <2>1. /\ \A r \in b.sids : RR(b)!Live(r) =>
             \A n \in RR(b)!Aliases(rsSessions[r].epoch) :
               /\ b.cid[rsSessions[r].gen, n] \in DOMAIN rsIndex
               /\ rsIndex[b.cid[rsSessions[r].gen, n]] = RR(b)!Owner(r, rsSessions[r].gen, n)
        /\ \A c \in DOMAIN rsIndex :
             /\ RR(b)!Live(rsIndex[c].sid) /\ rsSessions[rsIndex[c].sid].gen = rsIndex[c].gen
             /\ rsIndex[c].epoch \in RR(b)!Aliases(rsSessions[rsIndex[c].sid].epoch)
             /\ c = b.cid[rsIndex[c].gen, rsIndex[c].epoch]
    BY <1>0 DEF IndexHolds
  <2>2. \A r, g2, n : RR(b)!Owner(r, g2, n).sid = r /\ RR(b)!Owner(r, g2, n).gen = g2
    BY DEF RR!Owner
  <2>3. ASSUME NEW r \in b.sids, rsSessions'[r] # RR(b)!NoSession,
               NEW n \in RR(b)!Aliases(rsSessions'[r].epoch)
        PROVE  /\ b.cid[rsSessions'[r].gen, n] \in DOMAIN rsIndex'
               /\ rsIndex'[b.cid[rsSessions'[r].gen, n]] = RR(b)!Owner(r, rsSessions'[r].gen, n)
    <3>1. r # s /\ rsSessions'[r] = rsSessions[r] /\ RR(b)!Live(r)
      BY <1>5, <2>3 DEF RR!Live
    <3> DEFINE c == b.cid[rsSessions[r].gen, n]
    <3>2. c \in DOMAIN rsIndex /\ rsIndex[c] = RR(b)!Owner(r, rsSessions[r].gen, n)
      BY <2>1, <2>3, <3>1
    <3> HIDE DEF c
    <3>3. c \in DOMAIN rsIndex' /\ rsIndex'[c] = RR(b)!Owner(r, rsSessions[r].gen, n)
      BY <1>10, <2>2, <3>1, <3>2
    <3> QED
      BY <3>1, <3>3 DEF c
  <2>4. ASSUME NEW c \in DOMAIN rsIndex'
        PROVE  /\ rsSessions'[rsIndex'[c].sid] # RR(b)!NoSession
               /\ rsSessions'[rsIndex'[c].sid].gen = rsIndex'[c].gen
               /\ rsIndex'[c].epoch \in RR(b)!Aliases(rsSessions'[rsIndex'[c].sid].epoch)
               /\ c = b.cid[rsIndex'[c].gen, rsIndex'[c].epoch]
    <3>1. c \in DOMAIN rsIndex /\ rsIndex'[c] = rsIndex[c] /\ (rsIndex[c].sid # s
            \/ rsIndex[c].gen # g)
          /\ rsIndex[c].sid \in b.sids
      BY <1>10, <1>11
    <3>2. /\ RR(b)!Live(rsIndex[c].sid) /\ rsSessions[rsIndex[c].sid].gen = rsIndex[c].gen
          /\ rsIndex[c].epoch \in RR(b)!Aliases(rsSessions[rsIndex[c].sid].epoch)
          /\ c = b.cid[rsIndex[c].gen, rsIndex[c].epoch]
      BY <2>1, <3>1
    <3>3. rsIndex[c].sid # s
      BY <3>1, <3>2
    <3>4. rsSessions'[rsIndex[c].sid] = rsSessions[rsIndex[c].sid]
      BY <1>5, <3>1, <3>3
    <3> QED
      BY <3>1, <3>2, <3>4 DEF RR!Live
  <2> QED
    BY <2>3, <2>4 DEF IndexHolds, RR!Live
<1> QED
  BY <1>1, <1>5, <1>8, <1>9, <1>12, <1>13

\* A session that goes takes no challenge of another with it.
LEMMA MovesStay ==
  ASSUME NEW b \in Registries, RegistryInv(b), rsChallenges' = rsChallenges,
         \A r \in b.sids : rsSessions'[r] \in {rsSessions[r], RR(b)!NoSession}
  PROVE  RR(b)!MovesAreValidated'
<1>1. RR(b)!MovesAreValidated
  BY DEF RegistryInv
<1> QED
  BY <1>1 DEF RR!MovesAreValidated, RR!Live

\* An entry leaves the directory with its registration.
LEMMA RemovedStep ==
  ASSUME NEW b \in Registries, RegistryInv(b),
         NEW a \in b.addresses, RR(b)!Removed(a), rsHeld[a].gen = 0,
         rsHeld' = [rsHeld EXCEPT ![a] = RR(b)!Unregistered],
         rsMailbox' = rsMailbox, rsHand' = rsHand, rsChallenges' = rsChallenges
  PROVE  RegistryInv(b)'
<1>0. /\ RegistryTypes(b) /\ DirectoryTypes(b) /\ IngressTypes(b)
      /\ OneRegistration(b) /\ EntriesAreFiled(b)
  BY DEF RegistryInv
<1>1. /\ rsDir' = [rsDir EXCEPT ![a] = RR(b)!NoEntry] /\ rsOwners' = RR(b)!Forgotten(a, rsDir[a])
      /\ rsDir[a].kind = "session" => RR(b)!DropRegistration(rsDir[a].sid, rsDir[a].gen)
      /\ rsDir[a].kind # "session" => UNCHANGED RR(b)!registry
  BY DEF RR!Removed
<1>2. /\ rsDir \in [b.addresses -> {RR(b)!NoEntry, RR(b)!HalfOpen} \cup SessionEntry(b)]
      /\ rsHeld \in [b.addresses ->
             {RR(b)!Unregistered, RR(b)!Refused} \cup [gen : Number, sid : b.sids]]
  BY <1>0 DEF DirectoryTypes
<1>3. /\ rsDir'[a] = RR(b)!NoEntry /\ \A c \in b.addresses : c # a => rsDir'[c] = rsDir[c]
      /\ rsDir' \in [b.addresses -> {RR(b)!NoEntry, RR(b)!HalfOpen} \cup SessionEntry(b)]
  BY <1>1, <1>2
<1>4. /\ rsHeld'[a] = RR(b)!Unregistered /\ \A c \in b.addresses : c # a => rsHeld'[c] = rsHeld[c]
      /\ rsHeld' \in [b.addresses ->
             {RR(b)!Unregistered, RR(b)!Refused} \cup [gen : Number, sid : b.sids]]
  BY <1>2
<1>5. RR(b)!NoEntry.kind = "none" /\ RR(b)!HalfOpen.kind = "open" /\ RR(b)!Unregistered.gen = 0
  BY DEF RR!NoEntry, RR!HalfOpen, RR!Unregistered
<1>6. \A c \in b.addresses : /\ rsDir[c].kind = "session" => rsDir[c].sid \in b.sids
                             /\ rsHeld[c].gen # 0 => rsHeld[c].sid \in b.sids
  BY <1>0, EntryShape
<1>7. \A c \in b.addresses : rsHeld'[c].gen # 0 => c # a /\ rsHeld[c].gen # 0
  BY <1>4, <1>5
<1>8. \A c \in b.addresses : rsDir'[c].kind = "session" => c # a /\ rsDir[c].kind = "session"
  BY <1>3, <1>5
<1>9. \A c \in b.addresses : rsHeld'[c] # RR(b)!Unregistered => rsDir'[c] = RR(b)!HalfOpen
  BY <1>0, <1>3, <1>4 DEF OneRegistration
\* What happens to the registry, in one form for both cases.
<1>10. /\ RegistryTypes(b)' /\ IndexHolds(b)' /\ CountHolds(b)' /\ FewerCandidates(b)
       /\ rsNextTicket' = rsNextTicket
       /\ \A r \in b.sids : \/ rsSessions'[r] = rsSessions[r] /\ ~Files(a, r)
                            \/ rsSessions'[r] = RR(b)!NoSession /\ (Files(a, r) \/ ~RR(b)!Live(r))
  <2>1. CASE rsDir[a].kind = "session"
    <3>1. PICK s \in b.sids : s = rsDir[a].sid
      BY <1>6, <2>1
    <3>2. RR(b)!Live(s) /\ rsSessions[s].gen = rsDir[a].gen
            /\ RR(b)!DropRegistration(s, rsDir[a].gen)
      BY <1>0, <1>1, <2>1, <3>1 DEF EntriesAreFiled
    <3>3. PICK g : g = rsDir[a].gen
      OBVIOUS
    <3>4. RR(b)!Live(s) /\ rsSessions[s].gen = g /\ RR(b)!DropRegistration(s, g)
      BY <3>2, <3>3
    <3>5. /\ RegistryTypes(b)' /\ IndexHolds(b)' /\ CountHolds(b)' /\ FewerCandidates(b)
          /\ rsNextTicket' = rsNextTicket /\ rsSessions'[s] = RR(b)!NoSession
          /\ \A r \in b.sids : r # s => rsSessions'[r] = rsSessions[r]
      BY <3>4, DropFacts
    <3>6. \A r \in b.sids : Files(a, r) <=> r = s
      BY <2>1, <3>1 DEF Files
    <3> QED
      BY <3>5, <3>6
  <2>2. CASE rsDir[a].kind # "session"
    <3>1. UNCHANGED RR(b)!registry
      BY <1>1, <2>2
    <3>2. RegistryTypes(b)' /\ FewerCandidates(b) /\ CountHolds(b)'
      BY <3>1, RegistryStays
    <3>3. rsSessions' = rsSessions /\ rsIndex' = rsIndex /\ rsNextTicket' = rsNextTicket
      BY <3>1 DEF RR!registry
    <3>4. IndexHolds(b)'
      BY <3>3 DEF RegistryInv, IndexHolds, RR!Live
    <3>5. \A r \in b.sids : ~Files(a, r)
      BY <2>2 DEF Files
    <3> QED
      BY <3>2, <3>3, <3>4, <3>5
  <2> QED
    BY <2>1, <2>2
<1>11. \A c \in b.addresses, r \in b.sids :
         /\ Files(c, r)' <=> c # a /\ Files(c, r)
         /\ Holds(c, r)' <=> Holds(c, r)
  <2> SUFFICES ASSUME NEW c \in b.addresses, NEW r \in b.sids
               PROVE  /\ Files(c, r)' <=> c # a /\ Files(c, r)
                      /\ Holds(c, r)' <=> Holds(c, r)
    OBVIOUS
  <2>1. CASE c = a
    BY <1>3, <1>4, <1>5, <2>1 DEF Files, Holds
  <2>2. CASE c # a
    BY <1>3, <1>4, <2>2 DEF Files, Holds
  <2> QED
    BY <2>1, <2>2
<1>12. OneRegistration(b)'
  <2>1. ASSUME NEW r \in b.sids, rsSessions'[r] # RR(b)!NoSession
        PROVE  \E c \in b.addresses : Files(c, r)' \/ Holds(c, r)'
    <3>1. rsSessions'[r] = rsSessions[r] /\ ~Files(a, r)
      BY <1>10, <2>1
    <3>2. PICK c \in b.addresses : Files(c, r) \/ Holds(c, r)
      BY <1>0, <2>1, <3>1 DEF OneRegistration, RR!Live
    <3> QED
      BY <1>11, <3>1, <3>2
  <2>2. \A r \in b.sids, c, k \in b.addresses :
          (Files(c, r)' \/ Holds(c, r)') /\ (Files(k, r)' \/ Holds(k, r)') => c = k
    BY <1>0, <1>11 DEF OneRegistration
  <2> QED
    BY <1>9, <2>1, <2>2 DEF OneRegistration, RR!Live
<1>13. \A c \in b.addresses, r \in b.sids : c # a /\ (Files(c, r) \/ Holds(c, r)) /\ RR(b)!Live(r)
          => rsSessions'[r] = rsSessions[r]
  BY <1>0, <1>10 DEF OneRegistration
<1>14. EntriesAreFiled(b)'
  <2>1. ASSUME NEW c \in b.addresses, rsDir'[c].kind = "session"
        PROVE  /\ rsSessions'[rsDir'[c].sid] # RR(b)!NoSession
                    /\ rsDir'[c].gen = rsSessions'[rsDir'[c].sid].gen
               /\ rsDir'[c].epoch = rsSessions'[rsDir'[c].sid].epoch
               /\ rsDir'[c].peer = c /\ rsSessions'[rsDir'[c].sid].path = c
               /\ rsDir'[c].auth =>
                    rsOwners'[rsDir'[c].sid] = [gen |-> rsDir'[c].gen, address |-> c]
    <3>1. c # a /\ rsDir[c].kind = "session" /\ rsDir'[c] = rsDir[c] /\ rsDir[c].sid \in b.sids
      BY <1>3, <1>6, <1>8, <2>1
    <3>2. Files(c, rsDir[c].sid)
      BY <3>1 DEF Files
    <3>3. /\ RR(b)!Live(rsDir[c].sid) /\ rsDir[c].gen = rsSessions[rsDir[c].sid].gen
          /\ rsDir[c].epoch = rsSessions[rsDir[c].sid].epoch
          /\ rsDir[c].peer = c /\ rsSessions[rsDir[c].sid].path = c
          /\ rsDir[c].auth => rsOwners[rsDir[c].sid] = [gen |-> rsDir[c].gen, address |-> c]
      BY <1>0, <3>1 DEF EntriesAreFiled
    <3>4. rsSessions'[rsDir[c].sid] = rsSessions[rsDir[c].sid]
      BY <1>13, <3>1, <3>2, <3>3
    <3>5. rsOwners'[rsDir[c].sid] = rsOwners[rsDir[c].sid]
      <4>1. rsDir[a].kind = "session" => rsDir[a].sid # rsDir[c].sid
        BY <1>0, <3>1, <3>2 DEF OneRegistration, Files
      <4>2. rsOwners' = rsOwners \/ (rsDir[a].kind = "session"
              /\ rsOwners' = [rsOwners EXCEPT ![rsDir[a].sid] = RR(b)!NoOwner])
        BY <1>1 DEF RR!Forgotten
      <4>3. rsOwners \in [b.sids -> {RR(b)!NoOwner} \cup [gen : Number, address : b.addresses]]
        BY <1>0 DEF DirectoryTypes
      <4> QED
        BY <3>1, <4>1, <4>2, <4>3
    <3> QED
      BY <3>1, <3>3, <3>4, <3>5 DEF RR!Live
  <2>2. ASSUME NEW c \in b.addresses, rsHeld'[c].gen # 0
        PROVE  /\ rsSessions'[rsHeld'[c].sid] # RR(b)!NoSession
               /\ rsHeld'[c].gen = rsSessions'[rsHeld'[c].sid].gen
               /\ rsSessions'[rsHeld'[c].sid].epoch = 0 /\ rsSessions'[rsHeld'[c].sid].path = c
    <3>1. c # a /\ rsHeld[c].gen # 0 /\ rsHeld'[c] = rsHeld[c] /\ rsHeld[c].sid \in b.sids
      BY <1>4, <1>6, <1>7, <2>2
    <3>2. Holds(c, rsHeld[c].sid)
      BY <3>1 DEF Holds
    <3>3. /\ RR(b)!Live(rsHeld[c].sid) /\ rsHeld[c].gen = rsSessions[rsHeld[c].sid].gen
          /\ rsSessions[rsHeld[c].sid].epoch = 0 /\ rsSessions[rsHeld[c].sid].path = c
      BY <1>0, <3>1 DEF EntriesAreFiled
    <3>4. rsSessions'[rsHeld[c].sid] = rsSessions[rsHeld[c].sid]
      BY <1>13, <3>1, <3>2, <3>3
    <3> QED
      BY <3>1, <3>3, <3>4 DEF RR!Live
  <2> QED
    BY <2>1, <2>2 DEF EntriesAreFiled, RR!Live
<1>15. DirectoryTypes(b)'
  <2>1. rsOwners' \in [b.sids -> {RR(b)!NoOwner} \cup [gen : Number, address : b.addresses]]
    <3>1. rsOwners' = rsOwners \/ (rsDir[a].kind = "session"
            /\ rsOwners' = [rsOwners EXCEPT ![rsDir[a].sid] = RR(b)!NoOwner])
      BY <1>1 DEF RR!Forgotten
    <3>2. rsOwners \in [b.sids -> {RR(b)!NoOwner} \cup [gen : Number, address : b.addresses]]
      BY <1>0 DEF DirectoryTypes
    <3> QED
      BY <1>6, <3>1, <3>2
  <2> QED
    BY <1>3, <1>4, <2>1 DEF DirectoryTypes
<1>16. IngressTypes(b)'
  BY <1>0 DEF IngressTypes
<1>17. RR(b)!MovesAreValidated'
  BY <1>10, MovesStay
<1>18. CandidatesAreTheirOwn(b)' /\ ChallengesAgree(b)'
  BY <1>10, CandidatesEnd
<1>19. HandAgrees(b)' /\ ResponsesAreChallenged(b)'
  BY <1>10, HandStays
<1> QED
  BY <1>10, <1>12, <1>14, <1>15, <1>16, <1>17, <1>18, <1>19 DEF RegistryInv

\* An entry leaves the directory, with its registration.
LEMMA RemoveStep ==
  ASSUME NEW b \in Registries, RegistryInv(b), NEW a \in b.addresses, RR(b)!RefuseBootstrap(a)
           \/ RR(b)!RemoveEntry(a)
  PROVE  RegistryInv(b)'
<1>1. RR(b)!Refused.gen = 0 /\ RR(b)!Unregistered.gen = 0
  BY DEF RR!Refused, RR!Unregistered
<1>2. CASE RR(b)!RefuseBootstrap(a)
  <2>1. /\ rsHeld[a] = RR(b)!Refused /\ rsHeld' = [rsHeld EXCEPT ![a] = RR(b)!Unregistered]
             /\ RR(b)!Removed(a)
        /\ rsMailbox' = rsMailbox /\ rsHand' = rsHand /\ rsChallenges' = rsChallenges
    BY <1>2 DEF RR!RefuseBootstrap
  <2>2. rsHeld[a].gen = 0
    BY <1>1, <2>1
  <2> QED
    BY <2>1, <2>2, RemovedStep
<1>3. CASE RR(b)!RemoveEntry(a)
  <2>1. /\ rsHeld[a] = RR(b)!Unregistered /\ rsHeld' = rsHeld /\ RR(b)!Removed(a)
        /\ rsMailbox' = rsMailbox /\ rsHand' = rsHand /\ rsChallenges' = rsChallenges
    BY <1>3 DEF RR!RemoveEntry, RR!Leased
  <2>2. rsHeld \in [b.addresses ->
            {RR(b)!Unregistered, RR(b)!Refused} \cup [gen : Number, sid : b.sids]]
    BY DEF RegistryInv, DirectoryTypes
  <2>3. rsHeld' = [rsHeld EXCEPT ![a] = RR(b)!Unregistered]
    BY <2>1, <2>2
  <2>4. rsHeld[a].gen = 0
    BY <1>1, <2>1
  <2> QED
    BY <2>1, <2>3, <2>4, RemovedStep
<1> QED
  BY <1>2, <1>3

\* What a step that touches only the directory leaves as it is.
LEMMA DirectoryOnly ==
  ASSUME NEW b \in Registries, RegistryInv(b),
         UNCHANGED RR(b)!registry, rsMailbox' = rsMailbox, rsHand' = rsHand,
         rsChallenges' = rsChallenges, DirectoryTypes(b)', OneRegistration(b)', EntriesAreFiled(b)'
  PROVE  RegistryInv(b)'
<1>1. RegistryTypes(b)' /\ FewerCandidates(b) /\ CountHolds(b)'
  BY RegistryStays
<1>2. rsSessions' = rsSessions /\ rsIndex' = rsIndex /\ rsNextTicket' = rsNextTicket
  BY DEF RR!registry
<1>3. IndexHolds(b)' /\ RR(b)!MovesAreValidated'
  BY <1>2 DEF RegistryInv, IndexHolds, RR!MovesAreValidated, RR!Live
<1>4. CandidatesAreTheirOwn(b)' /\ ChallengesAgree(b)'
  BY <1>1, <1>2, CandidatesEnd
<1>5. HandAgrees(b)' /\ ResponsesAreChallenged(b)'
  BY <1>1, <1>2, HandStays
<1>6. IngressTypes(b)'
  BY DEF RegistryInv, IngressTypes
<1> QED
  BY <1>1, <1>3, <1>4, <1>5, <1>6 DEF RegistryInv

\* A half-open entry appears.
LEMMA HandshakeStep ==
  ASSUME NEW b \in Registries, RegistryInv(b), NEW a \in b.addresses, RR(b)!Handshake(a)
  PROVE  RegistryInv(b)'
<1>0. DirectoryTypes(b) /\ OneRegistration(b) /\ EntriesAreFiled(b)
  BY DEF RegistryInv
<1>1. /\ rsDir[a] = RR(b)!NoEntry /\ rsHeld[a] = RR(b)!Unregistered
           /\ rsDir' = [rsDir EXCEPT ![a] = RR(b)!HalfOpen]
      /\ UNCHANGED RR(b)!registry /\ rsOwners' = rsOwners /\ rsHeld' = rsHeld
           /\ rsMailbox' = rsMailbox
      /\ rsHand' = rsHand /\ rsChallenges' = rsChallenges
  BY DEF RR!Handshake
<1>2. rsSessions' = rsSessions
  BY <1>1 DEF RR!registry
<1>3. /\ rsDir'[a] = RR(b)!HalfOpen /\ \A c \in b.addresses : c # a => rsDir'[c] = rsDir[c]
      /\ rsDir' \in [b.addresses -> {RR(b)!NoEntry, RR(b)!HalfOpen} \cup SessionEntry(b)]
  BY <1>0, <1>1 DEF DirectoryTypes
<1>4. DirectoryTypes(b)'
  BY <1>0, <1>1, <1>3 DEF DirectoryTypes
<1>5. RR(b)!HalfOpen.kind = "open" /\ RR(b)!NoEntry.kind = "none"
  BY DEF RR!HalfOpen, RR!NoEntry
<1>6. \A c \in b.addresses, r \in b.sids : /\ Files(c, r)' <=> Files(c, r)
                                           /\ Holds(c, r)' <=> Holds(c, r)
  BY <1>1, <1>3, <1>5 DEF Files, Holds
<1>7. OneRegistration(b)'
  <2>1. \A c \in b.addresses : rsHeld'[c] # RR(b)!Unregistered => rsDir'[c] = RR(b)!HalfOpen
    BY <1>0, <1>1, <1>3 DEF OneRegistration
  <2>2. \A s \in b.sids : RR(b)!Live(s)' => \E c \in b.addresses : Files(c, s)' \/ Holds(c, s)'
    BY <1>0, <1>2, <1>6 DEF OneRegistration, RR!Live
  <2>3. \A s \in b.sids, c, k \in b.addresses :
          (Files(c, s)' \/ Holds(c, s)') /\ (Files(k, s)' \/ Holds(k, s)') => c = k
    BY <1>0, <1>6 DEF OneRegistration
  <2> QED
    BY <2>1, <2>2, <2>3 DEF OneRegistration
<1>8. EntriesAreFiled(b)'
  <2>1. \A c \in b.addresses : rsDir'[c].kind = "session" => rsDir'[c] = rsDir[c]
          /\ rsDir[c].kind = "session"
    BY <1>3, <1>5
  <2> QED
    BY <1>0, <1>1, <1>2, <2>1 DEF EntriesAreFiled, RR!Live
<1> QED
  BY <1>1, <1>4, <1>7, <1>8, DirectoryOnly

\* The AUTH task hands its registration to the entry its lease kept.
LEMMA AttachStep ==
  ASSUME NEW b \in Registries, RegistryInv(b), NEW a \in b.addresses, RR(b)!Attach(a)
  PROVE  RegistryInv(b)'
<1>0. DirectoryTypes(b) /\ OneRegistration(b) /\ EntriesAreFiled(b)
  BY DEF RegistryInv
<1>1. /\ rsHeld[a].gen # 0 /\ rsHeld' = [rsHeld EXCEPT ![a] = RR(b)!Unregistered]
           /\ rsOwners' = rsOwners
      /\ rsMailbox' = rsMailbox /\ rsHand' = rsHand /\ rsChallenges' = rsChallenges
  BY DEF RR!Attach
<1>2. RR(b)!HalfOpen.kind = "open" /\ RR(b)!NoEntry.kind = "none" /\ RR(b)!Unregistered.gen = 0
  BY DEF RR!HalfOpen, RR!NoEntry, RR!Unregistered
<1>3. /\ rsHeld[a] # RR(b)!Unregistered /\ rsHeld[a] \in [gen : Number, sid : b.sids]
      /\ rsHeld[a].sid \in b.sids /\ rsHeld[a].gen \in Number
  BY <1>0, <1>1, EntryShape
<1>4. rsDir[a] = RR(b)!HalfOpen /\ rsDir[a] # RR(b)!NoEntry
  BY <1>0, <1>2, <1>3 DEF OneRegistration
<1> DEFINE new == [kind |-> "session", sid |-> rsHeld[a].sid, gen |-> rsHeld[a].gen, auth |-> FALSE,
                   epoch |-> 0, peer |-> a, ticket |-> RR(b)!NoCandidate]
<1>5. rsDir' = [rsDir EXCEPT ![a] = new] /\ UNCHANGED RR(b)!registry
  BY <1>4 DEF RR!Attach
<1>6. /\ new \in SessionEntry(b) /\ new.kind = "session" /\ new.sid = rsHeld[a].sid
      /\ new.gen = rsHeld[a].gen /\ new.auth = FALSE /\ new.epoch = 0 /\ new.peer = a
  BY <1>3 DEF SessionEntry
<1> HIDE DEF new
<1>7. /\ rsDir'[a] = new /\ \A c \in b.addresses : c # a => rsDir'[c] = rsDir[c]
      /\ rsDir' \in [b.addresses -> {RR(b)!NoEntry, RR(b)!HalfOpen} \cup SessionEntry(b)]
  BY <1>0, <1>5, <1>6 DEF DirectoryTypes
<1>8. /\ rsHeld'[a] = RR(b)!Unregistered /\ \A c \in b.addresses : c # a => rsHeld'[c] = rsHeld[c]
      /\ rsHeld' \in [b.addresses ->
             {RR(b)!Unregistered, RR(b)!Refused} \cup [gen : Number, sid : b.sids]]
  BY <1>0, <1>1 DEF DirectoryTypes
<1>9. DirectoryTypes(b)'
  BY <1>0, <1>1, <1>7, <1>8 DEF DirectoryTypes
<1>10. rsSessions' = rsSessions
  BY <1>5 DEF RR!registry
<1>11. \A c \in b.addresses, r \in b.sids :
         (Files(c, r)' \/ Holds(c, r)') <=> (Files(c, r) \/ Holds(c, r))
  <2> SUFFICES ASSUME NEW c \in b.addresses, NEW r \in b.sids
               PROVE (Files(c, r)' \/ Holds(c, r)') <=> (Files(c, r) \/ Holds(c, r))
    OBVIOUS
  <2>1. CASE c # a
    BY <1>7, <1>8, <2>1 DEF Files, Holds
  <2>2. CASE c = a
    BY <1>1, <1>2, <1>4, <1>6, <1>7, <1>8, <2>2 DEF Files, Holds
  <2> QED
    BY <2>1, <2>2
<1>12. OneRegistration(b)'
  <2>1. \A c \in b.addresses : rsHeld'[c] # RR(b)!Unregistered => rsDir'[c] = RR(b)!HalfOpen
    BY <1>0, <1>7, <1>8 DEF OneRegistration
  <2>2. \A s \in b.sids : RR(b)!Live(s)' => \E c \in b.addresses : Files(c, s)' \/ Holds(c, s)'
    BY <1>0, <1>10, <1>11 DEF OneRegistration, RR!Live
  <2>3. \A s \in b.sids, c, k \in b.addresses :
          (Files(c, s)' \/ Holds(c, s)') /\ (Files(k, s)' \/ Holds(k, s)') => c = k
    BY <1>0, <1>11 DEF OneRegistration
  <2> QED
    BY <2>1, <2>2, <2>3 DEF OneRegistration
<1>13. EntriesAreFiled(b)'
  <2>1. ASSUME NEW c \in b.addresses, rsDir'[c].kind = "session"
        PROVE  /\ rsSessions'[rsDir'[c].sid] # RR(b)!NoSession
                    /\ rsDir'[c].gen = rsSessions'[rsDir'[c].sid].gen
               /\ rsDir'[c].epoch = rsSessions'[rsDir'[c].sid].epoch
               /\ rsDir'[c].peer = c /\ rsSessions'[rsDir'[c].sid].path = c
               /\ rsDir'[c].auth =>
                    rsOwners'[rsDir'[c].sid] = [gen |-> rsDir'[c].gen, address |-> c]
    <3>1. CASE c # a
      <4>1. rsDir'[c] = rsDir[c] /\ rsDir[c].kind = "session"
        BY <1>7, <2>1, <3>1
      <4> QED
        BY <1>0, <1>1, <1>10, <4>1 DEF EntriesAreFiled, RR!Live
    <3>2. CASE c = a
      <4>1. /\ RR(b)!Live(rsHeld[a].sid) /\ rsHeld[a].gen = rsSessions[rsHeld[a].sid].gen
            /\ rsSessions[rsHeld[a].sid].epoch = 0 /\ rsSessions[rsHeld[a].sid].path = a
        BY <1>0, <1>1 DEF EntriesAreFiled
      <4> QED
        BY <1>6, <1>7, <1>10, <3>2, <4>1 DEF RR!Live
    <3> QED
      BY <3>1, <3>2
  <2>2. ASSUME NEW c \in b.addresses, rsHeld'[c].gen # 0
        PROVE  /\ rsSessions'[rsHeld'[c].sid] # RR(b)!NoSession
               /\ rsHeld'[c].gen = rsSessions'[rsHeld'[c].sid].gen
               /\ rsSessions'[rsHeld'[c].sid].epoch = 0 /\ rsSessions'[rsHeld'[c].sid].path = c
    <3>1. rsHeld'[c] = rsHeld[c] /\ rsHeld[c].gen # 0
      BY <1>2, <1>8, <2>2
    <3> QED
      BY <1>0, <1>10, <3>1 DEF EntriesAreFiled, RR!Live
  <2> QED
    BY <2>1, <2>2 DEF EntriesAreFiled, RR!Live
<1> QED
  BY <1>1, <1>5, <1>9, <1>12, <1>13, DirectoryOnly

\* The entry becomes routable.
LEMMA AuthOkStep ==
  ASSUME NEW b \in Registries, RegistryInv(b), NEW a \in b.addresses, RR(b)!AuthOk(a)
  PROVE  RegistryInv(b)'
<1>0. DirectoryTypes(b) /\ OneRegistration(b) /\ EntriesAreFiled(b)
  BY DEF RegistryInv
<1>1. /\ rsDir[a].kind = "session" /\ rsDir' = [rsDir EXCEPT ![a].auth = TRUE]
      /\ rsOwners' = [rsOwners EXCEPT ![rsDir[a].sid] = [gen |-> rsDir[a].gen, address |-> a]]
      /\ UNCHANGED RR(b)!registry /\ rsHeld' = rsHeld
      /\ rsMailbox' = rsMailbox /\ rsHand' = rsHand /\ rsChallenges' = rsChallenges
  BY DEF RR!AuthOk
<1>2. rsDir[a] \in SessionEntry(b) /\ rsDir[a].sid \in b.sids /\ rsDir[a].gen \in Number
        /\ rsDir[a] # RR(b)!HalfOpen
  BY <1>0, <1>1, EntryShape
<1>3. rsDir \in [b.addresses -> {RR(b)!NoEntry, RR(b)!HalfOpen} \cup SessionEntry(b)]
  BY <1>0 DEF DirectoryTypes
<1>4. /\ rsDir'[a] = [rsDir[a] EXCEPT !.auth = TRUE]
      /\ \A c \in b.addresses : c # a => rsDir'[c] = rsDir[c]
      /\ rsDir' = [c \in b.addresses |-> rsDir'[c]]
  BY <1>1, <1>3
<1>5. /\ rsDir'[a] \in SessionEntry(b) /\ rsDir'[a].kind = "session" /\ rsDir'[a].sid = rsDir[a].sid
      /\ rsDir'[a].gen = rsDir[a].gen /\ rsDir'[a].epoch = rsDir[a].epoch
           /\ rsDir'[a].peer = rsDir[a].peer
  BY <1>2, <1>4 DEF SessionEntry
<1> DEFINE new == [gen |-> rsDir[a].gen, address |-> a]
<1>6. rsOwners \in [b.sids -> {RR(b)!NoOwner} \cup [gen : Number, address : b.addresses]]
  BY <1>0 DEF DirectoryTypes
<1>7. new \in [gen : Number, address : b.addresses]
  BY <1>2
<1>8. /\ rsOwners'[rsDir[a].sid] = new /\ \A s \in b.sids : s # rsDir[a].sid =>
           rsOwners'[s] = rsOwners[s]
      /\ rsOwners' \in [b.sids -> {RR(b)!NoOwner} \cup [gen : Number, address : b.addresses]]
  BY <1>1, <1>2, <1>6, <1>7
<1>9. DirectoryTypes(b)'
  <2>1. rsDir' \in [b.addresses -> {RR(b)!NoEntry, RR(b)!HalfOpen} \cup SessionEntry(b)]
    BY <1>3, <1>4, <1>5
  <2> QED
    BY <1>0, <1>1, <1>8, <2>1 DEF DirectoryTypes
<1>10. rsSessions' = rsSessions
  BY <1>1 DEF RR!registry
<1>11. \A c \in b.addresses, r \in b.sids : /\ Files(c, r)' <=> Files(c, r)
                                            /\ Holds(c, r)' <=> Holds(c, r)
  BY <1>1, <1>4, <1>5 DEF Files, Holds
<1>12. OneRegistration(b)'
  <2>1. \A c \in b.addresses : rsHeld'[c] # RR(b)!Unregistered => rsDir'[c] = RR(b)!HalfOpen
    BY <1>0, <1>1, <1>2, <1>4 DEF OneRegistration
  <2>2. \A s \in b.sids : RR(b)!Live(s)' => \E c \in b.addresses : Files(c, s)' \/ Holds(c, s)'
    BY <1>0, <1>10, <1>11 DEF OneRegistration, RR!Live
  <2>3. \A s \in b.sids, c, k \in b.addresses :
          (Files(c, s)' \/ Holds(c, s)') /\ (Files(k, s)' \/ Holds(k, s)') => c = k
    BY <1>0, <1>11 DEF OneRegistration
  <2> QED
    BY <2>1, <2>2, <2>3 DEF OneRegistration
<1>13. EntriesAreFiled(b)'
  <2>1. ASSUME NEW c \in b.addresses, rsDir'[c].kind = "session"
        PROVE  /\ rsSessions'[rsDir'[c].sid] # RR(b)!NoSession
                    /\ rsDir'[c].gen = rsSessions'[rsDir'[c].sid].gen
               /\ rsDir'[c].epoch = rsSessions'[rsDir'[c].sid].epoch
               /\ rsDir'[c].peer = c /\ rsSessions'[rsDir'[c].sid].path = c
               /\ rsDir'[c].auth =>
                    rsOwners'[rsDir'[c].sid] = [gen |-> rsDir'[c].gen, address |-> c]
    <3>1. CASE c # a
      <4>1. rsDir'[c] = rsDir[c] /\ rsDir[c].kind = "session"
        BY <1>4, <2>1, <3>1
      <4>2. rsDir[c].sid \in b.sids
        BY <1>0, <4>1, EntryShape
      <4>3. rsDir[c].sid # rsDir[a].sid
        <5>1. \A r \in b.sids, x, y \in b.addresses : Files(x, r) /\ Files(y, r) => x = y
          BY <1>0 DEF OneRegistration
        <5> QED
          BY <1>1, <3>1, <4>1, <4>2, <5>1 DEF Files
      <4>4. rsOwners'[rsDir[c].sid] = rsOwners[rsDir[c].sid]
        BY <1>8, <4>2, <4>3
      <4> QED
        BY <1>0, <1>10, <4>1, <4>4 DEF EntriesAreFiled, RR!Live
    <3>2. CASE c = a
      <4>1. /\ RR(b)!Live(rsDir[a].sid) /\ rsDir[a].gen = rsSessions[rsDir[a].sid].gen
            /\ rsDir[a].epoch = rsSessions[rsDir[a].sid].epoch
            /\ rsDir[a].peer = a /\ rsSessions[rsDir[a].sid].path = a
        BY <1>0, <1>1 DEF EntriesAreFiled
      <4> QED
        BY <1>5, <1>8, <1>10, <3>2, <4>1 DEF RR!Live
    <3> QED
      BY <3>1, <3>2
  <2>2. \A c \in b.addresses : rsHeld'[c].gen # 0 =>
          /\ rsSessions'[rsHeld'[c].sid] # RR(b)!NoSession
          /\ rsHeld'[c].gen = rsSessions'[rsHeld'[c].sid].gen
          /\ rsSessions'[rsHeld'[c].sid].epoch = 0 /\ rsSessions'[rsHeld'[c].sid].path = c
    BY <1>0, <1>1, <1>10 DEF EntriesAreFiled, RR!Live
  <2> QED
    BY <2>1, <2>2 DEF EntriesAreFiled, RR!Live
<1> QED
  BY <1>1, <1>9, <1>12, <1>13, DirectoryOnly

\* The aliases of one session are replaced, those of the others stay.
LEMMA ReindexStep ==
  ASSUME NEW b \in Registries, RegistryInv(b), NEW s \in b.sids, NEW g \in Number,
         NEW e \in Nat, RR(b)!Available(s, g, e),
         rsIndex' = RR(b)!Reindexed(s, g, e), RR(b)!Live(s) => rsSessions[s].gen = g,
         rsSessions'[s] # RR(b)!NoSession, rsSessions'[s].gen = g, rsSessions'[s].epoch = e,
         \A r \in b.sids : r # s => rsSessions'[r] = rsSessions[r]
  PROVE  IndexHolds(b)' /\ rsIndex' \in [DOMAIN rsIndex' -> CidOwner(b)]
<1>0. RegistryTypes(b)
  BY DEF RegistryInv
<1> DEFINE fresh == {b.cid[g, n] : n \in RR(b)!Aliases(e)}
           kept == {c \in DOMAIN rsIndex : rsIndex[c].sid # s \/ rsIndex[c].gen # g}
           new(c) == CHOOSE n \in RR(b)!Aliases(e) : b.cid[g, n] = c
<1>1. /\ \A r \in b.sids : RR(b)!Live(r) =>
           \A n \in RR(b)!Aliases(rsSessions[r].epoch) :
             /\ b.cid[rsSessions[r].gen, n] \in DOMAIN rsIndex
             /\ rsIndex[b.cid[rsSessions[r].gen, n]] = RR(b)!Owner(r, rsSessions[r].gen, n)
      /\ \A c \in DOMAIN rsIndex :
           /\ RR(b)!Live(rsIndex[c].sid) /\ rsSessions[rsIndex[c].sid].gen = rsIndex[c].gen
           /\ rsIndex[c].epoch \in RR(b)!Aliases(rsSessions[rsIndex[c].sid].epoch)
           /\ c = b.cid[rsIndex[c].gen, rsIndex[c].epoch]
  BY DEF RegistryInv, IndexHolds
<1>2. \A c \in DOMAIN rsIndex : rsIndex[c] \in CidOwner(b) /\ rsIndex[c].sid \in b.sids
  BY <1>0 DEF RegistryTypes, CidOwner
<1>3. \A r, h, n : RR(b)!Owner(r, h, n).sid = r /\ RR(b)!Owner(r, h, n).gen = h
        /\ RR(b)!Owner(r, h, n).epoch = n
  BY DEF RR!Owner
<1>4. RR(b)!Aliases(e) \subseteq Nat
  BY DEF RR!Aliases
<1>5. /\ \A m, n \in RR(b)!Aliases(e) : b.cid[g, m] = b.cid[g, n] => m = n
      /\ \A n \in RR(b)!Aliases(e) : b.cid[g, n] \in DOMAIN rsIndex =>
           rsIndex[b.cid[g, n]] = RR(b)!Owner(s, g, n)
  BY DEF RR!Available
<1>6. \A n \in RR(b)!Aliases(e) : new(b.cid[g, n]) \in RR(b)!Aliases(e)
        /\ b.cid[g, new(b.cid[g, n])] = b.cid[g, n]
  OBVIOUS
<1>7. \A n \in RR(b)!Aliases(e) : new(b.cid[g, n]) = n
  BY <1>5, <1>6
<1>8. /\ DOMAIN rsIndex' = fresh \cup kept
      /\ \A c \in fresh
             \cup kept : rsIndex'[c] = IF c \in fresh THEN RR(b)!Owner(s, g, new(c)) ELSE rsIndex[c]
      /\ rsIndex' = [c \in DOMAIN rsIndex' |-> rsIndex'[c]]
  <2>1. rsIndex' = [c \in fresh
            \cup kept |-> IF c \in fresh THEN RR(b)!Owner(s, g, new(c)) ELSE rsIndex[c]]
    BY Zenon DEF RR!Reindexed
  <2> HIDE DEF new, fresh, kept
  <2> QED
    BY <2>1
<1> HIDE DEF new
<1>9. \A n \in RR(b)!Aliases(e) : b.cid[g, n] \in DOMAIN rsIndex'
        /\ rsIndex'[b.cid[g, n]] = RR(b)!Owner(s, g, n)
  BY <1>7, <1>8
<1>10. \A c \in kept : c \in DOMAIN rsIndex /\ rsIndex[c].sid # s /\ c \notin fresh
  <2>1. \A c \in kept : c \in DOMAIN rsIndex /\ rsIndex[c].sid # s
    BY <1>1
  <2>2. ASSUME NEW n \in RR(b)!Aliases(e), b.cid[g, n] \in DOMAIN rsIndex
        PROVE rsIndex[b.cid[g, n]].sid = s
    <3> DEFINE c == b.cid[g, n]
    <3>1. rsIndex[c] = RR(b)!Owner(s, g, n)
      BY <1>5, <2>2
    <3> HIDE DEF c
    <3>2. rsIndex[c].sid = s
      BY <1>3, <3>1
    <3> QED
      BY <3>2 DEF c
  <2> QED
    BY <2>1, <2>2
<1>11. \A c \in DOMAIN rsIndex : rsIndex[c].sid # s => c \in DOMAIN rsIndex'
         /\ rsIndex'[c] = rsIndex[c]
  BY <1>8, <1>10
<1>12. \A c \in DOMAIN rsIndex' : \/ \E n \in RR(b)!Aliases(e) : c = b.cid[g, n]
                                  \/ c \in DOMAIN rsIndex /\ rsIndex[c].sid # s
  BY <1>8, <1>10
<1> HIDE DEF fresh, kept
<1>13. rsIndex' \in [DOMAIN rsIndex' -> CidOwner(b)]
  <2>1. \A n \in RR(b)!Aliases(e) : RR(b)!Owner(s, g, n) \in CidOwner(b)
    BY <1>4 DEF RR!Owner, CidOwner
  <2>2. ASSUME NEW c \in DOMAIN rsIndex' PROVE rsIndex'[c] \in CidOwner(b)
    <3>1. CASE \E n \in RR(b)!Aliases(e) : c = b.cid[g, n]
      BY <1>9, <2>1, <3>1
    <3>2. CASE c \in DOMAIN rsIndex /\ rsIndex[c].sid # s
      BY <1>2, <1>11, <3>2
    <3> QED
      BY <1>12, <3>1, <3>2
  <2> QED
    BY <1>8, <2>2
<1>14. ASSUME NEW r \in b.sids, rsSessions'[r] # RR(b)!NoSession,
              NEW n \in RR(b)!Aliases(rsSessions'[r].epoch)
       PROVE  /\ b.cid[rsSessions'[r].gen, n] \in DOMAIN rsIndex'
              /\ rsIndex'[b.cid[rsSessions'[r].gen, n]] = RR(b)!Owner(r, rsSessions'[r].gen, n)
  <2>1. CASE r = s
    BY <1>9, <1>14, <2>1
  <2>2. CASE r # s
    <3>1. rsSessions'[r] = rsSessions[r] /\ RR(b)!Live(r)
      BY <1>14, <2>2 DEF RR!Live
    <3> DEFINE c == b.cid[rsSessions[r].gen, n]
    <3>2. c \in DOMAIN rsIndex /\ rsIndex[c] = RR(b)!Owner(r, rsSessions[r].gen, n)
      BY <1>1, <1>14, <3>1
    <3> HIDE DEF c
    <3>3. c \in DOMAIN rsIndex' /\ rsIndex'[c] = RR(b)!Owner(r, rsSessions[r].gen, n)
      BY <1>3, <1>11, <2>2, <3>2
    <3> QED
      BY <3>1, <3>3 DEF c
  <2> QED
    BY <2>1, <2>2
<1>15. ASSUME NEW c \in DOMAIN rsIndex'
       PROVE  /\ rsSessions'[rsIndex'[c].sid] # RR(b)!NoSession
              /\ rsSessions'[rsIndex'[c].sid].gen = rsIndex'[c].gen
              /\ rsIndex'[c].epoch \in RR(b)!Aliases(rsSessions'[rsIndex'[c].sid].epoch)
              /\ c = b.cid[rsIndex'[c].gen, rsIndex'[c].epoch]
  <2>1. CASE \E n \in RR(b)!Aliases(e) : c = b.cid[g, n]
    <3>1. PICK n \in RR(b)!Aliases(e) : c = b.cid[g, n]
      BY <2>1
    <3>2. rsIndex'[c].sid = s /\ rsIndex'[c].gen = g /\ rsIndex'[c].epoch = n
      <4>1. rsIndex'[c] = RR(b)!Owner(s, g, n)
        BY <1>9, <3>1
      <4> QED
        BY <4>1 DEF RR!Owner
    <3> QED
      BY <3>1, <3>2
  <2>2. CASE c \in DOMAIN rsIndex /\ rsIndex[c].sid # s
    <3>1. rsIndex'[c] = rsIndex[c] /\ rsIndex[c].sid \in b.sids
      BY <1>2, <1>11, <2>2
    <3>2. rsSessions'[rsIndex[c].sid] = rsSessions[rsIndex[c].sid]
      BY <2>2, <3>1
    <3>3. /\ rsSessions[rsIndex[c].sid] # RR(b)!NoSession
               /\ rsSessions[rsIndex[c].sid].gen = rsIndex[c].gen
          /\ rsIndex[c].epoch \in RR(b)!Aliases(rsSessions[rsIndex[c].sid].epoch)
          /\ c = b.cid[rsIndex[c].gen, rsIndex[c].epoch]
      BY <1>1, <2>2 DEF RR!Live
    <3> QED
      BY <3>1, <3>2, <3>3
  <2> QED
    BY <1>12, <2>1, <2>2
<1>16. IndexHolds(b)'
  BY <1>14, <1>15 DEF IndexHolds, RR!Live
<1> QED
  BY <1>13, <1>16

\* A registration starts a session, or is refused.
LEMMA RegisterStep ==
  ASSUME NEW b \in Registries, RegistryInv(b), NEW a \in b.addresses,
         NEW s \in b.sids, RR(b)!Register(a, s)
  PROVE  RegistryInv(b)'
<1>0. /\ RegistryTypes(b) /\ DirectoryTypes(b) /\ IngressTypes(b) /\ OneRegistration(b)
      /\ EntriesAreFiled(b) /\ RR(b)!MovesAreValidated /\ CountHolds(b)
  BY DEF RegistryInv
<1>1. /\ rsDir[a] = RR(b)!HalfOpen /\ rsHeld[a] = RR(b)!Unregistered
      /\ rsNextGen' = rsNextGen + (IF RR(b)!Live(s) THEN 0 ELSE 1)
      /\ rsNextTicket' = rsNextTicket /\ rsCount' = rsCount /\ rsTotals' = rsTotals
      /\ rsDir' = rsDir /\ rsOwners' = rsOwners /\ rsMailbox' = rsMailbox /\ rsHand' = rsHand
      /\ rsChallenges' = rsChallenges
  BY DEF RR!Register, RR!directory
<1>2. rsNextGen \in Number /\ rsNextGen' \in Number
  BY <1>0, <1>1 DEF RegistryTypes, Number
<1>3. RR(b)!HalfOpen.kind = "open" /\ RR(b)!Unregistered.gen = 0 /\ RR(b)!Refused.gen = 0
  BY DEF RR!HalfOpen, RR!Unregistered, RR!Refused
<1>4. rsHeld \in [b.addresses ->
          {RR(b)!Unregistered, RR(b)!Refused} \cup [gen : Number, sid : b.sids]]
  BY <1>0 DEF DirectoryTypes
<1>5. rsSessions \in [b.sids -> {RR(b)!NoSession} \cup Session(b)]
  BY <1>0 DEF RegistryTypes
<1>6. IngressTypes(b)'
  BY <1>0, <1>1 DEF IngressTypes
<1>7. CASE rsHeld' = [rsHeld EXCEPT ![a] = RR(b)!Refused] /\ rsSessions' = rsSessions
             /\ rsIndex' = rsIndex
  <2>1. /\ rsHeld'[a] = RR(b)!Refused /\ \A c \in b.addresses : c # a => rsHeld'[c] = rsHeld[c]
        /\ rsHeld' \in [b.addresses ->
               {RR(b)!Unregistered, RR(b)!Refused} \cup [gen : Number, sid : b.sids]]
    BY <1>4, <1>7
  <2>2. DirectoryTypes(b)' /\ RegistryTypes(b)'
    BY <1>0, <1>1, <1>2, <1>7, <2>1 DEF DirectoryTypes, RegistryTypes
  <2>3. \A c \in b.addresses, r \in b.sids : /\ Files(c, r)' <=> Files(c, r)
                                             /\ Holds(c, r)' <=> Holds(c, r)
    BY <1>1, <1>3, <2>1 DEF Files, Holds
  <2>4. OneRegistration(b)'
    <3>1. \A c \in b.addresses : rsHeld'[c] # RR(b)!Unregistered => rsDir'[c] = RR(b)!HalfOpen
      BY <1>0, <1>1, <2>1 DEF OneRegistration
    <3>2. \A r \in b.sids : RR(b)!Live(r)' => \E c \in b.addresses : Files(c, r)' \/ Holds(c, r)'
      BY <1>0, <1>7, <2>3 DEF OneRegistration, RR!Live
    <3>3. \A r \in b.sids, c, k \in b.addresses :
            (Files(c, r)' \/ Holds(c, r)') /\ (Files(k, r)' \/ Holds(k, r)') => c = k
      BY <1>0, <2>3 DEF OneRegistration
    <3> QED
      BY <3>1, <3>2, <3>3 DEF OneRegistration
  <2>5. EntriesAreFiled(b)'
    <3>1. \A c \in b.addresses : rsHeld'[c].gen # 0 => rsHeld'[c] = rsHeld[c] /\ rsHeld[c].gen # 0
      BY <1>3, <2>1
    <3> QED
      BY <1>0, <1>1, <1>7, <3>1 DEF EntriesAreFiled, RR!Live
  <2>6. FewerCandidates(b)
    BY <1>7 DEF FewerCandidates, RR!HasCandidate, RR!Live
  <2>7. Candidates(b)' = Candidates(b)
    BY <1>7 DEF Candidates, RR!HasCandidate, RR!Live
  <2>8. CountHolds(b)'
    BY <1>0, <1>1, <2>7 DEF CountHolds
  <2>9. IndexHolds(b)' /\ RR(b)!MovesAreValidated'
    BY <1>1, <1>7 DEF RegistryInv, IndexHolds, RR!MovesAreValidated, RR!Live
  <2>10. CandidatesAreTheirOwn(b)' /\ ChallengesAgree(b)'
    BY <1>1, <2>6, CandidatesEnd
  <2>11. HandAgrees(b)' /\ ResponsesAreChallenged(b)'
    BY <1>1, <2>6, HandStays
  <2> QED
    BY <1>6, <2>2, <2>4, <2>5, <2>8, <2>9, <2>10, <2>11 DEF RegistryInv
<1> DEFINE new == [gen |-> rsNextGen, epoch |-> 0, path |-> a, cand |-> RR(b)!NoCandidate,
                   last |-> RR(b)!NoCandidate]
           task == [gen |-> rsNextGen, sid |-> s]
<1>8. CASE /\ ~RR(b)!Live(s) /\ RR(b)!Available(s, rsNextGen, 0)
           /\ rsSessions' = [rsSessions EXCEPT ![s] = new]
           /\ rsIndex' = RR(b)!Reindexed(s, rsNextGen, 0)
           /\ rsHeld' = [rsHeld EXCEPT ![a] = task]
  <2>1. /\ new \in Session(b) /\ new.gen = rsNextGen /\ new.epoch = 0 /\ new.path = a
        /\ new.cand = RR(b)!NoCandidate /\ new # RR(b)!NoSession
    BY <1>2 DEF Session, RR!NoSession, Number
  <2>2. task \in [gen : Number, sid : b.sids] /\ task.gen = rsNextGen /\ task.sid = s
          /\ task.gen # 0
    BY <1>2 DEF Number
  <2> HIDE DEF new, task
  <2>3. /\ rsSessions'[s] = new /\ \A r \in b.sids : r # s => rsSessions'[r] = rsSessions[r]
        /\ rsSessions' \in [b.sids -> {RR(b)!NoSession} \cup Session(b)]
    BY <1>5, <1>8, <2>1
  <2>4. /\ rsHeld'[a] = task /\ \A c \in b.addresses : c # a => rsHeld'[c] = rsHeld[c]
        /\ rsHeld' \in [b.addresses ->
               {RR(b)!Unregistered, RR(b)!Refused} \cup [gen : Number, sid : b.sids]]
    BY <1>4, <1>8, <2>2
  <2>5. IndexHolds(b)' /\ rsIndex' \in [DOMAIN rsIndex' -> CidOwner(b)]
    BY <1>2, <1>8, <2>1, <2>3, ReindexStep
  <2>6. DirectoryTypes(b)' /\ RegistryTypes(b)'
    BY <1>0, <1>1, <1>2, <2>3, <2>4, <2>5 DEF DirectoryTypes, RegistryTypes
  <2>7. \A c \in b.addresses : ~Files(c, s) /\ ~Holds(c, s)
    BY <1>0, <1>8 DEF EntriesAreFiled, Files, Holds
  <2>8. /\ \A c \in b.addresses, r \in b.sids : r # s =>
             /\ Files(c, r)' <=> Files(c, r)
             /\ Holds(c, r)' <=> Holds(c, r)
        /\ \A c \in b.addresses : ~Files(c, s)' /\ (Holds(c, s)' <=> c = a)
    <3>1. \A r \in b.sids : ~Holds(a, r)
      BY <1>1, <1>3 DEF Holds
    <3>2. \A r \in b.sids : Holds(a, r)' <=> r = s
      BY <2>2, <2>4 DEF Holds
    <3>3. \A c \in b.addresses, r \in b.sids : c # a => (Holds(c, r)' <=> Holds(c, r))
      BY <2>4 DEF Holds
    <3>4. \A c \in b.addresses, r \in b.sids : Files(c, r)' <=> Files(c, r)
      BY <1>1 DEF Files
    <3> QED
      BY <2>7, <3>1, <3>2, <3>3, <3>4
  <2>9. OneRegistration(b)'
    <3>1. \A c \in b.addresses : rsHeld'[c] # RR(b)!Unregistered => rsDir'[c] = RR(b)!HalfOpen
      BY <1>0, <1>1, <2>4 DEF OneRegistration
    <3>2. ASSUME NEW r \in b.sids, RR(b)!Live(r)'
          PROVE  \E c \in b.addresses : Files(c, r)' \/ Holds(c, r)'
      <4>1. CASE r = s
        BY <2>8, <4>1
      <4>2. CASE r # s
        BY <1>0, <2>3, <2>8, <3>2, <4>2 DEF OneRegistration, RR!Live
      <4> QED
        BY <4>1, <4>2
    <3>3. \A r \in b.sids, c, k \in b.addresses :
            (Files(c, r)' \/ Holds(c, r)') /\ (Files(k, r)' \/ Holds(k, r)') => c = k
      BY <1>0, <2>8 DEF OneRegistration
    <3> QED
      BY <3>1, <3>2, <3>3 DEF OneRegistration
  <2>10. EntriesAreFiled(b)'
    <3>1. ASSUME NEW c \in b.addresses, rsDir[c].kind = "session"
          PROVE  rsDir[c].sid \in b.sids /\ rsSessions'[rsDir[c].sid] = rsSessions[rsDir[c].sid]
      <4>1. rsDir[c].sid \in b.sids
        BY <1>0, <3>1, EntryShape
      <4> QED
        BY <2>3, <2>7, <3>1, <4>1 DEF Files
    <3>2. ASSUME NEW c \in b.addresses, rsHeld'[c].gen # 0
          PROVE  /\ rsSessions'[rsHeld'[c].sid] # RR(b)!NoSession
                 /\ rsHeld'[c].gen = rsSessions'[rsHeld'[c].sid].gen
                 /\ rsSessions'[rsHeld'[c].sid].epoch = 0 /\ rsSessions'[rsHeld'[c].sid].path = c
      <4>1. CASE c = a
        BY <2>1, <2>2, <2>3, <2>4, <4>1
      <4>2. CASE c # a
        <5>1. rsHeld'[c] = rsHeld[c] /\ rsHeld[c].gen # 0 /\ rsHeld[c].sid \in b.sids
          BY <1>0, <2>4, <3>2, <4>2, EntryShape
        <5>2. rsSessions'[rsHeld[c].sid] = rsSessions[rsHeld[c].sid]
          BY <2>3, <2>7, <5>1 DEF Holds
        <5> QED
          BY <1>0, <5>1, <5>2 DEF EntriesAreFiled, RR!Live
      <4> QED
        BY <4>1, <4>2
    <3>3. \A c \in b.addresses : rsDir'[c].kind = "session" =>
            /\ rsSessions'[rsDir'[c].sid] # RR(b)!NoSession
                 /\ rsDir'[c].gen = rsSessions'[rsDir'[c].sid].gen
            /\ rsDir'[c].epoch = rsSessions'[rsDir'[c].sid].epoch
            /\ rsDir'[c].peer = c /\ rsSessions'[rsDir'[c].sid].path = c
            /\ rsDir'[c].auth => rsOwners'[rsDir'[c].sid] = [gen |-> rsDir'[c].gen, address |-> c]
      BY <1>0, <1>1, <3>1 DEF EntriesAreFiled, RR!Live
    <3> QED
      BY <3>2, <3>3 DEF EntriesAreFiled, RR!Live
  <2>11. FewerCandidates(b)
    BY <2>1, <2>3 DEF FewerCandidates, RR!HasCandidate, RR!Live
  <2>12. Candidates(b)' = Candidates(b)
    <3>1. ~RR(b)!HasCandidate(s) /\ ~RR(b)!HasCandidate(s)'
      BY <1>8, <2>1, <2>3 DEF RR!HasCandidate
    <3>2. \A r \in b.sids : r # s => (RR(b)!HasCandidate(r)' <=> RR(b)!HasCandidate(r))
      BY <2>3 DEF RR!HasCandidate, RR!Live
    <3> QED
      BY <3>1, <3>2 DEF Candidates
  <2>13. CountHolds(b)'
    BY <1>0, <1>1, <2>12 DEF CountHolds
  <2>14. RR(b)!MovesAreValidated'
    <3>1. \A r \in b.sids : rsSessions'[r] # RR(b)!NoSession /\ rsSessions'[r].epoch > 0 =>
            r # s
      BY <2>1, <2>3
    <3> QED
      BY <1>0, <1>1, <2>3, <3>1 DEF RR!MovesAreValidated, RR!Live
  <2>15. CandidatesAreTheirOwn(b)' /\ ChallengesAgree(b)'
    BY <1>1, <2>11, CandidatesEnd
  <2>16. HandAgrees(b)' /\ ResponsesAreChallenged(b)'
    BY <1>1, <2>11, HandStays
  <2> QED
    BY <1>6, <2>5, <2>6, <2>9, <2>10, <2>13, <2>14, <2>15, <2>16 DEF RegistryInv
<1> QED
  BY <1>7, <1>8 DEF RR!Register

\* A commit re-keys the entry, rotates the aliases and ends the candidate, in one step.
LEMMA CommitStep ==
  ASSUME NEW b \in Registries, RegistryInv(b), NEW o \in b.addresses, NEW to \in b.addresses,
         NEW s \in b.sids, NEW t,
         rsDir[o].kind = "session", rsDir[o].sid = s, to = o \/ rsDir[to] = RR(b)!NoEntry,
         RR(b)!HasCandidate(s), RR(b)!Ticket(s) = t, rsSessions[s].cand.path = to,
         RR(b)!Available(s, rsDir[o].gen, rsSessions[s].cand.epoch),
         \E c \in rsChallenges : c.token = rsSessions[s].cand.id,
         RR(b)!Commit(o, s, to, t), rsHand' = RR(b)!Idle, rsHeld' = rsHeld, rsMailbox' = rsMailbox,
         rsChallenges' = rsChallenges
  PROVE  RegistryInv(b)'
<1>0. /\ RegistryTypes(b) /\ DirectoryTypes(b) /\ IngressTypes(b) /\ OneRegistration(b)
      /\ EntriesAreFiled(b) /\ RR(b)!MovesAreValidated /\ CountHolds(b) /\ ChallengesAgree(b)
  BY DEF RegistryInv
<1> DEFINE e == rsSessions[s].cand.epoch
           g == rsSessions[s].gen
           last == [id |-> t.id, path |-> to]
           new == [gen |-> g, epoch |-> e, path |-> to, cand |-> RR(b)!NoCandidate, last |-> last]
           moved == [rsDir[o] EXCEPT !.epoch = e, !.peer = to]
           entry == [gen |-> g, address |-> to]
<1>1. /\ rsSessions[s] \in Session(b) /\ rsSessions[s].cand \in PathCandidate(b) /\ RR(b)!Live(s)
  BY <1>0, SessionShape
<1>2. /\ g \in Number /\ e \in Nat /\ t.gen = g /\ t.id \in Number
  BY <1>1 DEF Session, PathCandidate, RR!Ticket
<1>3. rsDir[o].gen = g
  BY <1>0 DEF EntriesAreFiled
<1>4. /\ rsSessions' = [rsSessions EXCEPT ![s].epoch = e, ![s].path = to, ![s].last = last,
                                      ![s].cand = RR(b)!NoCandidate]
      /\ rsIndex' = RR(b)!Reindexed(s, t.gen, e) /\ rsCount' = rsCount - 1
      /\ rsTotals' = [rsTotals EXCEPT !.commits = @ + 1] /\ rsDir' = RR(b)!Moved(o, to, e)
      /\ rsOwners' = [rsOwners EXCEPT ![s] = [gen |-> t.gen, address |-> to]]
      /\ rsNextGen' = rsNextGen /\ rsNextTicket' = rsNextTicket
  BY DEF RR!Commit
<1>5. rsSessions \in [b.sids -> {RR(b)!NoSession} \cup Session(b)]
  BY <1>0 DEF RegistryTypes
<1>6. rsDir[o] \in SessionEntry(b)
  BY <1>0, EntryShape
<1>7. /\ new \in Session(b) /\ new.gen = g /\ new.epoch = e /\ new.path = to
      /\ new.cand = RR(b)!NoCandidate /\ new # RR(b)!NoSession
  BY <1>2 DEF Session, RR!NoSession, Number
<1>8. /\ rsSessions'[s] = new /\ \A r \in b.sids : r # s => rsSessions'[r] = rsSessions[r]
      /\ rsSessions' \in [b.sids -> {RR(b)!NoSession} \cup Session(b)]
  <2>1. /\ \A r \in b.sids : r # s => rsSessions'[r] = rsSessions[r]
        /\ rsSessions' = [r \in b.sids |-> rsSessions'[r]]
    BY <1>4, <1>5
  <2>2. rsSessions'[s] = [[[[rsSessions[s] EXCEPT !.epoch = e] EXCEPT !.path = to]
                         EXCEPT !.last = last] EXCEPT !.cand = RR(b)!NoCandidate]
    BY <1>4, <1>5
  <2>3. rsSessions'[s] = new
    BY <1>1, <2>2 DEF Session
  <2> QED
    BY <1>5, <1>7, <2>1, <2>3
<1>9. /\ moved \in SessionEntry(b) /\ moved.kind = "session" /\ moved.sid = s /\ moved.gen = g
      /\ moved.auth = rsDir[o].auth /\ moved.epoch = e /\ moved.peer = to
  BY <1>2, <1>3, <1>6 DEF SessionEntry
<1>10. entry \in [gen : Number, address : b.addresses]
  BY <1>2
<1>11. RR(b)!NoEntry.kind = "none" /\ RR(b)!HalfOpen.kind = "open"
  BY DEF RR!NoEntry, RR!HalfOpen
<1>12. /\ rsDir'[to] = moved /\ (o # to => rsDir'[o] = RR(b)!NoEntry)
       /\ \A c \in b.addresses : c # to /\ c # o => rsDir'[c] = rsDir[c]
       /\ rsDir' \in [b.addresses -> {RR(b)!NoEntry, RR(b)!HalfOpen} \cup SessionEntry(b)]
  <2>1. rsDir' = [rsDir EXCEPT ![o] = RR(b)!NoEntry, ![to] = moved]
    BY <1>4 DEF RR!Moved
  <2> HIDE DEF moved
  <2> QED
    BY <1>0, <1>9, <2>1 DEF DirectoryTypes
<1>13. /\ rsOwners'[s] = entry /\ \A r \in b.sids : r # s => rsOwners'[r] = rsOwners[r]
       /\ rsOwners' \in [b.sids -> {RR(b)!NoOwner} \cup [gen : Number, address : b.addresses]]
  <2>1. rsOwners' = [rsOwners EXCEPT ![s] = entry]
    BY <1>2, <1>4
  <2> HIDE DEF entry
  <2> QED
    BY <1>0, <1>10, <2>1 DEF DirectoryTypes
<1>14. IndexHolds(b)' /\ rsIndex' \in [DOMAIN rsIndex' -> CidOwner(b)]
  <2> HIDE DEF new
  <2>1. /\ rsIndex' = RR(b)!Reindexed(s, g, e) /\ RR(b)!Available(s, g, e)
        /\ rsSessions'[s] # RR(b)!NoSession /\ rsSessions'[s].gen = g /\ rsSessions'[s].epoch = e
    BY <1>2, <1>3, <1>4, <1>7, <1>8
  <2>2. (RR(b)!Live(s) => rsSessions[s].gen = g) /\ g \in Number /\ e \in Nat
    BY <1>2
  <2> HIDE DEF g, e
  <2> QED
    BY <1>8, <2>1, <2>2, ReindexStep
<1> HIDE DEF new, moved, last
<1>15. DirectoryTypes(b)'
  BY <1>0, <1>12, <1>13 DEF DirectoryTypes
<1>16. IngressTypes(b)'
  BY <1>0 DEF IngressTypes
<1>17. /\ rsHeld[o] = RR(b)!Unregistered /\ rsHeld[to] = RR(b)!Unregistered
  BY <1>0, <1>11 DEF OneRegistration
<1>18. \A c \in b.addresses : ~Holds(c, s) /\ (Files(c, s) <=> c = o)
  <2>1. Files(o, s)
    BY DEF Files
  <2>2. ~Holds(o, s)
    BY <1>17 DEF Holds, RR!Unregistered
  <2> QED
    BY <1>0, <2>1, <2>2 DEF OneRegistration
<1>19. /\ \A c \in b.addresses, r \in b.sids : Holds(c, r)' <=> Holds(c, r)
       /\ \A c \in b.addresses, r \in b.sids : r # s => (Files(c, r)' <=> Files(c, r))
       /\ \A c \in b.addresses : Files(c, s)' <=> c = to
  <2>1. \A c \in b.addresses, r \in b.sids : Holds(c, r)' <=> Holds(c, r)
    BY DEF Holds
  <2>2. \A c \in b.addresses, r \in b.sids : c # to /\ c # o => (Files(c, r)' <=> Files(c, r))
    BY <1>12 DEF Files
  <2>3. \A r \in b.sids : Files(to, r)' <=> r = s
    BY <1>9, <1>12 DEF Files
  <2>4. \A r \in b.sids : o # to => ~Files(o, r)'
    BY <1>11, <1>12 DEF Files
  <2>5. \A r \in b.sids : r # s => ~Files(o, r) /\ ~Files(to, r)
    BY <1>11 DEF Files
  <2> QED
    BY <1>18, <2>1, <2>2, <2>3, <2>4, <2>5
<1>20. OneRegistration(b)'
  <2>1. \A c \in b.addresses : rsHeld'[c] # RR(b)!Unregistered => rsDir'[c] = RR(b)!HalfOpen
    BY <1>0, <1>12, <1>17 DEF OneRegistration
  <2>2. ASSUME NEW r \in b.sids, RR(b)!Live(r)'
        PROVE  \E c \in b.addresses : Files(c, r)' \/ Holds(c, r)'
    <3>1. CASE r = s
      BY <1>19, <3>1
    <3>2. CASE r # s
      BY <1>0, <1>8, <1>19, <2>2, <3>2 DEF OneRegistration, RR!Live
    <3> QED
      BY <3>1, <3>2
  <2>3. \A r \in b.sids, c, k \in b.addresses :
          (Files(c, r)' \/ Holds(c, r)') /\ (Files(k, r)' \/ Holds(k, r)') => c = k
    BY <1>0, <1>18, <1>19 DEF OneRegistration
  <2> QED
    BY <2>1, <2>2, <2>3 DEF OneRegistration
<1>21. EntriesAreFiled(b)'
  <2>1. ASSUME NEW c \in b.addresses, rsDir'[c].kind = "session"
        PROVE  /\ rsSessions'[rsDir'[c].sid] # RR(b)!NoSession
                    /\ rsDir'[c].gen = rsSessions'[rsDir'[c].sid].gen
               /\ rsDir'[c].epoch = rsSessions'[rsDir'[c].sid].epoch
               /\ rsDir'[c].peer = c /\ rsSessions'[rsDir'[c].sid].path = c
               /\ rsDir'[c].auth =>
                    rsOwners'[rsDir'[c].sid] = [gen |-> rsDir'[c].gen, address |-> c]
    <3>1. CASE c = to
      BY <1>7, <1>8, <1>9, <1>12, <1>13, <3>1
    <3>2. CASE c # to
      <4>1. c # o /\ rsDir'[c] = rsDir[c] /\ rsDir[c].kind = "session"
        BY <1>11, <1>12, <2>1, <3>2
      <4>2. rsDir[c].sid \in b.sids
        BY <1>0, <4>1, EntryShape
      <4>3. rsDir[c].sid # s
        BY <1>18, <4>1 DEF Files
      <4>4. rsSessions'[rsDir[c].sid] = rsSessions[rsDir[c].sid]
              /\ rsOwners'[rsDir[c].sid] = rsOwners[rsDir[c].sid]
        BY <1>8, <1>13, <4>2, <4>3
      <4> QED
        BY <1>0, <4>1, <4>4 DEF EntriesAreFiled, RR!Live
    <3> QED
      BY <3>1, <3>2
  <2>2. ASSUME NEW c \in b.addresses, rsHeld'[c].gen # 0
        PROVE  /\ rsSessions'[rsHeld'[c].sid] # RR(b)!NoSession
               /\ rsHeld'[c].gen = rsSessions'[rsHeld'[c].sid].gen
               /\ rsSessions'[rsHeld'[c].sid].epoch = 0 /\ rsSessions'[rsHeld'[c].sid].path = c
    <3>1. rsHeld'[c] = rsHeld[c] /\ rsHeld[c].gen # 0 /\ rsHeld[c].sid \in b.sids
      BY <1>0, <2>2, EntryShape
    <3>2. rsSessions'[rsHeld[c].sid] = rsSessions[rsHeld[c].sid]
      BY <1>8, <1>18, <3>1 DEF Holds
    <3> QED
      BY <1>0, <3>1, <3>2 DEF EntriesAreFiled, RR!Live
  <2> QED
    BY <2>1, <2>2 DEF EntriesAreFiled, RR!Live
<1>22. FewerCandidates(b)
  BY <1>7, <1>8 DEF FewerCandidates, RR!HasCandidate, RR!Live
<1>23. CandidatesAreTheirOwn(b)' /\ ChallengesAgree(b)'
  BY <1>4, <1>22, CandidatesEnd
<1>24. HandAgrees(b)' /\ ResponsesAreChallenged(b)'
  BY <1>4, <1>22, HandStays, IdleShape
<1>25. RR(b)!MovesAreValidated'
  <2>1. PICK c \in rsChallenges : c.token = rsSessions[s].cand.id
    OBVIOUS
  <2>2. c.gen = g /\ c.epoch = e /\ c.path = to
    BY <1>0, <2>1 DEF ChallengesAgree
  <2> HIDE DEF g, e
  <2>3. \E x \in rsChallenges' : /\ x.gen = rsSessions'[s].gen
                                 /\ x.epoch = rsSessions'[s].epoch
                                 /\ x.path = rsSessions'[s].path
    BY <1>7, <1>8, <2>2
  <2>4. \A r \in b.sids : r # s /\ rsSessions'[r] # RR(b)!NoSession /\ rsSessions'[r].epoch > 0 =>
          \E x \in rsChallenges' : /\ x.gen = rsSessions'[r].gen
                                   /\ x.epoch = rsSessions'[r].epoch
                                   /\ x.path = rsSessions'[r].path
    BY <1>0, <1>8 DEF RR!MovesAreValidated, RR!Live
  <2> QED
    BY <2>3, <2>4 DEF RR!MovesAreValidated, RR!Live
<1>26. Candidates(b)' = Candidates(b) \ {s}
  <2>1. ~RR(b)!HasCandidate(s)'
    BY <1>7, <1>8 DEF RR!HasCandidate
  <2>2. \A r \in b.sids : r # s => (RR(b)!HasCandidate(r)' <=> RR(b)!HasCandidate(r))
    BY <1>8 DEF RR!HasCandidate, RR!Live
  <2> QED
    BY <2>1, <2>2 DEF Candidates
<1>27. /\ CountHolds(b)' /\ rsCount' \in Int
       /\ rsTotals' \in [attempts : Int, commits : Int, failures : Int]
  <2>1. {s} \subseteq Candidates(b)
    BY DEF Candidates
  <2>2. /\ RR(b)!Cardinality({s}) = 1 /\ RR(b)!Cardinality(Candidates(b)) \in Nat
        /\ RR(b)!Cardinality(Candidates(b) \ {s}) =
               RR(b)!Cardinality(Candidates(b)) - RR(b)!Cardinality({s})
    BY <1>0, <2>1, OverdueFacts, LeftOver, FS_Singleton, RegistryCardinality
  <2>3. rsTotals \in [attempts : Int, commits : Int, failures : Int]
    BY <1>0 DEF RegistryTypes
  <2>4. /\ rsTotals'.attempts = rsTotals.attempts /\ rsTotals'.commits = rsTotals.commits + 1
        /\ rsTotals'.failures = rsTotals.failures
        /\ rsTotals' \in [attempts : Int, commits : Int, failures : Int]
        /\ rsTotals.attempts \in Int /\ rsTotals.commits \in Int /\ rsTotals.failures \in Int
    BY <1>4, <2>3
  <2>5. /\ rsCount = RR(b)!Cardinality(Candidates(b)) /\ rsCount <= b.maxCandidates
        /\ rsTotals.attempts = rsTotals.commits + rsTotals.failures + rsCount
    BY <1>0 DEF CountHolds
  <2>6. rsCount' = RR(b)!Cardinality(Candidates(b)') /\ rsCount' \in Int
          /\ rsCount' <= b.maxCandidates
    BY <1>4, <1>26, <2>2, <2>5, RegistriesAssumption
  <2>7. rsTotals'.attempts = rsTotals'.commits + rsTotals'.failures + rsCount'
    BY <1>4, <2>2, <2>4, <2>5
  <2> QED
    BY <2>4, <2>6, <2>7 DEF CountHolds
<1>28. RegistryTypes(b)'
  BY <1>0, <1>4, <1>8, <1>14, <1>27 DEF RegistryTypes
<1> QED
  BY <1>14, <1>15, <1>16, <1>20, <1>21, <1>23, <1>24, <1>25, <1>27, <1>28 DEF RegistryInv

\* A PATH_RESPONSE commits, aborts or changes nothing but an overdue candidate.
LEMMA RespondStep ==
  ASSUME NEW b \in Registries, RegistryInv(b), RR(b)!Respond
  PROVE  RegistryInv(b)'
<1>0. RegistryTypes(b) /\ DirectoryTypes(b) /\ IngressTypes(b)
  BY DEF RegistryInv
<1>1. /\ rsHand.pc = "response" /\ rsHand' = RR(b)!Idle /\ rsHeld' = rsHeld
           /\ rsMailbox' = rsMailbox
      /\ rsChallenges' = rsChallenges
  BY DEF RR!Respond
<1>2. /\ rsHand.d.at.sid \in b.sids /\ rsHand.d.from \in b.addresses /\ rsHand.owner \in b.addresses
  BY <1>0, <1>1, HandShape, IdleShape
<1>3. PICK s \in b.sids, to \in b.addresses, o \in b.addresses :
        s = rsHand.d.at.sid /\ to = rsHand.d.from /\ o = rsHand.owner
  BY <1>2
<1> DEFINE t == rsDir[o].ticket
           token == rsHand.d.m.token
           proved == /\ to = o \/ rsDir[to] = RR(b)!NoEntry
                     /\ rsDir[o].kind = "session" /\ rsDir[o].sid = s
                          /\ rsDir[o].gen = rsHand.d.at.gen
                     /\ t # RR(b)!NoCandidate /\ RR(b)!Proves(s, t, to, token)
<1>4. \/ /\ proved /\ RR(b)!Available(s, rsDir[o].gen, rsSessions[s].cand.epoch)
         /\ RR(b)!Commit(o, s, to, t)
      \/ proved /\ RR(b)!AbortCandidate(t) /\ UNCHANGED RR(b)!directory
      \/ \E own \in {{s} \cap RR(b)!Overdue, {}} :
           /\ rsSessions' = RR(b)!Swept(own) /\ rsCount' = rsCount - RR(b)!Cardinality(own)
           /\ rsTotals' = RR(b)!Failed(RR(b)!Cardinality(own))
           /\ UNCHANGED <<rsIndex, rsNextGen, rsNextTicket, RR(b)!directory>>
  BY <1>3 DEF RR!Respond, RR!Matches
<1>5. IngressTypes(b)'
  BY <1>0, <1>1 DEF IngressTypes
<1>6. rsHand'.pc \notin {"publish", "challenge", "response"}
  BY <1>1, IdleShape
<1>7. ASSUME UNCHANGED RR(b)!directory
      PROVE  SameEntries(b) /\ DirectoryTypes(b)' /\ rsOwners' = rsOwners
  BY <1>0, <1>1, <1>7 DEF RR!directory, SameEntries, DirectoryTypes
<1>8. CASE /\ proved /\ RR(b)!Available(s, rsDir[o].gen, rsSessions[s].cand.epoch)
           /\ RR(b)!Commit(o, s, to, t)
  <2>1. /\ RR(b)!HasCandidate(s) /\ RR(b)!Ticket(s) = t /\ rsSessions[s].cand.path = to
        /\ rsSessions[s].cand.id = token
    BY <1>8 DEF RR!Proves
  <2>2. \E c \in rsChallenges : c.token = rsSessions[s].cand.id
    BY <1>1, <2>1 DEF RegistryInv, ResponsesAreChallenged
  <2> HIDE DEF t
  <2> QED
    BY <1>1, <1>8, <2>1, <2>2, CommitStep
<1>9. CASE proved /\ RR(b)!AbortCandidate(t) /\ UNCHANGED RR(b)!directory
  <2>1. t.sid \in b.sids
    BY <1>9 DEF RR!Proves, RR!Ticket
  <2> HIDE DEF t
  <2>2. /\ RegistryTypes(b)' /\ SameSessions(b) /\ FewerCandidates(b) /\ CountHolds(b)'
        /\ rsIndex' = rsIndex /\ rsNextTicket' = rsNextTicket
    BY <1>9, <2>1, AbortStep
  <2> QED
    BY <1>1, <1>5, <1>6, <1>7, <1>9, <2>2, QuietStep
<1>10. CASE \E own \in {{s} \cap RR(b)!Overdue, {}} :
              /\ rsSessions' = RR(b)!Swept(own) /\ rsCount' = rsCount - RR(b)!Cardinality(own)
              /\ rsTotals' = RR(b)!Failed(RR(b)!Cardinality(own))
              /\ UNCHANGED <<rsIndex, rsNextGen, rsNextTicket, RR(b)!directory>>
  <2>1. PICK own \in {{s} \cap RR(b)!Overdue, {}} :
              /\ rsSessions' = RR(b)!Swept(own) /\ rsCount' = rsCount - RR(b)!Cardinality(own)
              /\ rsTotals' = RR(b)!Failed(RR(b)!Cardinality(own))
              /\ UNCHANGED <<rsIndex, rsNextGen, rsNextTicket, RR(b)!directory>>
    BY <1>10
  <2>2. own \subseteq Candidates(b)
    BY <1>0, OverdueFacts
  <2>3. RegistryTypes(b)' /\ SameSessions(b) /\ FewerCandidates(b) /\ CountHolds(b)'
    BY <2>1, <2>2, SweptStep
  <2> QED
    BY <1>1, <1>5, <1>6, <1>7, <2>1, <2>3, QuietStep
<1> QED
  BY <1>4, <1>8, <1>9, <1>10


\* The invariant holds at first.
LEMMA RegistryInit ==
  ASSUME NEW b \in Registries, RR(b)!Init
  PROVE  RegistryInv(b)
<1>0. /\ rsSessions = [s \in b.sids |-> RR(b)!NoSession] /\ rsIndex = <<>>
      /\ rsNextGen = 1 /\ rsNextTicket = 1 /\ rsCount = 0
      /\ rsTotals = [attempts |-> 0, commits |-> 0, failures |-> 0]
      /\ rsDir = [a \in b.addresses |-> RR(b)!NoEntry]
           /\ rsOwners = [s \in b.sids |-> RR(b)!NoOwner]
      /\ rsHeld = [a \in b.addresses |-> RR(b)!Unregistered] /\ rsMailbox = {}
           /\ rsHand = RR(b)!Idle
      /\ rsChallenges = {}
  BY DEF RR!Init
<1>1. \A s \in b.sids : ~RR(b)!Live(s) /\ ~RR(b)!HasCandidate(s)
  BY <1>0 DEF RR!Live, RR!HasCandidate
<1>2. RR(b)!NoEntry.kind = "none" /\ RR(b)!Unregistered.gen = 0
  BY DEF RR!NoEntry, RR!Unregistered
<1>3. DOMAIN rsIndex = {} /\ rsIndex \in [DOMAIN rsIndex -> CidOwner(b)]
  BY <1>0
<1>4. RegistryTypes(b) /\ DirectoryTypes(b) /\ IngressTypes(b)
  BY <1>0, <1>3 DEF RegistryTypes, DirectoryTypes, IngressTypes, Number
<1>5. IndexHolds(b)
  BY <1>1, <1>3 DEF IndexHolds
<1>6. OneRegistration(b)
  BY <1>0, <1>1, <1>2 DEF OneRegistration, Files, Holds
<1>7. EntriesAreFiled(b)
  BY <1>0, <1>2 DEF EntriesAreFiled
<1>8. CandidatesAreTheirOwn(b) /\ ChallengesAgree(b) /\ RR(b)!MovesAreValidated
  BY <1>0, <1>1 DEF CandidatesAreTheirOwn, ChallengesAgree, RR!MovesAreValidated
<1>9. HandAgrees(b) /\ ResponsesAreChallenged(b)
  BY <1>0, IdleShape DEF HandAgrees, ResponsesAreChallenged
<1>10. Candidates(b) = {}
  BY <1>1 DEF Candidates
<1>11. CountHolds(b)
  BY <1>0, <1>10, FS_EmptySet, RegistriesAssumption, RegistryCardinality DEF CountHolds
<1> QED
  BY <1>4, <1>5, <1>6, <1>7, <1>8, <1>9, <1>11 DEF RegistryInv

\* Every step of the registry keeps it.
LEMMA RegistryStep ==
  ASSUME NEW b \in Registries, RegistryInv(b), [RR(b)!Next]_(RR(b)!vars)
  PROVE  RegistryInv(b)'
<1>1. CASE RR(b)!ExpireCandidates
  BY <1>1, ExpireStep
<1>2. ASSUME NEW s \in b.sids, RR(b)!LifetimeElapses(s) PROVE RegistryInv(b)'
  BY <1>2, LifetimeStep
<1>3. ASSUME NEW a \in b.addresses, RR(b)!Handshake(a) PROVE RegistryInv(b)'
  BY <1>3, HandshakeStep
<1>4. ASSUME NEW a \in b.addresses, RR(b)!RefuseBootstrap(a)
               \/ RR(b)!RemoveEntry(a) PROVE RegistryInv(b)'
  BY <1>4, RemoveStep
<1>5. ASSUME NEW a \in b.addresses, RR(b)!Attach(a) PROVE RegistryInv(b)'
  BY <1>5, AttachStep
<1>6. ASSUME NEW a \in b.addresses, RR(b)!AuthOk(a) PROVE RegistryInv(b)'
  BY <1>6, AuthOkStep
<1>7. ASSUME NEW a \in b.addresses, NEW s \in b.sids, RR(b)!Register(a, s) PROVE RegistryInv(b)'
  BY <1>7, RegisterStep
<1>8. ASSUME NEW a \in b.addresses, NEW g \in 1..b.maxGeneration, NEW e \in 1..b.maxEpoch,
             RR(b)!Route(g, e, a)
      PROVE  RegistryInv(b)'
  <2>1. g \in Nat
    OBVIOUS
  <2> QED
    BY <1>8, <2>1, RouteStep
<1>9. CASE RR(b)!Dispatch
  BY <1>9, DispatchStep
<1>10. CASE RR(b)!Observe
  BY <1>10, PathInitStep
<1>11. CASE RR(b)!PublishTicket
  BY <1>11, PublishStep
<1>12. CASE RR(b)!SendChallenge
  BY <1>12, ChallengeStep
<1>13. CASE RR(b)!Respond
  BY <1>13, RespondStep
<1>14. CASE UNCHANGED RR(b)!vars
  <2>1. /\ UNCHANGED RR(b)!registry /\ rsDir' = rsDir /\ rsOwners' = rsOwners /\ rsHeld' = rsHeld
        /\ rsMailbox' = rsMailbox /\ rsHand' = rsHand /\ rsChallenges' = rsChallenges
    BY <1>14 DEF RR!vars, RR!directory
  <2>2. rsSessions' = rsSessions
    BY <2>1 DEF RR!registry
  <2>3. DirectoryTypes(b)' /\ OneRegistration(b)' /\ EntriesAreFiled(b)'
    BY <2>1, <2>2 DEF RegistryInv, DirectoryTypes, OneRegistration, EntriesAreFiled, Files,
       Holds, RR!Live
  <2> QED
    BY <2>1, <2>3, DirectoryOnly
<1> QED
  BY <1>1, <1>2, <1>3, <1>4, <1>5, <1>6, <1>7, <1>8, <1>9, <1>10, <1>11, <1>12, <1>13, <1>14
  DEF RR!Next


\* The index is what the live sessions derive.
LEMMA IndexFollows ==
  ASSUME NEW b \in Registries, RegistryInv(b)
  PROVE  RR(b)!IndexIsExact
<1> DEFINE all == UNION {{<<s, n>> : n \in RR(b)!Aliases(rsSessions[s].epoch)} :
                           s \in {t \in b.sids : RR(b)!Live(t)}}
<1>1. /\ \A s \in b.sids : RR(b)!Live(s) =>
           \A n \in RR(b)!Aliases(rsSessions[s].epoch) :
             /\ b.cid[rsSessions[s].gen, n] \in DOMAIN rsIndex
             /\ rsIndex[b.cid[rsSessions[s].gen, n]] = RR(b)!Owner(s, rsSessions[s].gen, n)
      /\ \A c \in DOMAIN rsIndex :
           /\ RR(b)!Live(rsIndex[c].sid) /\ rsSessions[rsIndex[c].sid].gen = rsIndex[c].gen
           /\ rsIndex[c].epoch \in RR(b)!Aliases(rsSessions[rsIndex[c].sid].epoch)
           /\ c = b.cid[rsIndex[c].gen, rsIndex[c].epoch]
  BY DEF RegistryInv, IndexHolds
<1>2. \A p \in all : \E s \in b.sids :
        RR(b)!Live(s) /\ \E n \in RR(b)!Aliases(rsSessions[s].epoch) : p = <<s, n>>
  OBVIOUS
<1>3. \A s \in b.sids : RR(b)!Live(s) =>
        \A n \in RR(b)!Aliases(rsSessions[s].epoch) : <<s, n>> \in all
  OBVIOUS
<1> HIDE DEF all
<1>4. ASSUME NEW p \in all
      PROVE  /\ b.cid[rsSessions[p[1]].gen, p[2]] \in DOMAIN rsIndex
             /\ rsIndex[b.cid[rsSessions[p[1]].gen, p[2]]] =
                    RR(b)!Owner(p[1], rsSessions[p[1]].gen, p[2])
  <2>1. PICK s \in b.sids : RR(b)!Live(s)
          /\ \E n \in RR(b)!Aliases(rsSessions[s].epoch) : p = <<s, n>>
    BY <1>2
  <2>2. PICK n \in RR(b)!Aliases(rsSessions[s].epoch) : p = <<s, n>>
    BY <2>1
  <2>3. p[1] = s /\ p[2] = n
    BY <2>2
  <2> QED
    BY <1>1, <2>1, <2>3
<1>5. ASSUME NEW c \in DOMAIN rsIndex
      PROVE  \E p \in all : c = b.cid[rsSessions[p[1]].gen, p[2]]
  <2>1. rsIndex[c].sid \in b.sids
    BY DEF RegistryInv, RegistryTypes, CidOwner
  <2> DEFINE p == <<rsIndex[c].sid, rsIndex[c].epoch>>
  <2>2. p \in all
    BY <1>1, <1>3, <2>1
  <2>3. p[1] = rsIndex[c].sid /\ p[2] = rsIndex[c].epoch
    OBVIOUS
  <2> HIDE DEF p
  <2>4. rsSessions[p[1]].gen = rsIndex[c].gen
    BY <1>1, <2>3
  <2>5. c = b.cid[rsIndex[c].gen, rsIndex[c].epoch]
    BY <1>1
  <2>6. c = b.cid[rsSessions[p[1]].gen, p[2]]
    BY <2>3, <2>4, <2>5
  <2> QED
    BY <2>2, <2>6
<1>6. DOMAIN rsIndex = {b.cid[rsSessions[p[1]].gen, p[2]] : p \in all}
  BY <1>4, <1>5
<1> QED
  BY <1>4, <1>6 DEF RR!IndexIsExact, all

\* One registration for each live session.
LEMMA RegistrationsFollow ==
  ASSUME NEW b \in Registries, RegistryInv(b)
  PROVE  RR(b)!RegistrationsAreExact
<1>0. DirectoryTypes(b) /\ OneRegistration(b) /\ EntriesAreFiled(b)
  BY DEF RegistryInv
<1> SUFFICES ASSUME NEW s \in b.sids
             PROVE
               LET holders == {a \in b.addresses : rsDir[a].kind = "session" /\ rsDir[a].sid = s}
                   tasks == {a \in b.addresses : rsHeld[a].gen # 0 /\ rsHeld[a].sid = s}
               IN  IF RR(b)!Live(s)
                   THEN /\ RR(b)!Cardinality(holders) + RR(b)!Cardinality(tasks) = 1
                        /\ \A a \in holders : rsDir[a].gen = rsSessions[s].gen
                        /\ \A a \in tasks : rsHeld[a].gen = rsSessions[s].gen
                   ELSE holders = {} /\ tasks = {}
  BY DEF RR!RegistrationsAreExact
<1> DEFINE holders == {a \in b.addresses : rsDir[a].kind = "session" /\ rsDir[a].sid = s}
           tasks == {a \in b.addresses : rsHeld[a].gen # 0 /\ rsHeld[a].sid = s}
<1>1. holders = {a \in b.addresses : Files(a, s)} /\ tasks = {a \in b.addresses : Holds(a, s)}
  BY DEF Files, Holds
<1>2. /\ \A a \in holders : RR(b)!Live(s) /\ rsDir[a].gen = rsSessions[s].gen
      /\ \A a \in tasks : RR(b)!Live(s) /\ rsHeld[a].gen = rsSessions[s].gen
  BY <1>0 DEF EntriesAreFiled
<1>3. CASE RR(b)!Live(s)
  <2>1. PICK a \in b.addresses : Files(a, s) \/ Holds(a, s)
    BY <1>0, <1>3 DEF OneRegistration
  <2>2. \A k \in b.addresses : Files(k, s) \/ Holds(k, s) => k = a
    BY <1>0, <2>1 DEF OneRegistration
  <2>3. ~(Files(a, s) /\ Holds(a, s))
    <3>1. ASSUME Holds(a, s) PROVE rsDir[a] = RR(b)!HalfOpen
      BY <1>0, <3>1, EntryShape DEF Holds, OneRegistration
    <3> QED
      BY <3>1 DEF Files, RR!HalfOpen
  <2>4. \/ holders = {a} /\ tasks = {}
        \/ holders = {} /\ tasks = {a}
    BY <1>1, <2>1, <2>2, <2>3
  <2>5. RR(b)!Cardinality({a}) = 1 /\ RR(b)!Cardinality({}) = 0
    BY FS_Singleton, FS_EmptySet, RegistryCardinality
  <2>6. RR(b)!Cardinality(holders) + RR(b)!Cardinality(tasks) = 1
    <3> HIDE DEF holders, tasks
    <3> QED
      BY <2>4, <2>5
  <2> QED
    BY <1>2, <1>3, <2>6
<1>4. CASE ~RR(b)!Live(s)
  BY <1>2, <1>4
<1> QED
  BY <1>3, <1>4

\* Both locks show the same path.
LEMMA RoutesFollow ==
  ASSUME NEW b \in Registries, RegistryInv(b)
  PROVE  RR(b)!RoutesReachTheirSession
BY DEF RegistryInv, EntriesAreFiled, RR!RoutesReachTheirSession

\* Counts and moves.
LEMMA CountsFollow ==
  ASSUME NEW b \in Registries, RegistryInv(b)
  PROVE  RR(b)!CandidatesAreCounted /\ RR(b)!MovesAreValidated
BY DEF RegistryInv, CountHolds, Candidates, RR!CandidatesAreCounted

\* Only a PATH_INIT that is turned away ends the datagram at its first stage.
LEMMA OnlyObserveRefuses ==
  ASSUME NEW b \in Registries, RegistryInv(b), [RR(b)!Next]_(RR(b)!vars), rsHand.pc = "init",
         rsHand'.pc = "idle"
  PROVE  RR(b)!Observe
<1>1. rsHand # RR(b)!Idle /\ rsHand' # rsHand
  BY IdleShape
<1>2. UNCHANGED RR(b)!vars => rsHand' = rsHand
  BY DEF RR!vars
<1>3. RR(b)!ExpireCandidates => rsHand' = rsHand
  BY DEF RR!ExpireCandidates
<1>4. \A s \in b.sids : RR(b)!LifetimeElapses(s) => rsHand' = rsHand
  BY DEF RR!LifetimeElapses
<1>5. \A a \in b.addresses :
        RR(b)!Handshake(a) \/ RR(b)!RefuseBootstrap(a) \/ RR(b)!Attach(a) \/ RR(b)!AuthOk(a)
          \/ RR(b)!RemoveEntry(a)
          => rsHand' = rsHand
  BY DEF RR!Handshake, RR!RefuseBootstrap, RR!Attach, RR!AuthOk, RR!RemoveEntry
<1>6. \A a \in b.addresses, s \in b.sids : RR(b)!Register(a, s) => rsHand' = rsHand
  BY DEF RR!Register
<1>7. \A a \in b.addresses, g \in 1..b.maxGeneration, e \in 1..b.maxEpoch :
          RR(b)!Route(g, e, a) => rsHand' = rsHand
  BY DEF RR!Route
<1>8. ~RR(b)!Dispatch /\ ~RR(b)!PublishTicket /\ ~RR(b)!SendChallenge /\ ~RR(b)!Respond
  BY <1>1 DEF RR!Dispatch, RR!PublishTicket, RR!SendChallenge, RR!Respond
<1> QED
  BY <1>1, <1>2, <1>3, <1>4, <1>5, <1>6, <1>7, <1>8 DEF RR!Next

\* What a refusal says of the table.
LEMMA RefusalsFollow ==
  ASSUME NEW b \in Registries, RegistryInv(b), [RR(b)!Next]_(RR(b)!vars)
  PROVE  RR(b)!RefusesForRunningOnes
<1> SUFFICES ASSUME rsHand.pc = "init", rsHand'.pc = "idle", RR(b)!Acceptable(rsHand.d.at,
                    rsHand.d.from)
             PROVE  \/ RR(b)!HasCandidate(rsHand.d.at.sid) /\ ~RR(b)!Expired(rsHand.d.at.sid)
                    \/ RR(b)!Cardinality({s \in b.sids : RR(b)!HasCandidate(s)
                         /\ ~RR(b)!Expired(s)}) >= b.maxCandidates
  BY DEF RR!RefusesForRunningOnes
<1>0. RegistryTypes(b) /\ IngressTypes(b) /\ CountHolds(b)
  BY DEF RegistryInv
<1>1. RR(b)!Observe
  BY OnlyObserveRefuses
<1> DEFINE at == rsHand.d.at
           from == rsHand.d.from
           S == RR(b)!FirstSwept(rsHand.d.at)
           T == RR(b)!Swept(S)
<1>2. rsHand # RR(b)!Idle /\ at.sid \in b.sids
  BY <1>0, HandShape, IdleShape
<1>3. SUFFICES ASSUME ~(RR(b)!HasCandidate(at.sid) /\ ~RR(b)!Expired(at.sid))
               PROVE  RR(b)!Cardinality({s \in b.sids : RR(b)!HasCandidate(s)
                        /\ ~RR(b)!Expired(s)}) >= b.maxCandidates
  OBVIOUS
<1>4. /\ S \subseteq RR(b)!Overdue /\ (RR(b)!Expired(at.sid) => at.sid \in S)
  BY <1>0, <1>2, FirstSweptFacts
<1>5. S \subseteq Candidates(b) /\ RR(b)!Overdue \subseteq Candidates(b)
        /\ IsFiniteSet(Candidates(b))
  BY <1>0, <1>4, OverdueFacts
<1>6. T[at.sid].cand = RR(b)!NoCandidate
  <2>1. T[at.sid].cand = IF at.sid \in S THEN RR(b)!NoCandidate ELSE rsSessions[at.sid].cand
    BY <1>0, <1>2, <1>5, SweepFacts
  <2>2. at.sid \notin S => ~RR(b)!HasCandidate(at.sid)
    BY <1>3, <1>4
  <2>3. RR(b)!HasCandidate(at.sid) <=> rsSessions[at.sid].cand # RR(b)!NoCandidate
    BY <1>0, <1>2, SessionShape
  <2> QED
    BY <2>1, <2>2, <2>3
<1>7. rsHand'.pc # "publish"
  OBVIOUS
<1>8. rsCount - RR(b)!Cardinality(S) >= b.maxCandidates
  <2>1. \/ rsHand' = [rsHand EXCEPT !.pc = "publish", !.ticket =
                      [id |-> T[at.sid].cand.id, gen |-> at.gen, sid |-> at.sid]]
        \/ rsHand' = [rsHand EXCEPT !.pc = "publish", !.ticket =
                      [id |-> rsNextTicket, gen |-> at.gen, sid |-> at.sid]]
        \/ ~RR(b)!Acceptable(at, from)
        \/ T[at.sid].cand # RR(b)!NoCandidate /\ T[at.sid].cand.path # from
        \/ T[at.sid].cand = RR(b)!NoCandidate /\ rsCount - RR(b)!Cardinality(S) >= b.maxCandidates
    BY <1>1 DEF RR!Observe
  <2>2. rsHand \in [pc : {"init", "response"}, d : Routed(b), owner : b.addresses,
            ticket : {RR(b)!NoCandidate}]
    BY <1>0, <1>2, HandShape
  <2>3. \A k : [rsHand EXCEPT !.pc = "publish", !.ticket = k].pc = "publish"
    BY <2>2
  <2> HIDE DEF S, T
  <2> QED
    BY <1>6, <1>7, <2>1, <2>3
<1>9. /\ RR(b)!Cardinality(RR(b)!Overdue) \in Nat /\ RR(b)!Cardinality(Candidates(b)) \in Nat
      /\ RR(b)!Cardinality(Candidates(b) \ RR(b)!Overdue) =
             RR(b)!Cardinality(Candidates(b)) - RR(b)!Cardinality(RR(b)!Overdue)
  BY <1>5, LeftOver
<1>10. Candidates(b) \ RR(b)!Overdue = {s \in b.sids : RR(b)!HasCandidate(s) /\ ~RR(b)!Expired(s)}
  BY DEF Candidates, RR!Overdue
<1>11. rsCount = RR(b)!Cardinality(Candidates(b))
  BY <1>0 DEF CountHolds
<1>12. S = RR(b)!Overdue
  <2> DEFINE own == {at.sid} \cap RR(b)!Overdue
             needsSlot == RR(b)!Acceptable(at, from) /\ (~RR(b)!HasCandidate(at.sid)
               \/ RR(b)!Expired(at.sid))
  <2>1. S = IF needsSlot
          /\ rsCount - RR(b)!Cardinality(own) >= b.maxCandidates THEN RR(b)!Overdue ELSE own
    BY DEF RR!FirstSwept
  <2>2. needsSlot
    BY <1>3
  <2> HIDE DEF S, own
  <2> QED
    BY <1>8, <2>1, <2>2
<1> HIDE DEF S
<1> QED
  BY <1>8, <1>9, <1>10, <1>11, <1>12

\* The setting that is followed.
RegistriesInv == \A b \in Registries : part = b.part => RegistryInv(b)

LEMMA RegistriesStart ==
  ASSUME StartAll
  PROVE  RegistriesInv
<1> SUFFICES ASSUME NEW d \in Registries, part = d.part
             PROVE  RegistryInv(d)
  BY DEF RegistriesInv
<1>1. part \notin {"tcp", "handover"}
  BY RegistriesAssumption
<1>2. PICK b \in Registries : part = b.part /\ RR(b)!Init
  BY <1>1 DEF StartAll
<1>3. b = d
  BY <1>2, RegistriesAssumption
<1> QED
  BY <1>2, <1>3, RegistryInit

\* A step is a step of the setting that is followed, or leaves the registry alone.
LEMMA RegistriesStep ==
  ASSUME [StepOne]_allVars, NEW d \in Registries, part = d.part
  PROVE  part' = part /\ [RR(d)!Next]_(RR(d)!vars)
<1>1. part' = part
  BY DEF StepOne, allVars
<1>2. part \notin {"tcp", "handover"}
  BY RegistriesAssumption
<1>3. CASE UNCHANGED allVars
  BY <1>1, <1>3 DEF allVars, rsVars, RR!vars, RR!registry, RR!directory
<1>4. CASE \E b \in Registries : part = b.part /\ RR(b)!Next
  BY <1>1, <1>4, RegistriesAssumption
<1> QED
  BY <1>2, <1>3, <1>4 DEF StepOne

LEMMA RegistriesKept ==
  ASSUME RegistriesInv, [StepOne]_allVars
  PROVE  RegistriesInv'
<1> SUFFICES ASSUME NEW d \in Registries, part' = d.part
             PROVE  RegistryInv(d)'
  BY DEF RegistriesInv
<1>1. part' = part
  BY DEF StepOne, allVars
<1>2. RegistryInv(d) /\ [RR(d)!Next]_(RR(d)!vars)
  BY <1>1, RegistriesStep DEF RegistriesInv
<1> QED
  BY <1>2, RegistryStep

\* For any addresses, session ids, bounds and derivation of connection ids, colliding ones
\* included: the index holds the aliases of the live sessions and nothing else, a session
\* is registered exactly as long as one entry or task holds it, a session that was told
\* AuthOK is found at the path the registry has committed, it moved there after a challenge
\* for that epoch came back from that path, candidates are counted once, and an acceptable
\* PATH_INIT is refused only for candidates that still run (udp_roaming.rs,
\* udp_handler.rs).
THEOREM ConsistentRegistry == AnySpec => RegistryIsConsistent
<1> DEFINE Agrees ==
      \A b \in Registries : part = b.part =>
        /\ RR(b)!IndexIsExact /\ RR(b)!RegistrationsAreExact
        /\ RR(b)!RoutesReachTheirSession /\ RR(b)!MovesAreValidated
        /\ RR(b)!CandidatesAreCounted
    Refuses == \A b \in Registries : part = b.part => RR(b)!RefusesForRunningOnes
<1>1. StartAll => RegistriesInv
  BY RegistriesStart
<1>2. RegistriesInv /\ [StepOne]_allVars => RegistriesInv'
  BY RegistriesKept
<1>3. RegistriesInv => Agrees
  BY IndexFollows, RegistrationsFollow, RoutesFollow, CountsFollow DEF RegistriesInv
<1>4. RegistriesInv /\ [StepOne]_allVars => [Refuses]_rsVars
  <2> SUFFICES ASSUME RegistriesInv, [StepOne]_allVars, NEW b \in Registries, part = b.part
               PROVE  RR(b)!RefusesForRunningOnes
    OBVIOUS
  <2>1. RegistryInv(b) /\ [RR(b)!Next]_(RR(b)!vars)
    BY RegistriesStep DEF RegistriesInv
  <2> QED
    BY <2>1, RefusalsFollow
<1>5. AnySpec => []Agrees /\ [][Refuses]_rsVars
  <2> HIDE DEF Agrees, Refuses
  <2> QED
    BY <1>1, <1>2, <1>3, <1>4, PTL DEF AnySpec
<1> QED
  BY <1>5 DEF RegistryIsConsistent
=============================================================================
