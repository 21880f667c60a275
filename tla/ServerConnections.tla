-------------------------- MODULE ServerConnections --------------------------
(* A client's way through the server: the UDP handshake up to AUTH_OK      *)
(* (UdpHandshake), the session that is admitted, joined, evicted and torn  *)
(* down (ServerSessions) and the management messages of a running session  *)
(* (ManagementDelivery), over a network that loses, repeats and delays.    *)
(* The handshake is over before the session is admitted, and a message     *)
(* does not change what the session owns, so a behaviour follows one of    *)
(* them, the part.                                                         *)
EXTENDS Integers

CONSTANT Deliveries   \* the settings management messages are checked with, each a part of its own

\* A task that only warns does not evict, the absent sender is none of them, and a receipt
\* is kept at all.
ASSUME DeliveriesAssumption ==
  /\ Deliveries # {}
  /\ \A b, c \in Deliveries : b.part = c.part => b = c
  /\ \A b \in Deliveries :
       /\ b.kickers \cap b.notifiers = {} /\ b.abortable \subseteq b.kickers
       /\ "no sender" \notin b.kickers \cup b.notifiers
       /\ b.cache \in Nat \ {0} /\ b.datagram \in BOOLEAN

VARIABLE part     \* the component this behaviour is about, and its bounds

VARIABLES           \* UdpHandshake
  hsCl, hsNet, hsPart, hsDir, hsTask, hsMade, hsFaults, hsSentOk, hsCover, hsCredit
VARIABLES           \* ServerSessions
  ssLock, ssStep, ssLast, ssSess, ssByIp, ssLease, ssVictims, ssRetiring, ssRoutes,
  ssPendingDel, ssKernel, ssStreams, ssLookups, ssJoining, ssPrimary, ssTorn, ssFlagged
VARIABLES           \* ManagementDelivery
  mdTask, mdReceipt, mdSent, mdAcks, mdRevoked, mdServer, mdTerminal, mdOrdinary,
  mdDown, mdUp, mdReassembler, mdReader, mdLane, mdSlot, mdClient, mdReceipted

hsVars ==
  <<hsCl, hsNet, hsPart, hsDir, hsTask, hsMade, hsFaults, hsSentOk, hsCover, hsCredit>>
ssVars ==
  <<ssLock, ssStep, ssLast, ssSess, ssByIp, ssLease, ssVictims, ssRetiring, ssRoutes,
    ssPendingDel, ssKernel, ssStreams, ssLookups, ssJoining, ssPrimary, ssTorn,
    ssFlagged>>
mdVars ==
  <<mdTask, mdReceipt, mdSent, mdAcks, mdRevoked, mdServer, mdTerminal, mdOrdinary,
    mdDown, mdUp, mdReassembler, mdReader, mdLane, mdSlot, mdClient, mdReceipted>>

\* One source address, time passes, datagrams are repeated and one is lost.
HT == INSTANCE UdpHandshake WITH
  Addrs <- {"a1"}, Cap <- 1, HelloLen <- 5, MaxReemits <- 1, Window <- 1, MaxHs <- 1,
  MaxRecv <- 7, MaxFaults <- 1, Dup <- TRUE, Ticks <- TRUE,
  cl <- hsCl, net <- hsNet, part <- hsPart, dir <- hsDir, task <- hsTask,
  made <- hsMade, faults <- hsFaults, sentOk <- hsSentOk, cover <- hsCover,
  credit <- hsCredit

\* Two addresses compete for one half-open entry.
HC == INSTANCE UdpHandshake WITH
  Addrs <- {"a1", "a2"}, Cap <- 1, HelloLen <- 5, MaxReemits <- 1, Window <- 0,
  MaxHs <- 1, MaxRecv <- 2, MaxFaults <- 0, Dup <- FALSE, Ticks <- FALSE,
  cl <- hsCl, net <- hsNet, part <- hsPart, dir <- hsDir, task <- hsTask,
  made <- hsMade, faults <- hsFaults, sentOk <- hsSentOk, cover <- hsCover,
  credit <- hsCredit

\* Three devices of two logins, one with a static address, two with the same network.
SU == INSTANCE ServerSessions WITH
  Kinds <- {"udp"}, Key <- {"ann1", "ann2", "bob"},
  User <- [ann1 |-> "ann", ann2 |-> "ann", bob |-> "bob"],
  Fixed <- [ann1 |-> 0, ann2 |-> 1, bob |-> 0],
  Subnets <- [ann1 |-> {}, ann2 |-> {"lan"}, bob |-> {"lan"}], Mac <- {}, Addr <- 1..3,
  MaxSessions <- 2, MaxClients <- 2, MaxStreams <- 1, Sid <- 1..3, MaxJoins <- 0,
  lock <- ssLock, step <- ssStep, last <- ssLast, sess <- ssSess, byIp <- ssByIp,
  lease <- ssLease, victims <- ssVictims, retiring <- ssRetiring, routes <- ssRoutes,
  pendingDel <- ssPendingDel, kernel <- ssKernel, streams <- ssStreams,
  lookups <- ssLookups, joining <- ssJoining, primary <- ssPrimary, torn <- ssTorn,
  flagged <- ssFlagged

\* One device that connects twice, with joined streams.
ST == INSTANCE ServerSessions WITH
  Kinds <- {"tcp"}, Key <- {"ann1"},
  User <- [ann1 |-> "ann", ann2 |-> "ann", bob |-> "bob"],
  Fixed <- [ann1 |-> 0, ann2 |-> 1, bob |-> 0],
  Subnets <- [ann1 |-> {}, ann2 |-> {"lan"}, bob |-> {"lan"}], Mac <- {}, Addr <- 1..2,
  MaxSessions <- 1, MaxClients <- 2, MaxStreams <- 2, Sid <- 1..2, MaxJoins <- 2,
  lock <- ssLock, step <- ssStep, last <- ssLast, sess <- ssSess, byIp <- ssByIp,
  lease <- ssLease, victims <- ssVictims, retiring <- ssRetiring, routes <- ssRoutes,
  pendingDel <- ssPendingDel, kernel <- ssKernel, streams <- ssStreams,
  lookups <- ssLookups, joining <- ssJoining, primary <- ssPrimary, torn <- ssTorn,
  flagged <- ssFlagged

\* For any streams, tasks, identifiers and capacities. A message of one part is never in
\* flight, so the bounds of the reassembly play no role.
MD(b) == INSTANCE ManagementDelivery WITH
  MAX_INFLIGHT <- 1, COMPLETED_ID_CACHE <- b.cache, REASSEMBLY_TIMEOUT <- 2,
  Payload <- b.payload, Malformed <- b.malformed, Streams <- b.streams,
  Kickers <- b.kickers, Abortable <- b.abortable, Notifiers <- b.notifiers,
  MsgId <- b.msgId, Datagram <- b.datagram, AckLane <- b.ackLane,
  task <- mdTask, receipt <- mdReceipt, sent <- mdSent, acks <- mdAcks,
  revoked <- mdRevoked, server <- mdServer, terminal <- mdTerminal,
  ordinary <- mdOrdinary, down <- mdDown, up <- mdUp, reassembler <- mdReassembler,
  reader <- mdReader, lane <- mdLane, slot <- mdSlot, client <- mdClient,
  receipted <- mdReceipted

allVars ==
  <<part, hsVars, ssVars, mdVars>>

\* Every component starts afresh; one of them is followed.
StartAll ==
  /\ part \in {"source", "cap", "sessions", "streams"} \cup {b.part : b \in Deliveries}
  /\ IF part = "cap" THEN HC!Init ELSE HT!Init
  /\ IF part = "streams" THEN ST!Init ELSE SU!Init
  /\ \E b \in Deliveries :
       /\ IF \E c \in Deliveries : part = c.part
          THEN part = b.part ELSE b = CHOOSE c \in Deliveries : TRUE
       /\ MD(b)!Init

StepOne ==
  \/ /\ part = "source" /\ HT!Next
     /\ UNCHANGED <<part, ssVars, mdVars>>
  \/ /\ part = "cap" /\ HC!Next
     /\ UNCHANGED <<part, ssVars, mdVars>>
  \/ /\ part = "sessions" /\ SU!Next
     /\ UNCHANGED <<part, hsVars, mdVars>>
  \/ /\ part = "streams" /\ ST!Next
     /\ UNCHANGED <<part, hsVars, mdVars>>
  \/ /\ \E b \in Deliveries : part = b.part /\ MD(b)!Next
     /\ UNCHANGED <<part, hsVars, ssVars>>

AnySpec == StartAll /\ [][StepOne]_allVars

-----------------------------------------------------------------------------
(* While an AUTH task works on an address across its awaits, and until its *)
(* answer is published, the entry there is the handshake it verifies: not  *)
(* evicted at the cap, not reaped, not superseded by another AUTH, not     *)
(* replaced by a repeated ClientHello; and as long as the task runs, an    *)
(* entry of its handshake is under its lease (`UdpAuthLease`). And an      *)
(* unproven source costs little: what is sent to it stays within three     *)
(* times what came from it, half-open entries stay within the cap, and no  *)
(* traffic of a session precedes its AuthOK (`udp_handler.rs`).            *)
HandshakesAreSound ==
  /\ part = "source" => HT!HandshakesAreSound
  /\ part = "cap" => HC!HandshakesAreSound

(* The session map, the leases, the routes and the limits agree: a live    *)
(* session holds its address, no lease is left without a session, kernel   *)
(* routes are those of live sessions and the limits hold at every step of  *)
(* every admission, failed ones included (`handler.rs`, `udp_handler.rs`). *)
SessionsOwnTheirResources ==
  /\ part = "sessions" => SU!SessionsOwnTheirResources
  /\ part = "streams" => ST!SessionsOwnTheirResources

(* A session leaves the map on its own account only: no stale snapshot, no *)
(* late teardown and no other client's admission removes it, and no stream *)
(* attaches to a revoked one.                                              *)
NobodyElseEndsASession ==
  [][/\ part = "sessions" => SU!EndsOnItsOwn
     /\ part = "streams" => ST!EndsOnItsOwn]_ssVars

(* A KICK counts as delivered only if the client holds it (an              *)
(* acknowledgement on its way included), and then no NOTICE of another     *)
(* stream, end of file or stop by the user lets the session end as one     *)
(* that may be reconnected; no finished delivery keeps its identifier      *)
(* (`send_management`, `management_acks`, `finish_pending_management`).    *)
KicksAreHonoured ==
  \A b \in Deliveries : part = b.part =>
    MD(b)!AcknowledgedIsHeld /\ MD(b)!RegistryIsOwned /\ MD(b)!ReceiptedKickWins
=============================================================================
