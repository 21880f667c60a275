------------------------------- MODULE Roaming -------------------------------
(* How a session survives a change of network: the TCP resume and its      *)
(* orphan lifecycle on the server (TcpRoaming), the UDP connection-id      *)
(* registry with its directory and ingress on the server                   *)
(* (UdpRoamingServer), and the UDP handover between a client and the       *)
(* server (UdpHandover). A session has one transport, and the handover     *)
(* model contains what the registry answers, so a behaviour follows one of *)
(* them, the part.                                                         *)
EXTENDS UdpHandover

CONSTANTS           \* TcpRoaming
  Slot, Transport, MaxEpoch, MaxStreams, MaxOrphans

CONSTANT Registries   \* the settings the UDP registry is checked with, each a part of its own

\* A profile has finitely many session ids, and its cap on candidates is a number.
ASSUME RegistriesAssumption ==
  /\ Registries # {}
  /\ \A b, c \in Registries : b.part = c.part => b = c
  /\ \A b \in Registries : /\ b.part \notin {"tcp", "handover"}
                           /\ IsFiniteSet(b.sids) /\ b.maxCandidates \in Nat

VARIABLE part     \* the component this behaviour is about, and its bounds

VARIABLES           \* TcpRoaming
  trLife, trTicket, trGen, trEpoch, trResv, trReady, trDraining, trOthers, trCounted,
  trArmed, trDue, trAttached, trScheduled, trRevoked, trClosing, trInMap, trPhase,
  trMine, trWasLast, trPending
VARIABLES           \* UdpRoamingServer
  rsSessions, rsIndex, rsNextGen, rsNextTicket, rsCount, rsTotals, rsDir, rsOwners,
  rsHeld, rsMailbox, rsHand, rsChallenges

trVars ==
  <<trLife, trTicket, trGen, trEpoch, trResv, trReady, trDraining, trOthers, trCounted,
    trArmed, trDue, trAttached, trScheduled, trRevoked, trClosing, trInMap, trPhase,
    trMine, trWasLast, trPending>>
rsVars ==
  <<rsSessions, rsIndex, rsNextGen, rsNextTicket, rsCount, rsTotals, rsDir, rsOwners,
    rsHeld, rsMailbox, rsHand, rsChallenges>>

\* For any number of slots, carriers and epochs.
TR == INSTANCE TcpRoaming WITH
  life <- trLife, ticket <- trTicket, gen <- trGen, epoch <- trEpoch, resv <- trResv,
  ready <- trReady, draining <- trDraining, others <- trOthers, counted <- trCounted,
  armed <- trArmed, due <- trDue, attached <- trAttached, scheduled <- trScheduled,
  revoked <- trRevoked, closing <- trClosing, inMap <- trInMap, phase <- trPhase,
  mine <- trMine, wasLast <- trWasLast, pending <- trPending

\* For any addresses, session ids, bounds and derivation of connection ids.
RR(b) == INSTANCE UdpRoamingServer WITH
  Addresses <- b.addresses, Sids <- b.sids, MaxGeneration <- b.maxGeneration,
  MaxEpoch <- b.maxEpoch, MaxTicket <- b.maxTicket, MaxCandidates <- b.maxCandidates,
  Mailbox <- b.mailbox, Cid <- b.cid,
  sessions <- rsSessions, index <- rsIndex, nextGen <- rsNextGen,
  nextTicket <- rsNextTicket, count <- rsCount, totals <- rsTotals, dir <- rsDir,
  owners <- rsOwners, held <- rsHeld, mailbox <- rsMailbox, hand <- rsHand,
  challenges <- rsChallenges

allVars ==
  <<part, trVars, rsVars, vars>>

\* Every component starts afresh; one of them is followed.
StartAll ==
  /\ part \in {"tcp", "handover"} \cup {b.part : b \in Registries}
  /\ TR!Init
  /\ \E b \in Registries :
       /\ IF part \in {"tcp", "handover"} THEN b = CHOOSE c \in Registries : TRUE
          ELSE part = b.part
       /\ RR(b)!Init
  /\ Init
  /\ part = "tcp" \/ trOthers = 0

StepOne ==
  \/ /\ part = "tcp" /\ TR!Next
     /\ UNCHANGED <<part, rsVars, vars>>
  \/ /\ \E b \in Registries : part = b.part /\ RR(b)!Next
     /\ UNCHANGED <<part, trVars, vars>>
  \/ /\ part = "handover" /\ Next
     /\ UNCHANGED <<part, trVars, rsVars>>

AnySpec == StartAll /\ [][StepOne]_allVars

-----------------------------------------------------------------------------
(* A TCP session that lost its carriers is counted once, has a reaper for  *)
(* its exact ticket and stays in the map as long as it can be resumed; a   *)
(* reservation always has the one task that will end it; downlink data is  *)
(* scheduled only on committed carriers, never on a candidate or on one    *)
(* whose successor was activated (`tcp_roaming.rs`, `handler.rs`).         *)
ResumesAreAccountedFor == part = "tcp" => TR!ResumesAreAccountedFor

(* The connection-id index, the registrations and the directory agree      *)
(* through registrations, moves, collisions and ends in any order, so that *)
(* a datagram reaches its session, and a session moves only to a path that *)
(* answered a challenge for that epoch; a candidate slot whose lifetime    *)
(* has elapsed never keeps another session from roaming                    *)
(* (`udp_roaming.rs`).                                                     *)
RegistryIsConsistent ==
  /\ [](\A b \in Registries : part = b.part =>
          /\ RR(b)!IndexIsExact /\ RR(b)!RegistrationsAreExact
          /\ RR(b)!RoutesReachTheirSession /\ RR(b)!MovesAreValidated
          /\ RR(b)!CandidatesAreCounted)
  /\ [][\A b \in Registries : part = b.part => RR(b)!RefusesForRunningOnes]_rsVars
=============================================================================
