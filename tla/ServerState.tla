----------------------------- MODULE ServerState -----------------------------
(* What the server keeps beside its sessions: the address pool             *)
(* (AddressPool), the DHCP server on top of it (DhcpServer) and the usage  *)
(* accounts (UsageAccounting). Each model contains what the others do to   *)
(* its state, so a behaviour follows one of them, the part, from its       *)
(* start.                                                                  *)
EXTENDS AddressPool

CONSTANTS           \* DhcpServer, whose addresses are called hosts here
  Mac, User, Host, Window, Reserved, OfferTime, LeaseTime, QuarantineTime, MaxPackets

VARIABLE part     \* the component this behaviour is about, and its bounds

VARIABLES           \* DhcpServer
  dhLeases, dhDeclined, dhOwner, dhJob, dhAcked, dhPackets
VARIABLES           \* UsageAccounting
  uaLife, uaCounter, uaUsage, uaCommitted, uaTracked, uaDisk, uaQueue, uaIo, uaPhase,
  uaSweep, uaSnapshot, uaKicks, uaPanel, uaSupervisor, uaFaults, uaResets, uaCrashes,
  uaCarried

dhVars ==
  <<dhLeases, dhDeclined, dhOwner, dhJob, dhAcked, dhPackets>>
uaVars ==
  <<uaLife, uaCounter, uaUsage, uaCommitted, uaTracked, uaDisk, uaQueue, uaIo, uaPhase,
    uaSweep, uaSnapshot, uaKicks, uaPanel, uaSupervisor, uaFaults, uaResets, uaCrashes,
    uaCarried>>

\* For any number of clients, hosts and packets.
DH == INSTANCE DhcpServer WITH
  Addr <- Host, leases <- dhLeases, declined <- dhDeclined, owner <- dhOwner, job <- dhJob,
  acked <- dhAcked, packets <- dhPackets

\* Two sessions of one user.
UA == INSTANCE UsageAccounting WITH
  Session <- {"s1", "s2"}, User <- {"ann"}, UserOf <- [s1 |-> "ann", s2 |-> "ann"],
  Limit <- 2, MaxBytes <- 1, MaxQueue <- 2, MaxResets <- 1, MaxFaults <- 1,
  MaxCrashes <- 0,
  life <- uaLife, counter <- uaCounter, usage <- uaUsage, committed <- uaCommitted,
  tracked <- uaTracked, disk <- uaDisk, queue <- uaQueue, io <- uaIo, phase <- uaPhase,
  sweep <- uaSweep, snapshot <- uaSnapshot, kicks <- uaKicks, panel <- uaPanel,
  supervisor <- uaSupervisor, faults <- uaFaults, resets <- uaResets,
  crashes <- uaCrashes, carried <- uaCarried

\* One session with more traffic, and a crash.
UB == INSTANCE UsageAccounting WITH
  Session <- {"s1"}, User <- {"ann"}, UserOf <- [s1 |-> "ann"], Limit <- 2,
  MaxBytes <- 2, MaxQueue <- 2, MaxResets <- 1, MaxFaults <- 1, MaxCrashes <- 1,
  life <- uaLife, counter <- uaCounter, usage <- uaUsage, committed <- uaCommitted,
  tracked <- uaTracked, disk <- uaDisk, queue <- uaQueue, io <- uaIo, phase <- uaPhase,
  sweep <- uaSweep, snapshot <- uaSnapshot, kicks <- uaKicks, panel <- uaPanel,
  supervisor <- uaSupervisor, faults <- uaFaults, resets <- uaResets,
  crashes <- uaCrashes, carried <- uaCarried

allVars ==
  <<part, vars, dhVars, uaVars>>

\* Every component starts afresh; one of them is followed.
StartAll ==
  /\ part \in {"pool", "dhcp", "usage", "crashes"}
  /\ Init
  /\ DH!Init
  /\ IF part = "crashes" THEN UB!Init ELSE UA!Init

StepOne ==
  \/ /\ part = "pool" /\ Next
     /\ UNCHANGED <<part, dhVars, uaVars>>
  \/ /\ part = "dhcp" /\ DH!Next
     /\ UNCHANGED <<part, vars, uaVars>>
  \/ /\ part = "usage" /\ UA!Next
     /\ UNCHANGED <<part, vars, dhVars>>
  \/ /\ part = "crashes" /\ UB!Next
     /\ UNCHANGED <<part, vars, dhVars>>

AnySpec == StartAll /\ [][StepOne]_allVars

-----------------------------------------------------------------------------
\* One reserved IPv4 host.
MCReservation ==
  [f \in Family |-> IF f = "v4" THEN [k \in {"ann"} |-> 3] ELSE [k \in {} |-> NoAddr]]

(* What a DHCP client was told holds: an acknowledged address is kept for  *)
(* its time, a declined one is left alone, no client has two leases, none  *)
(* is held for a client without a lease that can expire, and no packet     *)
(* takes an address from a VPN session (`dhcp.rs`).                        *)
DhcpPromisesHold ==
  /\ [](part = "dhcp" => DH!PromisesHold)
  /\ [][part = "dhcp" => DH!NotTakenFromVpn]_dhVars

(* Every byte is accounted once, through sweeps, retired counters, resets, *)
(* failed writes and crashes; a reset sticks; an orderly stop loses none   *)
(* (`usage.rs`).                                                           *)
UsageIsConserved ==
  /\ part = "usage" =>
       UA!BytesAreCountedOnce /\ UA!ResetsStick /\ UA!StopKeepsEverything
  /\ part = "crashes" =>
       UB!BytesAreCountedOnce /\ UB!ResetsStick /\ UB!StopKeepsEverything
=============================================================================
