------------------------------ MODULE WireLayer ------------------------------
(* Everything a received datagram or record goes through before the tunnel *)
(* sees it: the replay window (PacketCodec), the data fragments of UDP     *)
(* records (DataFragments) and the parts of control messages               *)
(* (ControlReassembly). The three share no state, so a behaviour follows   *)
(* one of them, the part, from its start.                                  *)
EXTENDS PacketCodec, TLC

CONSTANT MsgIds     \* control message identifiers, interchangeable

VARIABLE part     \* the component this behaviour is about, and its bounds

VARIABLES           \* DataFragments
  dfWriter, dfNextId, dfNet, dfEntries, dfBuffered, dfOut, dfConflict
VARIABLES           \* ControlReassembly
  crReassembler, crNow, crRepeated, crDelivered

dfVars ==
  <<dfWriter, dfNextId, dfNet, dfEntries, dfBuffered, dfOut, dfConflict>>
crVars ==
  <<crReassembler, crNow, crRepeated, crDelivered>>

\* Two records that are split.
DF == INSTANCE DataFragments WITH
  Lengths <- <<3, 3>>, Budget <- 2, Floor <- 1, MaxRecords <- 2, MaxBytes <- 3,
  Timeout <- 0,
  writer <- dfWriter, nextId <- dfNextId, net <- dfNet, entries <- dfEntries,
  buffered <- dfBuffered, out <- dfOut, conflict <- dfConflict

\* Every frame of three messages, in any order.
CR == INSTANCE ControlReassembly WITH
  MAX_INFLIGHT <- 1, COMPLETED_ID_CACHE <- 2, REASSEMBLY_TIMEOUT <- 2,
  Payload <- {"ok", "bad"}, Malformed <- {"bad"}, MsgId <- MsgIds, MaxTime <- 2,
  MaxDelivered <- 3,
  reassembler <- crReassembler, now <- crNow, repeated <- crRepeated,
  delivered <- crDelivered

allVars ==
  <<part, codecVars, dfVars, crVars>>

\* Every component starts afresh; one of them is followed.
StartAll ==
  /\ part \in {"packet", "fragments", "control"}
  /\ Init
  /\ DF!Init
  /\ CR!Init

StepOne ==
  \/ /\ part = "packet" /\ Next
     /\ UNCHANGED <<part, dfVars, crVars>>
  \/ /\ part = "fragments" /\ DF!Next
     /\ UNCHANGED <<part, codecVars, crVars>>
  \/ /\ part = "control" /\ CR!Next
     /\ UNCHANGED <<part, codecVars, dfVars>>

AnySpec == StartAll /\ [][StepOne]_allVars

-----------------------------------------------------------------------------
\* Identifiers are only compared, and no property of this run is a liveness one.
Symmetry == Permutations(MsgIds)

(* The reassembler of UDP data (`DataReassembler::push`) returns a record  *)
(* whole and in order or not at all, never joins two records or two        *)
(* attempts at one, meets no contradiction between genuine fragments, and  *)
(* its byte budget is exactly what the unfinished records hold.            *)
FragmentsMakeWholeRecords ==
  part = "fragments" =>
    DF!OnlyWholeRecords /\ DF!GenuineNeverConflicts /\ DF!BudgetIsExact

(* A control message reaches the session once, however often its parts and *)
(* acknowledgements are repeated, a receipt is sent only for a message     *)
(* that was delivered, the tables stay within their limits, and no call    *)
(* that changes them leaves an unfinished message as old as the timeout,   *)
(* so a peer that never finishes cannot keep them full (`Reassembler`).    *)
ControlMessagesArriveOnce ==
  /\ [](part = "control" =>
          CR!ReceiptsAreEarned /\ CR!DeliveredOnce /\ CR!TableIsBounded)
  /\ CR!NoStaleAssembly
=============================================================================
