-------------------------- MODULE ControlReassembly --------------------------
(***************************************************************************)
(* One receive direction of a session under arbitrary authenticated        *)
(* frames: parts repeated, out of order, in conflict, of identifiers used  *)
(* again, and of messages that do not decode (control_v2.rs).              *)
(***************************************************************************)
EXTENDS ControlV2

CONSTANTS
  MsgId,          \* message identifiers, drawn at random by the sender
  MaxTime,        \* bound on the clock
  MaxDelivered    \* bound on the deliveries one behaviour records

VARIABLES
  reassembler,    \* Reassembler { inflight, completed }
  now,            \* Instant::now() of the caller
  repeated,       \* the frame, if the last call answered it as a duplicate
  delivered       \* the messages handed to the session, in order

vars == <<reassembler, now, repeated, delivered>>

Frame ==
  {f \in [id : MsgId, type : ManagementTypes \cup {"path"}, ack : BOOLEAN,
          count : 1..2, index : 0..1, payload : Payload] : f.index < f.count}

Init ==
  /\ reassembler = EmptyReassembler
  /\ now = 0
  /\ repeated = {}
  /\ delivered = <<>>

Receive(f) ==
  LET pushed == PushManagement(reassembler, now, f)
  IN /\ Len(delivered) < MaxDelivered
     /\ reassembler' = pushed.state
     /\ repeated' = IF pushed.outcome = "duplicate" THEN {f} ELSE {}
     /\ delivered' = IF pushed.outcome = "complete"
                     THEN Append(delivered, [head |-> Label(f), parts |-> pushed.parts])
                     ELSE delivered
     /\ UNCHANGED now

Tick ==
  /\ now < MaxTime
  /\ now' = now + 1
  /\ UNCHANGED <<reassembler, repeated, delivered>>

Next == Tick \/ \E f \in Frame : Receive(f)

Spec == Init /\ [][Next]_vars

-----------------------------------------------------------------------------
Heads == [id : MsgId, type : ManagementTypes, ack : BOOLEAN, count : 1..2]

(* The table and the cache stay within their limits, an unfinished message *)
(* lacks at least one part, and no identifier is in both or twice in one:  *)
(* a receipt and an assembly of one identifier would let the same message  *)
(* complete again (`push`, `remember_completed`).                          *)
TableIsBounded ==
  LET r == reassembler
  IN /\ Cardinality(r.inflight) <= MAX_INFLIGHT
     /\ Len(r.completed) <= COMPLETED_ID_CACHE
     /\ \A a \in r.inflight :
          /\ a.head \in Heads
          /\ Len(a.parts) \in 1..(a.head.count - 1)
     /\ \A id \in MsgId :
          Cardinality(InflightOf(r, id)) + Cardinality(ReceiptsOf(r, id)) <= 1

(* What is acknowledged was delivered: a frame is answered as a repeat     *)
(* only when a message of its identifier, type and flags with exactly that *)
(* part has been handed to the session.  A message that was complete but   *)
(* did not decode never earns a receipt (`push_management`).               *)
ReceiptsAreEarned ==
  \A f \in repeated :
    \E i \in DOMAIN delivered :
       /\ delivered[i].head = Label(f)
       /\ delivered[i].parts[f.index + 1] = f.payload

(* One message is acted on once while its receipt lasts: an identifier is  *)
(* delivered again only after at least COMPLETED_ID_CACHE - 1 other        *)
(* messages were, however its parts were repeated or its peer re-used it.  *)
DeliveredOnce ==
  \A i, j \in DOMAIN delivered :
     i < j /\ delivered[i].head.id = delivered[j].head.id =>
       j - i >= COMPLETED_ID_CACHE

(* An unfinished message holds its slot for less than REASSEMBLY_TIMEOUT   *)
(* past the last frame: after a call that changes anything none is that    *)
(* old, so a peer that never finishes its messages cannot keep the table   *)
(* full (`expire`).                                                        *)
NoStaleAssembly ==
  [][reassembler' # reassembler =>
       \A a \in reassembler'.inflight :
          now - a.started < REASSEMBLY_TIMEOUT]_vars
=============================================================================
