-------------------------- MODULE ManagementDelivery --------------------------
(***************************************************************************)
(* Management events of a live session, end to end: the server tasks that  *)
(* warn or evict it (SessionShared::send_management and kick_all in         *)
(* src/qeli/src/server/handler.rs, called by the control socket, the quota *)
(* sweep and session replacement), the writer of each bonded stream, and   *)
(* the client that receipts the event, publishes it in a one-place watch   *)
(* slot and lets its supervisor act on it (src/qeli/src/client/mod.rs).     *)
(*                                                                         *)
(* A management text has at most 512 bytes, so its message has one part    *)
(* and REASSEMBLY_TIMEOUT plays no role.  Every KICK forbids a reconnect.  *)
(* Records are authenticated and replay-protected: a datagram is lost or   *)
(* overtaken, never forged or seen twice.                                  *)
(***************************************************************************)
EXTENDS ControlV2

CONSTANTS
  Streams,     \* bonded carriers (one when Datagram)
  Kickers,     \* server tasks that evict the session
  Abortable,   \* the ones under the batch deadline of supersede_sessions
  Notifiers,   \* server tasks that only warn
  MsgId,
  Datagram,    \* management_datagram: UDP, repeated three times
  AckLane      \* capacity of the client's terminal lane (4 in the code)

Senders == Kickers \cup Notifiers
NoSender == "no sender"

VARIABLES
  task,         \* per sender: idle, writing, acking, over, evicted; id, payload
  receipt,      \* per sender and stream: none, queued, written, failed
  sent,         \* per sender: what send_management returned
  acks,         \* management_acks: message id -> waiting sender
  revoked,      \* the session's revoked flag
  server,       \* per stream: up, kicked (kick_tx and shutdown_tx sent), down
  terminal,     \* per stream: the priority lane (capacity 1)
  ordinary,     \* per stream: queued advisory frames
  down, up,     \* per stream: records under way to the client, to the server
  reassembler,  \* the client session's management reassembler
  reader,       \* per stream: what is left of consume_authenticated_management
  lane,         \* per stream: acknowledgements the client's writer holds
  slot,         \* the watch channel: last published event, and unseen flag
  client,       \* running, closing, finished; result
  receipted     \* the client has queued an acknowledgement

serverVars == <<task, receipt, sent, acks, revoked, server, terminal, ordinary>>
clientVars == <<reassembler, reader, lane, slot, client, receipted>>
vars == <<serverVars, down, up, clientVars>>

Event(k) ==
  [id |-> task[k].id, type |-> IF k \in Kickers THEN "kick" ELSE "notice",
   ack |-> k \in Kickers, count |-> 1, index |-> 0, payload |-> task[k].payload]

Repetitions == IF Datagram THEN 3 ELSE 1

Init ==
  /\ task = [k \in Senders |-> [pc |-> "idle"]]
  /\ receipt = [k \in Senders |-> [s \in Streams |-> "none"]]
  /\ sent = [k \in Senders |-> FALSE]
  /\ acks = [m \in MsgId |-> NoSender]
  /\ revoked = FALSE
  /\ server = [s \in Streams |-> "up"]
  /\ terminal = [s \in Streams |-> <<>>]
  /\ ordinary = [s \in Streams |-> <<>>]
  /\ down = [s \in Streams |-> <<>>]
  /\ up = [s \in Streams |-> <<>>]
  /\ reassembler = EmptyReassembler
  /\ reader = [s \in Streams |-> [todo |-> <<>>]]
  /\ lane = [s \in Streams |-> <<>>]
  /\ slot = [event |-> "none", unseen |-> FALSE]
  /\ client = [phase |-> "running", result |-> "ok"]
  /\ receipted = FALSE

-----------------------------------------------------------------------------
(* The server's sending tasks.                                             *)

Ended(k, id) ==
  /\ task' = [task EXCEPT ![k] = [pc |-> "over", id |-> id, payload |-> "none"]]
  /\ sent' = [sent EXCEPT ![k] = FALSE]

(* send_management gives up at once: the session is revoked, or the random *)
(* identifier is that of a receipt still waited for.                       *)
Refuse(k) ==
  /\ task[k].pc = "idle"
  /\ revoked \/ (k \in Kickers /\ \E m \in MsgId : acks[m] # NoSender)
  /\ Ended(k, "none")
  /\ UNCHANGED <<receipt, acks, revoked, server, terminal, ordinary, down, up,
                 clientVars>>

(* A terminal event is registered, then offered to the priority lane of    *)
(* every ready stream; a full lane takes nothing.  No await is in between. *)
StartKick(k, m, p) ==
  LET taken == {s \in Streams : server[s] # "down" /\ terminal[s] = <<>>}
  IN /\ task[k].pc = "idle"
     /\ ~revoked
     /\ acks[m] = NoSender
     /\ IF taken = {}
        THEN /\ Ended(k, m)
             /\ UNCHANGED <<acks, receipt, terminal>>
        ELSE /\ task' = [task EXCEPT ![k] =
                           [pc |-> "writing", id |-> m, payload |-> p]]
             /\ acks' = [acks EXCEPT ![m] = k]
             /\ receipt' = [receipt EXCEPT ![k] =
                  [s \in Streams |-> IF s \in taken THEN "queued" ELSE "none"]]
             /\ terminal' = [s \in Streams |->
                  IF s \in taken THEN <<k>> ELSE terminal[s]]
             /\ UNCHANGED sent
     /\ UNCHANGED <<revoked, server, ordinary, down, up, clientVars>>

(* An advisory event goes to the ordinary queues; a full queue or an empty *)
(* buffer pool may leave any of them out.                                  *)
StartNotice(k, m, p, accepted) ==
  /\ task[k].pc = "idle"
  /\ ~revoked
  /\ accepted \subseteq {s \in Streams : server[s] # "down"}
  /\ task' = [task EXCEPT ![k] = [pc |-> "over", id |-> m, payload |-> p]]
  /\ sent' = [sent EXCEPT ![k] = accepted # {}]
  /\ ordinary' = [s \in Streams |->
        IF s \in accepted THEN Append(ordinary[s], k) ELSE ordinary[s]]
  /\ UNCHANGED <<receipt, acks, revoked, server, terminal, down, up, clientVars>>

Unregister(k) == [acks EXCEPT ![task[k].id] = NoSender]

(* Two seconds passed, or every receipt is in, and no stream has written.  *)
GiveUpWriting(k) ==
  /\ task[k].pc = "writing"
  /\ \A s \in Streams : receipt[k][s] # "written"
  /\ task' = [task EXCEPT ![k].pc = "over"]
  /\ acks' = Unregister(k)
  /\ UNCHANGED <<receipt, sent, revoked, server, terminal, ordinary, down, up,
                 clientVars>>

(* All receipts are in, or the deadline passed, and some stream has        *)
(* written: wait for the client's acknowledgement.                         *)
Written(k) ==
  /\ task[k].pc = "writing"
  /\ \E s \in Streams : receipt[k][s] = "written"
  /\ task' = [task EXCEPT ![k].pc = "acking"]
  /\ UNCHANGED <<receipt, sent, acks, revoked, server, terminal, ordinary, down,
                 up, clientVars>>

(* The acknowledgement took the sender out of the registry, or the two     *)
(* seconds for it passed.                                                  *)
AckWaitEnds(k) ==
  /\ task[k].pc = "acking"
  /\ task' = [task EXCEPT ![k].pc = "over"]
  /\ sent' = [sent EXCEPT ![k] = acks[task[k].id] # k]
  /\ acks' = IF acks[task[k].id] = k THEN Unregister(k) ELSE acks
  /\ UNCHANGED <<receipt, revoked, server, terminal, ordinary, down, up,
                 clientVars>>

(* The four seconds of a replacement batch passed: the delivery is         *)
(* aborted where it waits and its registration stays behind.               *)
AbortDelivery(k) ==
  /\ k \in Abortable
  /\ task[k].pc \in {"writing", "acking"}
  /\ task' = [task EXCEPT ![k].pc = "over"]
  /\ UNCHANGED <<receipt, sent, acks, revoked, server, terminal, ordinary, down,
                 up, clientVars>>

(* kick_all: every caller revokes the session whatever the delivery said.  *)
KickAll(k) ==
  /\ k \in Kickers
  /\ task[k].pc = "over"
  /\ task' = [task EXCEPT ![k].pc = "evicted"]
  /\ revoked' = TRUE
  /\ server' = [s \in Streams |-> IF server[s] = "up" THEN "kicked" ELSE server[s]]
  /\ UNCHANGED <<receipt, sent, acks, terminal, ordinary, down, up, clientVars>>

-----------------------------------------------------------------------------
(* The writer and the reader of one stream of the server.                  *)

WriteTerminal(s) ==
  /\ server[s] # "down"
  /\ terminal[s] # <<>>
  /\ LET k == terminal[s][1]
         frames == [i \in 1..Repetitions |-> Event(k)]
     IN /\ down' = [down EXCEPT ![s] = @ \o frames]
        /\ receipt' = [receipt EXCEPT ![k][s] = "written"]
  /\ terminal' = [terminal EXCEPT ![s] = <<>>]
  /\ UNCHANGED <<task, sent, acks, revoked, server, ordinary, up, clientVars>>

WriteOrdinary(s) ==
  /\ server[s] = "up"
  /\ terminal[s] = <<>>
  /\ ordinary[s] # <<>>
  /\ down' = [down EXCEPT ![s] = Append(@, Event(ordinary[s][1]))]
  /\ ordinary' = [ordinary EXCEPT ![s] = Tail(@)]
  /\ UNCHANGED <<task, receipt, sent, acks, revoked, server, terminal, up,
                 clientVars>>

(* What the stream still held is gone with it: a queued KICK reports that  *)
(* it was not written.                                                     *)
Drop(s) ==
  /\ server' = [server EXCEPT ![s] = "down"]
  /\ receipt' = [k \in Senders |-> [t \in Streams |->
       IF t = s /\ receipt[k][t] = "queued" THEN "failed" ELSE receipt[k][t]]]
  /\ terminal' = [terminal EXCEPT ![s] = <<>>]
  /\ ordinary' = [ordinary EXCEPT ![s] = <<>>]
  /\ UNCHANGED <<task, sent, acks, revoked>>

(* The kick ends the writer, whose select looks at the priority lane first.*)
CloseKicked(s) ==
  /\ server[s] = "kicked"
  /\ terminal[s] = <<>>
  /\ Drop(s)
  /\ up' = [up EXCEPT ![s] = <<>>]
  /\ UNCHANGED <<down, clientVars>>

(* The carrier breaks: what was under way either way is lost.              *)
CarrierFails(s) ==
  /\ server[s] # "down"
  /\ Drop(s)
  /\ down' = [down EXCEPT ![s] = <<>>]
  /\ up' = [up EXCEPT ![s] = <<>>]
  /\ UNCHANGED clientVars

(* acknowledge_management: the sender is told once; a late one is ignored. *)
ReceiveAck(s, i) ==
  /\ server[s] = "up"
  /\ i \in DOMAIN up[s]
  /\ Datagram \/ i = 1
  /\ acks' = [acks EXCEPT ![up[s][i]] = NoSender]
  /\ up' = [up EXCEPT ![s] = SubSeq(@, 1, i - 1) \o SubSeq(@, i + 1, Len(@))]
  /\ UNCHANGED <<task, receipt, sent, revoked, server, terminal, ordinary, down,
                 clientVars>>

LoseDatagram(s) ==
  /\ Datagram
  /\ \/ /\ down[s] # <<>>
        /\ down' = [down EXCEPT ![s] = Tail(@)]
        /\ UNCHANGED up
     \/ /\ up[s] # <<>>
        /\ up' = [up EXCEPT ![s] = Tail(@)]
        /\ UNCHANGED down
  /\ UNCHANGED <<serverVars, clientVars>>

-----------------------------------------------------------------------------
(* The client's stream readers.  consume_authenticated_management has no   *)
(* await, so an abort cannot cut it short, but readers of other streams    *)
(* run between its steps: the reassembler lock covers only the first.      *)

Todo(f, outcome) ==
  LET acking == IF f.ack THEN <<"ack">> ELSE <<>>
  IN CASE outcome = "complete" ->
            IF Datagram THEN <<"publish">> \o acking ELSE acking \o <<"publish">>
       [] outcome = "duplicate" -> acking
       [] OTHER -> <<>>

Receive(s, i) ==
  /\ client.phase # "finished"
  /\ reader[s].todo = <<>>
  /\ i \in DOMAIN down[s]
  /\ Datagram \/ i = 1
  /\ LET pushed == PushManagement(reassembler, 0, down[s][i])
     IN /\ reassembler' = pushed.state
        /\ reader' = [reader EXCEPT ![s] =
             [todo |-> Todo(down[s][i], pushed.outcome), event |-> down[s][i]]]
  /\ down' = [down EXCEPT ![s] = SubSeq(@, 1, i - 1) \o SubSeq(@, i + 1, Len(@))]
  /\ UNCHANGED <<serverVars, up, lane, slot, client, receipted>>

(* TCP: try_send on the stream's terminal lane; UDP: one datagram.         *)
QueueAck(s) ==
  /\ reader[s].todo # <<>>
  /\ reader[s].todo[1] = "ack"
  /\ IF Datagram
     THEN /\ up' = [up EXCEPT ![s] = Append(@, reader[s].event.id)]
          /\ UNCHANGED lane
     ELSE /\ lane' = [lane EXCEPT ![s] =
               IF Len(@) < AckLane THEN Append(@, reader[s].event.id) ELSE @]
          /\ UNCHANGED up
  /\ receipted' = TRUE
  /\ reader' = [reader EXCEPT ![s].todo = Tail(@)]
  /\ UNCHANGED <<serverVars, down, reassembler, slot, client>>

BugPublish(s) ==
  /\ reader[s].todo # <<>>
  /\ reader[s].todo[1] = "publish"
  /\ slot' = [event |-> reader[s].event.type, unseen |-> TRUE]
  /\ reader' = [reader EXCEPT ![s].todo = Tail(@)]
  /\ UNCHANGED <<serverVars, down, up, reassembler, lane, client, receipted>>

(* send_if_modified: a NOTICE never takes the place of a KICK.             *)
Publish(s) ==
  /\ reader[s].todo # <<>>
  /\ reader[s].todo[1] = "publish"
  /\ slot' = IF reader[s].event.type = "notice" /\ slot.event = "kick"
             THEN slot
             ELSE [event |-> reader[s].event.type, unseen |-> TRUE]
  /\ reader' = [reader EXCEPT ![s].todo = Tail(@)]
  /\ UNCHANGED <<serverVars, down, up, reassembler, lane, client, receipted>>

(* The client's writer sends a queued acknowledgement, if the carrier is   *)
(* still there.                                                            *)
SendAck(s) ==
  /\ client.phase # "finished"
  /\ lane[s] # <<>>
  /\ up' = IF server[s] = "up"
           THEN [up EXCEPT ![s] = Append(@, lane[s][1])] ELSE up
  /\ lane' = [lane EXCEPT ![s] = Tail(@)]
  /\ UNCHANGED <<serverVars, down, reassembler, reader, slot, client, receipted>>

-----------------------------------------------------------------------------
(* The client's supervisor.                                                *)

Close(result) == client' = [phase |-> "closing", result |-> result]

(* apply_server_management: a KICK ends the session whatever the platform  *)
(* says; a NOTICE ends it only when the platform's queue refuses it.       *)
Observe(delivered) ==
  /\ client.phase = "running"
  /\ slot.unseen
  /\ slot' = [slot EXCEPT !.unseen = FALSE]
  /\ \/ slot.event = "kick" /\ Close("kick")
     \/ slot.event = "notice" /\ delivered /\ UNCHANGED client
     \/ slot.event = "notice" /\ ~delivered /\ Close("error")
  /\ UNCHANGED <<serverVars, down, up, reassembler, reader, lane, receipted>>

(* The carriers are gone and their records drained; the biased select of   *)
(* the TCP loop looks at the slot first.                                   *)
Disconnected ==
  /\ client.phase = "running"
  /\ \A s \in Streams :
       server[s] = "down" /\ down[s] = <<>> /\ reader[s].todo = <<>>
  /\ Datagram \/ ~slot.unseen
  /\ Close("ok")
  /\ UNCHANGED <<serverVars, down, up, reassembler, reader, lane, slot, receipted>>

(* The user stops, or the TUN reader ends.                                 *)
Cancel ==
  /\ client.phase = "running"
  /\ Close("ok")
  /\ UNCHANGED <<serverVars, down, up, reassembler, reader, lane, slot, receipted>>

(* finish_pending_management, after every task of the connection was       *)
(* joined: a KICK in the slot is the result, seen or not.                  *)
Finish ==
  /\ client.phase = "closing"
  /\ \A s \in Streams : reader[s].todo = <<>>
  /\ client' = [phase |-> "finished",
                result |-> IF slot.event = "kick" THEN "kick" ELSE client.result]
  /\ UNCHANGED <<serverVars, down, up, reassembler, reader, lane, slot, receipted>>

-----------------------------------------------------------------------------
SenderStep(k) ==
  \/ Refuse(k) \/ GiveUpWriting(k) \/ Written(k) \/ AckWaitEnds(k)
  \/ AbortDelivery(k) \/ KickAll(k)

Next ==
  \/ \E k \in Senders : SenderStep(k)
  \/ \E k \in Kickers, m \in MsgId, p \in Payload \ Malformed : StartKick(k, m, p)
  \/ \E k \in Notifiers, m \in MsgId, p \in Payload \ Malformed,
        accepted \in SUBSET Streams : StartNotice(k, m, p, accepted)
  \/ \E s \in Streams :
       \/ WriteTerminal(s) \/ WriteOrdinary(s) \/ CloseKicked(s)
       \/ CarrierFails(s) \/ LoseDatagram(s)
       \/ \E i \in DOMAIN up[s] : ReceiveAck(s, i)
       \/ \E i \in DOMAIN down[s] : Receive(s, i)
       \/ QueueAck(s) \/ Publish(s) \/ SendAck(s)
  \/ \E delivered \in BOOLEAN : Observe(delivered)
  \/ Disconnected \/ Cancel \/ Finish

Spec == Init /\ [][Next]_vars

(* The deadlines of send_management expire, its callers go on, the client's *)
(* readers finish the record they hold and its supervisor is scheduled.    *)
Fairness ==
  /\ \A k \in Senders : WF_vars(SenderStep(k))
  /\ \A s \in Streams : WF_vars(QueueAck(s) \/ Publish(s))
  /\ WF_vars(\E delivered \in BOOLEAN : Observe(delivered))
  /\ WF_vars(Finish)

-----------------------------------------------------------------------------
Publishing(s) == \E i \in DOMAIN reader[s].todo : reader[s].todo[i] = "publish"

KickHeld ==
  \/ slot.event = "kick"
  \/ \E s \in Streams : Publishing(s) /\ reader[s].event.type = "kick"

(* What the server counts as delivered was accepted: whenever a kick has   *)
(* returned true, or an acknowledgement is on its way, the client holds a  *)
(* terminal event, published or about to be, even when a bonded stream     *)
(* receipted the repeat before the first one was published, and even when  *)
(* an identifier is drawn again (send_management).                         *)
AcknowledgedIsHeld ==
  /\ \A k \in Kickers : sent[k] => KickHeld
  /\ \A s \in Streams : up[s] # <<>> \/ lane[s] # <<>> => KickHeld

(* A receipted KICK decides how the session ends: once the client has      *)
(* acknowledged one, neither a NOTICE of another stream, nor an end of     *)
(* file, nor a stop by the user can make the session end as one that may   *)
(* be reconnected (finish_pending_management).                             *)
ReceiptedKickWins ==
  client.phase = "finished" /\ receipted => client.result = "kick"

(* A registered receipt belongs to the delivery that waits for it, or to   *)
(* one whose batch deadline aborted it: no finished delivery blocks its    *)
(* identifier (management_acks).                                           *)
RegistryIsOwned ==
  \A m \in MsgId : acks[m] # NoSender =>
    /\ task[acks[m]].id = m
    /\ \/ task[acks[m]].pc \in {"writing", "acking"}
       \/ acks[m] \in Abortable

(* An eviction that began ends with the session revoked, whether the peer  *)
(* answers, answers late or not at all (the callers of send_management).   *)
EvictionCompletes ==
  \A k \in Kickers : task[k].pc # "idle" ~> task[k].pc = "evicted"

(* A published KICK ends the client's session with it.                     *)
KickEndsSession == slot.event = "kick" ~> client.result = "kick"
=============================================================================
