----------------------------- MODULE ReceivePump -----------------------------
(***************************************************************************)
(* The UDP receive path: a pump per socket reads batches of datagrams into *)
(* its own recycled buffers, admits a batch to the shared receive queue    *)
(* (transport_core/receive_queue.rs) and hands it to the one consumer      *)
(* (client/mod.rs:10045, server/udp_handler.rs:1802).  A roaming client    *)
(* starts a pump for a candidate socket and aborts the one that lost, at   *)
(* whatever await it is, while batches of it are still queued.             *)
(***************************************************************************)
EXTENDS Integers, Sequences, FiniteSets, SequencesExt

CONSTANTS
  Pump,       \* sockets that are opened one after another
  Slots,      \* buffers of a pump (129 in the code)
  MaxBatch,   \* datagrams of one system call (32)
  Capacity,   \* datagrams the queue admits (128)
  Channel     \* batches the channel holds (128)

VARIABLES
  at,         \* per pump: "new", "filling", "reading", "admitting", "sending", "off"
  recycler,   \* per pump: buffers in its recycle channel
  slots,      \* per pump: buffers it reads into
  batch,      \* per pump: datagrams it is about to hand over
  permits,    \* of the queue's semaphore
  waiting,    \* pumps in the semaphore's queue, which is FIFO
  channel,    \* batches handed over: [from, n]
  pending,    \* the batch the consumer works on
  queued,     \* the queued_packets counter
  consumer    \* it runs

pumps == <<at, recycler, slots, batch>>
vars == <<pumps, permits, waiting, channel, pending, queued, consumer>>

Batch(p, n) == [from |-> p, n |-> n]
Nothing == [from |-> "", n |-> 0]

Init ==
  /\ at = [p \in Pump |-> "new"] /\ recycler = [p \in Pump |-> 0]
  /\ slots = [p \in Pump |-> 0] /\ batch = [p \in Pump |-> 0]
  /\ permits = Capacity /\ waiting = <<>> /\ channel = <<>> /\ pending = Nothing
  /\ queued = 0 /\ consumer = TRUE

-----------------------------------------------------------------------------
Lesser(a, b) == IF a < b THEN a ELSE b

(* spawn_client_udp_receive_pump: a recycler with one position per buffer. *)
Start(p) ==
  /\ at[p] = "new" /\ consumer
  /\ at' = [at EXCEPT ![p] = "filling"] /\ recycler' = [recycler EXCEPT ![p] = Slots]
  /\ UNCHANGED <<slots, batch, permits, waiting, channel, pending, queued, consumer>>

(* Waits for the first buffer only, and takes what else is there.          *)
Fill(p) ==
  /\ at[p] = "filling" /\ slots[p] + recycler[p] > 0
  /\ LET n == Lesser(MaxBatch - slots[p], recycler[p]) IN
       /\ slots' = [slots EXCEPT ![p] = @ + n]
       /\ recycler' = [recycler EXCEPT ![p] = @ - n]
  /\ at' = [at EXCEPT ![p] = "reading"]
  /\ UNCHANGED <<batch, permits, waiting, channel, pending, queued, consumer>>

(* recvmmsg: n datagrams, of which the malformed ones are recycled at once.*)
Receive(p) ==
  /\ at[p] = "reading"
  /\ \E n \in 1..slots[p] : \E good \in 0..n :
       /\ slots' = [slots EXCEPT ![p] = @ - n]
       /\ batch' = [batch EXCEPT ![p] = good]
       /\ recycler' = [recycler EXCEPT ![p] = @ + (n - good)]
       /\ at' = [at EXCEPT ![p] = IF good = 0 THEN "filling" ELSE "admitting"]
       /\ waiting' = IF good = 0 THEN waiting ELSE Append(waiting, p)
  /\ UNCHANGED <<permits, channel, pending, queued, consumer>>

(* acquire_many: the first in line, once there are permits for its batch.  *)
Admit(p) ==
  /\ at[p] = "admitting" /\ Head(waiting) = p /\ permits >= batch[p]
  /\ waiting' = Tail(waiting) /\ permits' = permits - batch[p]
  /\ queued' = queued + batch[p] /\ at' = [at EXCEPT ![p] = "sending"]
  /\ UNCHANGED <<recycler, slots, batch, channel, pending, consumer>>

Send(p) ==
  /\ at[p] = "sending" /\ consumer /\ Len(channel) < Channel
  /\ channel' = Append(channel, Batch(p, batch[p]))
  /\ batch' = [batch EXCEPT ![p] = 0] /\ at' = [at EXCEPT ![p] = "filling"]
  /\ UNCHANGED <<recycler, slots, permits, waiting, pending, queued, consumer>>

-----------------------------------------------------------------------------
(* QueuedBatch::finish: a batch is delivered, or dropped undelivered.      *)
Leave(n) == /\ permits' = permits + n /\ queued' = queued - n

(* A pump ends with its recycler; a place in the line is given up.         *)
Off(p) ==
  /\ waiting' = SelectSeq(waiting, LAMBDA x : x # p)
  /\ at' = [at EXCEPT ![p] = "off"] /\ slots' = [slots EXCEPT ![p] = 0]
  /\ batch' = [batch EXCEPT ![p] = 0] /\ recycler' = [recycler EXCEPT ![p] = 0]

(* The task handle is dropped or finished: roaming gave the path up.       *)
Abort(p) ==
  /\ at[p] \in {"filling", "reading", "admitting", "sending"} /\ Off(p)
  /\ Leave(IF at[p] = "sending" THEN batch[p] ELSE 0)
  /\ UNCHANGED <<channel, pending, consumer>>

(* recv_batch failed (client), or the consumer has gone.                   *)
Fails(p) ==
  /\ \/ at[p] = "reading"
     \/ at[p] = "sending" /\ ~consumer
  /\ Off(p) /\ Leave(IF at[p] = "sending" THEN batch[p] ELSE 0)
  /\ UNCHANGED <<channel, pending, consumer>>

-----------------------------------------------------------------------------
(* into_inner: the whole batch leaves the queue when it is dequeued.       *)
Dequeue ==
  /\ consumer /\ pending.n = 0 /\ channel # <<>>
  /\ pending' = Head(channel) /\ channel' = Tail(channel)
  /\ Leave(Head(channel).n)
  /\ UNCHANGED <<pumps, waiting, consumer>>

(* One datagram is done with: its buffer goes back, if its pump lives.     *)
Process ==
  /\ consumer /\ pending.n > 0
  /\ pending' = IF pending.n = 1 THEN Nothing ELSE [pending EXCEPT !.n = @ - 1]
  /\ recycler' = IF at[pending.from] = "off" THEN recycler
                 ELSE [recycler EXCEPT ![pending.from] = @ + 1]
  /\ UNCHANGED <<at, slots, batch, permits, waiting, channel, queued, consumer>>

InChannel == FoldLeft(LAMBDA n, b : n + b.n, 0, channel)
From(p) == FoldLeft(LAMBDA n, b : n + (IF b.from = p THEN b.n ELSE 0), 0,
                    Append(channel, pending))

(* The connection ends: what is queued and not handled is dropped.         *)
ConsumerEnds ==
  /\ consumer /\ consumer' = FALSE /\ channel' = <<>> /\ pending' = Nothing
  /\ Leave(InChannel)
  /\ recycler' = [p \in Pump |-> IF at[p] = "off" THEN 0 ELSE recycler[p] + From(p)]
  /\ UNCHANGED <<at, slots, batch, waiting>>

Next ==
  \/ \E p \in Pump : \/ Start(p) \/ Fill(p) \/ Receive(p) \/ Admit(p) \/ Send(p)
                     \/ Abort(p) \/ Fails(p)
  \/ Dequeue \/ Process \/ ConsumerEnds

Spec == Init /\ [][Next]_vars
(* The runtime polls ready tasks; semaphore and channel serve in order.    *)
Fairness ==
  /\ WF_vars(Dequeue) /\ WF_vars(Process)
  /\ \A p \in Pump : WF_vars(Fill(p)) /\ WF_vars(Admit(p)) /\ SF_vars(Send(p))

-----------------------------------------------------------------------------
InHand == LET n(p) == IF at[p] = "sending" THEN batch[p] ELSE 0
          IN FoldLeft(LAMBDA acc, p : acc + n(p), 0, SetToSeq(Pump))

(* No buffer is lost or doubled, whatever is malformed, queued or being    *)
(* handled: the recycle channel has one position per buffer, so returning  *)
(* one from a destructor never finds it full.                              *)
BuffersAreConserved ==
  \A p \in Pump : at[p] \notin {"new", "off"} =>
    recycler[p] + slots[p] + batch[p] + From(p) = Slots

(* The semaphore and the metric agree with what is really between the      *)
(* pumps and the consumer, through aborts at any await and a consumer that *)
(* goes away: admission never shrinks and the counter never drifts.        *)
QueueIsAccounted ==
  /\ queued = InHand + InChannel
  /\ permits + queued = Capacity

(* A batch in hand is handed over (or its pump ends): pumps that were      *)
(* aborted in the line, or a queue full of their batches, do not block the *)
(* one that took over the path.                                            *)
BatchesGetThrough ==
  \A p \in Pump : (at[p] \in {"admitting", "sending"} /\ consumer)
                    ~> (at[p] \in {"filling", "off"} \/ ~consumer)

(* A pump out of buffers gets one back.                                    *)
BuffersComeBack ==
  \A p \in Pump : (at[p] = "filling" /\ consumer) ~> (at[p] # "filling" \/ ~consumer)
=============================================================================
