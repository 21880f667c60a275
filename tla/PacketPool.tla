------------------------------ MODULE PacketPool ------------------------------
(***************************************************************************)
(* The packet pool of a bonded session (transport_core/buffer_pool.rs) and *)
(* the streams it feeds: TUN readers borrow a buffer, fill it and queue it *)
(* on the stream the flow is pinned to; the stream's writer drains a batch *)
(* and returns every buffer when it is encrypted.  A permit stands for the *)
(* right to a buffer; buffers are allocated on first use and kept.         *)
(* Borrowing and returning touch the semaphore and the list one after the  *)
(* other, each under its own lock, from different threads.                 *)
(***************************************************************************)
EXTENDS Integers, FiniteSets, FiniteSetsExt

CONSTANTS
  Reader,      \* threads that queue packets (TUN queues, management events)
  Stream,      \* streams: max_streams and one resume candidate
  Count,       \* buffer_count
  MaxStreams,  \* max_streams of the session
  MaxBatch     \* packets a writer takes at once

VARIABLES
  permits,     \* of the pool's semaphore
  available,   \* buffers in the list
  allocated,   \* buffers ever allocated
  reader,      \* per reader: "idle", or [stream, has]: a permit, then a buffer
  returning,   \* buffers back in the list whose permit is not back yet
  queue,       \* per stream: packets in its channel
  held,        \* per stream: packets its writer took and still owns
  writer       \* per stream: "off", "idle", "draining", "writing", "closing"

pool == <<permits, available, allocated, returning>>
streams == <<queue, held, writer>>
vars == <<pool, reader, streams>>

Idle == [stream |-> "", has |-> "nothing"]

Greater(a, b) == IF a > b THEN a ELSE b
(* bonded_queue_capacity                                                   *)
QueueCapacity == IF MaxStreams <= 1 THEN Greater(Count, 1)
                 ELSE Greater((Count - 1) \div (MaxStreams + 1), 1)

(* BufferPool::new_lazy                                                    *)
Init ==
  /\ permits = Count /\ available = 0 /\ allocated = 0 /\ returning = 0
  /\ reader = [r \in Reader |-> Idle]
  /\ queue = [s \in Stream |-> 0] /\ held = [s \in Stream |-> 0]
  /\ writer = [s \in Stream |-> "off"]

-----------------------------------------------------------------------------
(* try_acquire, first half.  Without a permit the packet is dropped.       *)
Reserve(r, s) ==
  /\ reader[r] = Idle /\ writer[s] # "off" /\ permits > 0
  /\ permits' = permits - 1
  /\ reader' = [reader EXCEPT ![r] = [stream |-> s, has |-> "permit"]]
  /\ UNCHANGED <<available, allocated, returning, streams>>

(* take_buffer: from the list, or a new one.                               *)
Take(r) ==
  /\ reader[r].has = "permit"
  /\ IF available > 0 THEN available' = available - 1 /\ UNCHANGED allocated
     ELSE allocated' = allocated + 1 /\ UNCHANGED available
  /\ reader' = [reader EXCEPT ![r].has = "buffer"]
  /\ UNCHANGED <<permits, returning, streams>>

BugTakeFails(r) ==
  /\ reader[r].has = "permit" /\ available = 0
  /\ reader' = [reader EXCEPT ![r] = Idle]
  /\ UNCHANGED <<pool, streams>>
(* The allocation fails: the permit goes back with its guard.              *)
TakeFails(r) ==
  /\ reader[r].has = "permit" /\ available = 0
  /\ permits' = permits + 1 /\ reader' = [reader EXCEPT ![r] = Idle]
  /\ UNCHANGED <<available, allocated, returning, streams>>

(* PooledBuffer::drop, first half: the buffer is in the list before its    *)
(* permit can be taken again.                                              *)
Return == /\ available' = available + 1 /\ returning' = returning + 1 /\ UNCHANGED permits
AddPermit ==
  /\ returning > 0 /\ returning' = returning - 1 /\ permits' = permits + 1
  /\ UNCHANGED <<available, allocated, reader, streams>>

Queue(r) ==
  LET s == reader[r].stream IN
  /\ reader[r].has = "buffer" /\ writer[s] \notin {"off", "closing"}
  /\ queue[s] < QueueCapacity
  /\ queue' = [queue EXCEPT ![s] = @ + 1] /\ reader' = [reader EXCEPT ![r] = Idle]
  /\ UNCHANGED <<pool, held, writer>>

(* An oversize packet, a full queue or a stream that has gone: dropped.    *)
Discard(r) ==
  /\ reader[r].has = "buffer" /\ Return
  /\ reader' = [reader EXCEPT ![r] = Idle]
  /\ UNCHANGED <<allocated, streams>>

-----------------------------------------------------------------------------
(* The writer takes one packet and, when it batches, more.                 *)
Drain(s) ==
  /\ \/ writer[s] = "idle"
     \/ writer[s] = "draining" /\ held[s] < MaxBatch
  /\ queue[s] > 0
  /\ queue' = [queue EXCEPT ![s] = @ - 1] /\ held' = [held EXCEPT ![s] = @ + 1]
  /\ writer' = [writer EXCEPT ![s] = "draining"]
  /\ UNCHANGED <<pool, reader>>

StartWriting(s) ==
  /\ writer[s] = "draining" /\ writer' = [writer EXCEPT ![s] = "writing"]
  /\ UNCHANGED <<pool, reader, queue, held>>

(* One packet is encrypted and its buffer returned; the write may stall    *)
(* with the rest of the batch in hand.                                     *)
WriteOne(s) ==
  /\ writer[s] = "writing" /\ held[s] > 0 /\ Return
  /\ held' = [held EXCEPT ![s] = @ - 1]
  /\ writer' = [writer EXCEPT ![s] = IF held[s] = 1 THEN "idle" ELSE "writing"]
  /\ UNCHANGED <<allocated, reader, queue>>

Attach(s) ==
  /\ writer[s] = "off" /\ writer' = [writer EXCEPT ![s] = "idle"]
  /\ UNCHANGED <<pool, reader, queue, held>>

(* Kick, expiry, a write error: the batch and the channel are dropped.     *)
Detach(s) ==
  /\ writer[s] \in {"idle", "draining", "writing"}
  /\ writer' = [writer EXCEPT ![s] = "closing"]
  /\ UNCHANGED <<pool, reader, queue, held>>

CloseOne(s) ==
  /\ writer[s] = "closing"
  /\ \/ held[s] > 0 /\ held' = [held EXCEPT ![s] = @ - 1] /\ Return /\ UNCHANGED <<queue, writer>>
     \/ queue[s] > 0 /\ queue' = [queue EXCEPT ![s] = @ - 1] /\ Return /\ UNCHANGED <<held, writer>>
     \/ /\ held[s] = 0 /\ queue[s] = 0 /\ writer' = [writer EXCEPT ![s] = "off"]
        /\ UNCHANGED <<queue, held, permits, available, returning>>
  /\ UNCHANGED <<allocated, reader>>

Next ==
  \/ \E r \in Reader : \/ Take(r) \/ TakeFails(r) \/ Queue(r) \/ Discard(r)
                       \/ \E s \in Stream : Reserve(r, s)
  \/ \E s \in Stream : \/ Drain(s) \/ StartWriting(s) \/ WriteOne(s)
                       \/ Attach(s) \/ Detach(s) \/ CloseOne(s)
  \/ AddPermit

Spec == Init /\ [][Next]_vars

-----------------------------------------------------------------------------
Borrowers(what) == Cardinality({r \in Reader : reader[r].has = what})
OnStreams == FoldSet(LAMBDA s, n : queue[s] + held[s] + n, 0, Stream)

(* The pool never exceeds its budget, however many threads borrow and      *)
(* return at once: no thread with a permit finds the list empty while all  *)
(* buffers exist.                                                          *)
BudgetIsFixed == allocated <= Count

(* No permit is ever lost or doubled: streams detach with packets in their *)
(* queues and allocations fail without shrinking the pool.                 *)
NoPermitIsLost ==
  permits + returning + Borrowers("permit") + Borrowers("buffer") + OnStreams = Count

(* A single stalled stream never owns the whole pool: when nobody else has *)
(* a packet, a reader still gets a buffer.                                 *)
OneStreamLeavesRoom ==
  \A s \in Stream :
    (/\ \A t \in Stream \ {s} : queue[t] + held[t] = 0
     /\ \A r \in Reader : reader[r] = Idle
     /\ returning = 0)
      => permits > 0
=============================================================================
