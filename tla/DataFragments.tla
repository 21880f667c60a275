---------------------------- MODULE DataFragments ---------------------------
(***************************************************************************)
(* Fragmentation of encrypted UDP records (protocol/data_frag.rs) between  *)
(* the writer of a session (server/udp_handler.rs; the client's sender in  *)
(* client/mod.rs allots record ids the same way) and the peer's            *)
(* DataReassembler.  The writer retries a record at the floor budget when  *)
(* the kernel refuses a datagram half-way (EMSGSIZE), always under a new   *)
(* record id.  The network loses, repeats and reorders: a datagram that    *)
(* was sent stays receivable, any number of times.  The HMAC admits only   *)
(* fragments the writer made, so only those are received.  A byte of       *)
(* record r is its position in r.                                          *)
(***************************************************************************)
EXTENDS Naturals, FiniteSets, SequencesExt

CONSTANTS
  Lengths,      \* lengths of the records to send, a sequence
  Budget,       \* chunk bytes per datagram at the discovered path MTU
  Floor,        \* chunk bytes at the conservative budget
  MaxRecords,   \* MAX_REASSEMBLY_RECORDS
  MaxBytes,     \* MAX_REASSEMBLY_BYTES
  Timeout       \* REASSEMBLY_TIMEOUT in clock ticks

Records == DOMAIN Lengths

VARIABLES
  writer,     \* [rec, busy, id, budget, sent, retried]: the record in hand
  nextId,     \* record_id of the writer
  net,        \* fragments sent
  entries,    \* DataReassembler::entries, by record id
  buffered,   \* buffered_bytes
  out,        \* history: what push has returned, as sequences of chunks
  conflict    \* history: push has returned Conflict

vars == <<writer, nextId, net, entries, buffered, out, conflict>>
receiver == <<entries, buffered, out, conflict>>

Empty == [id \in {} |-> 0]

Init ==
  /\ writer = [rec |-> 0, busy |-> FALSE, id |-> 0, budget |-> 0, sent |-> 0,
               retried |-> FALSE]
  /\ nextId = 0 /\ net = {}
  /\ entries = Empty /\ buffered = 0 /\ out = {} /\ conflict = FALSE

-----------------------------------------------------------------------------
(* The writer *)

\* fragment_record: chunk number i of record r at a budget of b bytes.
Count(r, b) == (Lengths[r] + b - 1) \div b
Fragment(r, id, b, i) ==
  [id |-> id, rec |-> r, total |-> Lengths[r], count |-> Count(r, b), idx |-> i,
   off |-> i * b, len |-> Min({b, Lengths[r] - i * b})]

BugAttemptId(r, b, retried) ==
  /\ writer' = [rec |-> r, busy |-> TRUE, id |-> 0, budget |-> b, sent |-> 0,
                retried |-> retried]
  /\ UNCHANGED nextId
\* A record that does not fit is split under a record id of its own.
Attempt(r, b, retried) ==
  /\ writer' = [rec |-> r, busy |-> TRUE, id |-> nextId, budget |-> b, sent |-> 0,
                retried |-> retried]
  /\ nextId' = nextId + 1

Leave(r) == writer' = [writer EXCEPT !.rec = r, !.busy = FALSE] /\ UNCHANGED nextId

\* The next record: split when it exceeds the budget, else sent whole (and then not this
\* module's concern), or refused by the kernel and split at the floor.  A record whose
\* budget changes while it is paced is built again under a new id, before anything of the
\* old one is sent; the restart, and the drop after two of them, are left out.
Begin ==
  LET r == writer.rec + 1
  IN /\ ~writer.busy /\ r \in Records
     /\ \/ Lengths[r] > Budget /\ Attempt(r, Budget, FALSE)
        \/ Lengths[r] <= Budget /\ Leave(r)
        \/ Lengths[r] <= Budget /\ Lengths[r] > Floor /\ Attempt(r, Floor, TRUE)
     /\ UNCHANGED <<net, receiver>>

Send ==
  /\ writer.busy
  /\ net' = net \cup {Fragment(writer.rec, writer.id, writer.budget, writer.sent)}
  /\ writer' = [writer EXCEPT !.sent = @ + 1,
                              !.busy = @ /\ writer.sent + 1 < Count(writer.rec, writer.budget)]
  /\ UNCHANGED <<nextId, receiver>>

\* EMSGSIZE above the floor, once: the complete record again at the floor.  Any other
\* error drops the record.
SendFails ==
  /\ writer.busy
  /\ \/ ~writer.retried /\ Attempt(writer.rec, Floor, TRUE)
     \/ Leave(writer.rec)
  /\ UNCHANGED <<net, receiver>>

-----------------------------------------------------------------------------
(* DataReassembler *)

Chunk(f) == [rec |-> f.rec, off |-> f.off, len |-> f.len]
Overlaps(c, f) == f.off < c.off + c.len /\ c.off < f.off + f.len

\* received_bytes of some entries.
Bytes(e, ids) == MapThenSumSet(LAMBDA id : e[id].bytes, ids)

\* remove: the entries go and their bytes are given back (with the expired ones).
Release(e, ids) ==
  /\ entries' = Restrict(e, DOMAIN e \ ids)
  /\ buffered' = buffered - Bytes(entries, DOMAIN entries \ DOMAIN e) - Bytes(e, ids)

\* expire: what is left of the entries.
Live == Restrict(entries, {id \in DOMAIN entries : entries[id].age <= Timeout})

\* The fragment contradicts the entry of its record id.
Conflicts(e, f) ==
  \/ e.total # f.total \/ e.count # f.count
  \/ f.idx \in DOMAIN e.chunks /\ e.chunks[f.idx] # Chunk(f)
  \/ f.idx \notin DOMAIN e.chunks /\ \E i \in DOMAIN e.chunks : Overlaps(e.chunks[i], f)

\* The chunks by offset, and whether they are contiguous from zero to the total.
Assembled(e) == SetToSortSeq(Range(e.chunks), LAMBDA c, d : c.off < d.off)
Contiguous(o, total) ==
  \A i \in 0..Len(o) :
    (IF i = 0 THEN 0 ELSE o[i].off + o[i].len) = (IF i = Len(o) THEN total ELSE o[i + 1].off)

\* The entry with the chunk in it.
Store(e, f) ==
  [e EXCEPT !.chunks = (f.idx :> Chunk(f)) @@ @, !.bytes = @ + f.len]

\* buffered_bytes admits the payload.
RoomFor(f) ==
  buffered - Bytes(entries, DOMAIN entries \ DOMAIN Live) + f.len <= MaxBytes

Refuse(f) == Release(Live, {f.id} \cap DOMAIN Live) /\ UNCHANGED out

\* push_at: expire, then check the fragment against its entry, or open one.
Receive(f) ==
  LET known == f.id \in DOMAIN Live
      e == IF known THEN Live[f.id]
           ELSE [total |-> f.total, count |-> f.count, chunks |-> Empty, bytes |-> 0,
                 age |-> 0]
      s == Store(e, f)
  IN /\ f \in net
     /\ \/ /\ known /\ Conflicts(e, f)
           /\ Refuse(f) /\ conflict' = TRUE
        \/ /\ known /\ f.idx \in DOMAIN e.chunks /\ ~Conflicts(e, f)
           /\ Release(Live, {}) /\ UNCHANGED <<out, conflict>>
        \/ /\ ~known /\ Cardinality(DOMAIN Live) >= MaxRecords
           /\ Release(Live, {}) /\ UNCHANGED <<out, conflict>>
        \/ /\ known => ~Conflicts(e, f) /\ f.idx \notin DOMAIN e.chunks
           /\ ~known => Cardinality(DOMAIN Live) < MaxRecords
           /\ \/ ~RoomFor(f) /\ Refuse(f) /\ UNCHANGED conflict
              \/ /\ RoomFor(f) /\ Cardinality(DOMAIN s.chunks) < s.count
                 /\ entries' = (f.id :> s) @@ Live
                 /\ buffered' = buffered + f.len - Bytes(entries, DOMAIN entries \ DOMAIN Live)
                 /\ UNCHANGED <<out, conflict>>
              \/ /\ RoomFor(f) /\ Cardinality(DOMAIN s.chunks) = s.count
                 /\ Release(Live, {f.id} \cap DOMAIN Live)
                 /\ IF Contiguous(Assembled(s), s.total)
                    THEN out' = out \cup {Assembled(s)} /\ UNCHANGED conflict
                    ELSE conflict' = TRUE /\ UNCHANGED out
     /\ UNCHANGED <<writer, nextId, net>>

\* Time.
Tick ==
  /\ \E id \in DOMAIN entries : entries[id].age <= Timeout
  /\ entries' = [id \in DOMAIN entries |->
                   [entries[id] EXCEPT !.age = Min({@ + 1, Timeout + 1})]]
  /\ UNCHANGED <<writer, nextId, net, buffered, out, conflict>>

Next == Begin \/ Send \/ SendFails \/ Tick \/ \E f \in net : Receive(f)

Spec == Init /\ [][Next]_vars

\* Time passes and datagrams, new or repeated, keep arriving.
Fairness == WF_vars(Tick) /\ WF_vars(\E f \in net : Receive(f))

-----------------------------------------------------------------------------
(* Properties *)

\* What push returns is one record, whole and in order: chunks of two records, or of two
\* attempts at one record, are never joined, whatever is lost, repeated, late or expired.
OnlyWholeRecords ==
  \A o \in out : \E r \in Records :
    Contiguous(o, Lengths[r]) /\ \A i \in DOMAIN o : o[i].rec = r

\* Genuine fragments never meet a contradiction: a retry at the floor leaves the fragments
\* of the attempt it replaces in the network, and has an id of its own.
GenuineNeverConflicts == ~conflict

\* buffered_bytes is the sum of what the entries hold through completion, refusal,
\* conflict and expiry, and both limits are kept.
BudgetIsExact ==
  /\ buffered = Bytes(entries, DOMAIN entries)
  /\ \A id \in DOMAIN entries :
       entries[id].bytes = MapThenSumSet(LAMBDA i : entries[id].chunks[i].len,
                                         DOMAIN entries[id].chunks)
  /\ buffered <= MaxBytes
  /\ Cardinality(DOMAIN entries) <= MaxRecords

\* A partial record is completed or given up while datagrams arrive, repeated fragments
\* of its own included: a slot is never held for ever (it may be opened afresh).
PartialsEnd ==
  \A id \in 0..(2 * Len(Lengths) - 1) :
    (id \in DOMAIN entries /\ entries[id].age > 0)
      ~> (id \notin DOMAIN entries \/ entries[id].age = 0)
=============================================================================
