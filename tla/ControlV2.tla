------------------------------ MODULE ControlV2 ------------------------------
(***************************************************************************)
(* The receive side of authenticated control messages                      *)
(* (src/qeli/src/protocol/control_v2.rs): a bounded table of messages being *)
(* reassembled and a bounded cache of receipts for the completed ones.     *)
(*                                                                         *)
(* A frame has passed `decode`, so its metadata is valid: its index is     *)
(* below its count.  Sixteen parts of 4 KiB are exactly MAX_MESSAGE_SIZE,   *)
(* so the size checks of `push` cannot fire after `validate_metadata`.     *)
(* Payloads are model values; the SHA-256 digests kept by a receipt stand  *)
(* for the payloads they are taken of.                                     *)
(***************************************************************************)
EXTENDS Integers, Sequences, FiniteSets

CONSTANTS
  MAX_INFLIGHT,         \* MAX_INFLIGHT_MESSAGES (8 in the code)
  COMPLETED_ID_CACHE,   \* receipts remembered (64 in the code)
  REASSEMBLY_TIMEOUT,   \* age at which an unfinished message is dropped
  Payload,              \* what one part carries
  Malformed             \* the parts no management message may contain

ManagementTypes == {"notice", "kick"}

(* The kind of message a frame belongs to; `ack` is FLAG_ACK_REQUIRED.     *)
Label(f) == [id |-> f.id, type |-> f.type, ack |-> f.ack, count |-> f.count]

EmptyReassembler == [inflight |-> {}, completed |-> <<>>]

InflightOf(r, id) == {a \in r.inflight : a.head.id = id}
ReceiptsOf(r, id) == {i \in DOMAIN r.completed : r.completed[i].head.id = id}

BugExpire(r, now) ==
  [r EXCEPT !.inflight = {a \in @ : now - a.started <= REASSEMBLY_TIMEOUT}]

Expire(r, now) ==
  [r EXCEPT !.inflight = {a \in @ : now - a.started < REASSEMBLY_TIMEOUT}]

RememberCompleted(r, receipt) ==
  [r EXCEPT !.completed =
     Append(IF Len(@) = COMPLETED_ID_CACHE THEN Tail(@) ELSE @, receipt)]

(* Completed::matches: same message, and the same bytes in this part.      *)
Matches(receipt, f) ==
  /\ receipt.head = Label(f)
  /\ receipt.parts[f.index + 1] = f.payload

Result(r, outcome) == [state |-> r, outcome |-> outcome, parts |-> <<>>]

Completed(r, head, parts) ==
  [state |-> RememberCompleted(
               r, [head |-> head, parts |-> parts, validated |-> FALSE]),
   outcome |-> "complete",
   parts |-> parts]

(* The frame joins assembly a: a repeated part is pending, a part that     *)
(* differs or skips ahead is refused, the last part completes.             *)
Join(r, a, f) ==
  LET grown == [a EXCEPT !.parts = Append(@, f.payload)]
      others == r.inflight \ InflightOf(r, f.id)
  IN CASE a.head # Label(f) -> Result(r, "conflict")
       [] a.head = Label(f) /\ f.index < Len(a.parts) ->
            Result(r, IF a.parts[f.index + 1] = f.payload
                      THEN "pending" ELSE "conflict")
       [] a.head = Label(f) /\ f.index > Len(a.parts) ->
            Result(r, "out_of_order")
       [] OTHER ->
            IF Len(grown.parts) < f.count
            THEN Result([r EXCEPT !.inflight = others \cup {grown}], "pending")
            ELSE Completed([r EXCEPT !.inflight = others],
                           Label(f), grown.parts)

Push(r0, now, f) ==
  LET r == Expire(r0, now)
      receipt == ReceiptsOf(r, f.id)
      started == InflightOf(r, f.id)
      fresh == [head |-> Label(f), parts |-> <<>>, started |-> now]
  IN CASE receipt # {} ->
            Result(r, IF \E i \in receipt : Matches(r.completed[i], f)
                      THEN "duplicate" ELSE "conflict")
       [] receipt = {} /\ f.count = 1 ->
            IF started # {} THEN Result(r, "conflict")
            ELSE Completed(r, Label(f), <<f.payload>>)
       [] receipt = {} /\ f.count > 1 /\ started # {} ->
            Join(r, CHOOSE a \in started : TRUE, f)
       [] OTHER ->
            IF f.index # 0 THEN Result(r, "out_of_order")
            ELSE IF Cardinality(r.inflight) >= MAX_INFLIGHT
                 THEN Result(r, "resource_limit")
                 ELSE Join(r, fresh, f)

(* decode_management: the text is well formed, and only a KICK may ask for *)
(* a receipt.                                                              *)
DecodesAsManagement(head, parts) ==
  /\ head.type = "notice" => ~head.ack
  /\ \A i \in DOMAIN parts : parts[i] \notin Malformed

Forget(r, id) ==
  [r EXCEPT !.completed = SelectSeq(@, LAMBDA c : c.head.id # id)]

Validate(r, id) ==
  [r EXCEPT !.completed =
     [i \in DOMAIN @ |->
        IF @[i].head.id = id THEN [@[i] EXCEPT !.validated = TRUE] ELSE @[i]]]

(* push_management: only NOTICE and KICK, a completed message that does    *)
(* not decode loses its receipt, and a repeat is a repeat only of a        *)
(* message that did decode.                                                *)
PushManagement(r, now, f) ==
  LET pushed == Push(r, now, f)
      next == pushed.state
  IN CASE f.type \notin ManagementTypes -> Result(r, "invalid")
       [] f.type \in ManagementTypes /\ pushed.outcome = "complete" ->
            IF DecodesAsManagement(Label(f), pushed.parts)
            THEN [pushed EXCEPT !.state = Validate(next, f.id)]
            ELSE Result(Forget(next, f.id), "invalid")
       [] f.type \in ManagementTypes /\ pushed.outcome = "duplicate" ->
            IF \E i \in ReceiptsOf(next, f.id) : next.completed[i].validated
            THEN pushed ELSE Result(next, "invalid")
       [] OTHER -> pushed
=============================================================================
