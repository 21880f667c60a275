--------------------------- MODULE RecordDelivery ---------------------------
(***************************************************************************)
(* What the record layer (protocol/packet.rs) promises the tunnel over a   *)
(* network that loses, repeats and reorders datagrams: a counter, and with *)
(* it a nonce, names at most one record, and a record that was sent is     *)
(* handed to the tunnel at most once.                                      *)
(***************************************************************************)
EXTENDS Naturals

CONSTANT Counters

VARIABLES
    sent,        \* counters of the records that exist
    deliveries   \* how often each was handed to the tunnel

recordVars == <<sent, deliveries>>

Init ==
    /\ sent = {}
    /\ deliveries = [c \in Counters |-> 0]

Send(c) ==
    /\ c \notin sent
    /\ sent' = sent \cup {c}
    /\ UNCHANGED deliveries

Deliver(c) ==
    /\ c \in sent
    /\ deliveries[c] = 0
    /\ deliveries' = [deliveries EXCEPT ![c] = 1]
    /\ UNCHANGED sent

Next == \E c \in Counters : Send(c) \/ Deliver(c)

Spec == Init /\ [][Next]_recordVars

=============================================================================
