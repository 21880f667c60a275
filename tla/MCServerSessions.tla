-------------------------- MODULE MCServerSessions --------------------------
(* A login with two devices, the second of which has a static address and  *)
(* a network behind it, and another login that claims the same network.    *)
EXTENDS ServerSessions

MCUser == [ann1 |-> "ann", ann2 |-> "ann", bob |-> "bob"]
MCFixed == [ann1 |-> 0, ann2 |-> 1, bob |-> 0]
MCSubnets == [ann1 |-> {}, ann2 |-> {"lan"}, bob |-> {"lan"}]
=============================================================================
