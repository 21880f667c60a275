------------------------------ MODULE LeaseTable ------------------------------
(***************************************************************************)
(* What the address pool promises its callers, for one address family: a   *)
(* table of leases in which an address has at most one holder and only     *)
(* assignable addresses are leased.  One call changes the lease of the     *)
(* caller's key and of nobody else, except that who had the address the    *)
(* key is given loses it.  Why an address may change hands is not said     *)
(* here.                                                                   *)
(***************************************************************************)
CONSTANTS Key, Assignable, NoAddr

VARIABLE lease

Init == lease = [k \in Key |-> NoAddr]

Free(a) == \A k \in Key : lease[k] # a

Grant(k, a) ==
  /\ Free(a)
  /\ lease' = [lease EXCEPT ![k] = a]

Steal(k, a) ==
  lease' = [h \in Key |-> IF h = k THEN a
                          ELSE IF lease[h] = a THEN NoAddr ELSE lease[h]]

Release(k) == lease' = [lease EXCEPT ![k] = NoAddr]

Next ==
  \E k \in Key :
    \/ Release(k)
    \/ \E a \in Assignable : Grant(k, a) \/ Steal(k, a)

Spec == Init /\ [][Next]_lease
=============================================================================
