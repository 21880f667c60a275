-------------------------- MODULE AddressPoolProofs --------------------------
(***************************************************************************)
(* The address pool's invariants for every set of keys, every range, every *)
(* exclusion and every reservation.                                        *)
(*                                                                         *)
(* The four invariants are inductive together: a release is known to free  *)
(* the right address only because the allocated set is what the lease map  *)
(* holds, and popping the stack loses nothing only because every skipped   *)
(* entry is allocated.  FamilyInv is their conjunction for one family; one *)
(* lemma per operation shows that its outcomes satisfy it.                 *)
(*                                                                         *)
(* The second part is about the DHCP service that shares the pool          *)
(* (DhcpServer): what it tells its clients holds.                          *)
(***************************************************************************)
EXTENDS ServerState, WellFoundedInduction, TLAPS

PoolRecord ==
  [lease : [Key -> Addr \cup {NoAddr}], allocated : SUBSET Addr,
   freed : Seq(Addr), cursor : 1..(Last + 1)]

Exclusive(p) ==
  \A k, l \in Key : p.lease[k] = p.lease[l] /\ p.lease[k] # NoAddr => k = l

Marked(p) ==
  /\ p.allocated = {p.lease[k] : k \in Key} \ {NoAddr}
  /\ p.allocated \subseteq Assignable

Stack(f, p) ==
  /\ \A i, j \in DOMAIN p.freed : p.freed[i] = p.freed[j] => i = j
  /\ Stacked(p) \subseteq Assignable \ ReservedIn(f)

Kept(f, p) ==
  Assignable \ ReservedIn(f) \subseteq
     p.allocated \cup Stacked(p) \cup (p.cursor .. Last)

FamilyInv(f, p) ==
  p \in PoolRecord /\ Exclusive(p) /\ Marked(p) /\ Stack(f, p) /\ Kept(f, p)

(* The numbers behind the names: no address is the absent one.             *)
LEMMA AddressFacts ==
  /\ Last \in Nat
  /\ NoAddr \notin Addr
  /\ Assignable \subseteq Addr
  /\ \A f \in Family : \A k \in DOMAIN Reservation[f] :
        Reservation[f][k] \in Assignable
  /\ \A f \in Family : ReservedIn(f) \subseteq Assignable
<1>1. Last \in Nat /\ NoAddr \notin Addr /\ Assignable \subseteq Addr
  BY PoolAssumption DEF NoAddr, Addr, Assignable
<1>2. ASSUME NEW f \in Family, NEW k \in DOMAIN Reservation[f]
      PROVE  Reservation[f][k] \in Assignable
  <2>1. PICK S \in SUBSET Key : Reservation[f] \in [S -> Assignable]
    BY PoolAssumption
  <2>2. QED
    BY <2>1
<1>3. QED
  BY <1>1, <1>2 DEF ReservedIn

(* A fresh pool.                                                           *)
LEMMA EmptyPoolInv == \A f \in Family : FamilyInv(f, EmptyPool)
<1> SUFFICES ASSUME NEW f \in Family PROVE FamilyInv(f, EmptyPool)
  OBVIOUS
<1>1. EmptyPool \in PoolRecord
  BY AddressFacts DEF EmptyPool, PoolRecord
<1>2. Exclusive(EmptyPool) /\ Marked(EmptyPool)
  BY DEF Exclusive, Marked, EmptyPool
<1>3. Stacked(EmptyPool) = {} /\ DOMAIN EmptyPool.freed = {}
  BY DEF Stacked, EmptyPool
<1>4. Stack(f, EmptyPool)
  BY <1>3 DEF Stack
<1>5. Kept(f, EmptyPool)
  BY AddressFacts DEF Kept, EmptyPool, Assignable, Addr
<1>6. QED
  BY <1>1, <1>2, <1>4, <1>5 DEF FamilyInv

(* What an Append adds to the entries of a stack.                          *)
LEMMA StackedAppend ==
  ASSUME NEW p \in PoolRecord, NEW a \in Addr
  PROVE  LET q == [p EXCEPT !.freed = Append(@, a)]
         IN /\ q \in PoolRecord
            /\ Stacked(q) = Stacked(p) \cup {a}
            /\ DOMAIN q.freed = DOMAIN p.freed \cup {Len(p.freed) + 1}
            /\ \A i \in DOMAIN p.freed : q.freed[i] = p.freed[i]
            /\ q.freed[Len(p.freed) + 1] = a
            /\ q.lease = p.lease /\ q.allocated = p.allocated /\ q.cursor = p.cursor
<1> DEFINE q == [p EXCEPT !.freed = Append(@, a)]
<1>1. p.freed \in Seq(Addr) /\ q.freed = Append(p.freed, a)
  BY DEF PoolRecord
<1>2. /\ q.lease = p.lease /\ q.allocated = p.allocated /\ q.cursor = p.cursor
      /\ q \in PoolRecord
  <2>1. Append(p.freed, a) \in Seq(Addr)
    BY <1>1
  <2>2. QED
    BY <1>1, <2>1 DEF PoolRecord
<1>3. /\ DOMAIN q.freed = DOMAIN p.freed \cup {Len(p.freed) + 1}
      /\ \A i \in DOMAIN p.freed : q.freed[i] = p.freed[i]
      /\ q.freed[Len(p.freed) + 1] = a
  BY <1>1
<1>4. Stacked(q) = Stacked(p) \cup {a}
  BY <1>3 DEF Stacked
<1>5. QED
  BY <1>2, <1>3, <1>4

(* release_ipv4 and the giving up that fixed and windowed allocations      *)
(* start with: the key holds nothing, everyone else what they held.        *)
LEMMA ForgetInv ==
  ASSUME NEW f \in Family, NEW p, FamilyInv(f, p), NEW k \in Key
  PROVE  /\ FamilyInv(f, Forget(f, p, k))
         /\ Forget(f, p, k).lease = [p.lease EXCEPT ![k] = NoAddr]
<1>1. CASE p.lease[k] = NoAddr
  BY <1>1 DEF Forget, FamilyInv, PoolRecord
<1>2. CASE p.lease[k] # NoAddr
  <2> DEFINE a == p.lease[k]
             r == [p EXCEPT !.allocated = @ \ {p.lease[k]}, !.lease[k] = NoAddr]
  <2>1. /\ p \in PoolRecord
        /\ a \in Addr
        /\ a \in p.allocated
        /\ a \in Assignable
    BY <1>2 DEF FamilyInv, PoolRecord, Marked
  <2>2. /\ r \in PoolRecord
        /\ r.lease = [p.lease EXCEPT ![k] = NoAddr]
        /\ r.allocated = p.allocated \ {a}
        /\ r.freed = p.freed
        /\ r.cursor = p.cursor
    BY <2>1 DEF PoolRecord
  <2>3. Exclusive(r)
    BY <2>1, <2>2 DEF Exclusive, FamilyInv, PoolRecord
  <2>4. Marked(r)
    <3>1. \A l \in Key : l # k => p.lease[l] # a
      BY <1>2 DEF FamilyInv, Exclusive
    <3>2. {r.lease[l] : l \in Key} \ {NoAddr} = ({p.lease[l] : l \in Key} \ {NoAddr}) \ {a}
      BY <2>1, <2>2, <3>1 DEF PoolRecord
    <3>3. QED
      BY <2>2, <3>2 DEF Marked, FamilyInv
  <2>5. Stack(f, r) /\ Stacked(r) = Stacked(p)
    BY <2>2 DEF Stack, Stacked, FamilyInv
  <2>6. Forget(f, p, k) = RememberFreed(f, r, a)
    BY <1>2 DEF Forget
  <2>7. CASE a \in ReservedIn(f) \/ a \in Stacked(r)
    <3>1. Forget(f, p, k) = r
      BY <2>6, <2>7 DEF RememberFreed
    <3>2. Kept(f, r)
      BY <2>2, <2>5, <2>7 DEF Kept, FamilyInv
    <3>3. QED
      BY <2>2, <2>3, <2>4, <2>5, <3>1, <3>2 DEF FamilyInv
  <2>8. CASE ~(a \in ReservedIn(f) \/ a \in Stacked(r))
    <3> DEFINE q == [r EXCEPT !.freed = Append(@, a)]
    <3>1. Forget(f, p, k) = q
      BY <2>6, <2>8 DEF RememberFreed
    <3>2. /\ q \in PoolRecord
          /\ Stacked(q) = Stacked(r) \cup {a}
          /\ DOMAIN q.freed = DOMAIN r.freed \cup {Len(r.freed) + 1}
          /\ \A i \in DOMAIN r.freed : q.freed[i] = r.freed[i]
          /\ q.freed[Len(r.freed) + 1] = a
          /\ q.lease = r.lease /\ q.allocated = r.allocated /\ q.cursor = r.cursor
      BY <2>1, <2>2, StackedAppend
    <3>3. Exclusive(q) /\ Marked(q)
      BY <2>3, <2>4, <3>2 DEF Exclusive, Marked
    <3>4. Stack(f, q)
      BY <2>1, <2>5, <2>8, <3>2 DEF Stack, Stacked
    <3>5. Kept(f, q)
      BY <2>2, <2>5, <3>2 DEF Kept, FamilyInv
    <3>6. QED
      BY <2>2, <3>1, <3>2, <3>3, <3>4, <3>5 DEF FamilyInv
  <2>9. QED
    BY <2>7, <2>8
<1>3. QED
  BY <1>1, <1>2

Placed(p, k, a, s, c) == [Assign(p, k, a) EXCEPT !.freed = s, !.cursor = c]

(* Assigning an address nobody holds, on a pool whose stack may have been  *)
(* shortened: what is left to show is that nothing was lost.               *)
LEMMA AssignInv ==
  ASSUME NEW f \in Family, NEW p \in PoolRecord, Exclusive(p), Marked(p),
         NEW k \in Key, p.lease[k] = NoAddr,
         NEW a \in Assignable, a \notin p.allocated,
         NEW s \in Seq(Addr), NEW c \in 1..(Last + 1)
  PROVE  /\ Placed(p, k, a, s, c) \in PoolRecord
         /\ Exclusive(Placed(p, k, a, s, c))
         /\ Marked(Placed(p, k, a, s, c))
         /\ Placed(p, k, a, s, c).lease = [p.lease EXCEPT ![k] = a]
         /\ Placed(p, k, a, s, c).allocated = p.allocated \cup {a}
         /\ Placed(p, k, a, s, c).freed = s
         /\ Placed(p, k, a, s, c).cursor = c
<1> DEFINE q == Placed(p, k, a, s, c)
<1>1. a \in Addr /\ a # NoAddr
  BY AddressFacts
<1>2. /\ q.lease = [p.lease EXCEPT ![k] = a]
      /\ q.allocated = p.allocated \cup {a}
      /\ q.freed = s /\ q.cursor = c
      /\ q \in PoolRecord
  BY <1>1 DEF Assign, PoolRecord, Placed
<1>3. \A l \in Key : p.lease[l] # a
  BY <1>1 DEF Marked
<1>4. Exclusive(q)
  BY <1>2, <1>3 DEF Exclusive, PoolRecord
<1>5. {q.lease[l] : l \in Key} \ {NoAddr} = ({p.lease[l] : l \in Key} \ {NoAddr}) \cup {a}
  BY <1>1, <1>2 DEF PoolRecord
<1>6. Marked(q)
  BY <1>2, <1>5 DEF Marked
<1>7. QED
  BY <1>2, <1>4, <1>6

(* The same when stack and cursor are left alone.                          *)
LEMMA PlainAssignInv ==
  ASSUME NEW f \in Family, NEW p, FamilyInv(f, p), NEW k \in Key,
         p.lease[k] = NoAddr, NEW a \in Assignable, a \notin p.allocated
  PROVE  FamilyInv(f, Assign(p, k, a)) /\ Assign(p, k, a).lease = [p.lease EXCEPT ![k] = a]
<1> DEFINE q == Placed(p, k, a, p.freed, p.cursor)
<1>1. p \in PoolRecord /\ p.freed \in Seq(Addr) /\ p.cursor \in 1..(Last + 1)
  BY DEF FamilyInv, PoolRecord
<1>2. q = Assign(p, k, a)
  BY <1>1 DEF Assign, PoolRecord, Placed
<1>3. /\ q \in PoolRecord /\ Exclusive(q) /\ Marked(q)
      /\ q.lease = [p.lease EXCEPT ![k] = a]
      /\ q.allocated = p.allocated \cup {a}
      /\ q.freed = p.freed /\ q.cursor = p.cursor
  BY <1>1, AssignInv DEF FamilyInv
<1>4. Stack(f, q) /\ Kept(f, q)
  BY <1>3 DEF Stack, Kept, Stacked, FamilyInv
<1>5. QED
  BY <1>2, <1>3, <1>4 DEF FamilyInv

(* How one call may change the leases of a family: not at all, by giving   *)
(* up the key's own, by taking a free address, or by taking one by name.   *)
LeaseStep(k, l, m) ==
  \/ m = l
  \/ m = [l EXCEPT ![k] = NoAddr]
  \/ \E a \in Assignable :
       (\A h \in Key : l[h] # a) /\ m = [l EXCEPT ![k] = a]
  \/ \E a \in Assignable :
       m = [h \in Key |-> IF h = k THEN a ELSE IF l[h] = a THEN NoAddr ELSE l[h]]

(* Every outcome of one family's operation is good.                        *)
Good(f, p, k, outs) ==
  \A out \in outs : FamilyInv(f, out.pool) /\ LeaseStep(k, p.lease, out.pool.lease)

\* An allocation that finds the lease it wants changes nothing.
LEMMA SameIsGood ==
  ASSUME NEW f \in Family, NEW p, FamilyInv(f, p), NEW k \in Key, NEW a
  PROVE  Good(f, p, k, {Outcome(p, a)})
BY DEF Good, Outcome, LeaseStep

\* A release gives back exactly the device's own lease.
LEMMA ForgetIsGood ==
  ASSUME NEW f \in Family, NEW p, FamilyInv(f, p), NEW k \in Key
  PROVE  /\ FamilyInv(f, Forget(f, p, k))
         /\ LeaseStep(k, p.lease, Forget(f, p, k).lease)
         /\ Good(f, p, k, {Outcome(Forget(f, p, k), NoAddr)})
<1> DEFINE q == Forget(f, p, k)
<1>1. FamilyInv(f, q) /\ q.lease = [p.lease EXCEPT ![k] = NoAddr]
  BY ForgetInv
<1> HIDE DEF q
<1>2. LeaseStep(k, p.lease, q.lease)
  BY <1>1 DEF LeaseStep
<1>3. Good(f, p, k, {Outcome(q, NoAddr)})
  BY <1>1, <1>2 DEF Good, Outcome
<1>4. QED
  BY <1>1, <1>2, <1>3 DEF q

(* allocate_fixed, thefts included.                                        *)
LEMMA AllocateFixedInv ==
  ASSUME NEW f \in Family, NEW p, FamilyInv(f, p), NEW k \in Key, NEW a
  PROVE  Good(f, p, k, AllocateFixed(f, p, k, a))
<1>1. CASE a \notin Assignable \/ p.lease[k] = a
  BY <1>1, SameIsGood DEF AllocateFixed
<1>2. CASE a \in Assignable /\ p.lease[k] # a
  <2> DEFINE q == Forget(f, p, k)
             robbed == [q EXCEPT !.lease =
                [h \in Key |-> IF q.lease[h] = a THEN NoAddr ELSE q.lease[h]]]
             r == Assign(robbed, k, a)
             m == [h \in Key |-> IF h = k THEN a
                                 ELSE IF p.lease[h] = a THEN NoAddr ELSE p.lease[h]]
  <2>1. FamilyInv(f, q) /\ q.lease = [p.lease EXCEPT ![k] = NoAddr]
    BY ForgetInv
  <2>2. a \in Addr /\ a # NoAddr
    BY <1>2, AddressFacts
  <2>3. p.lease \in [Key -> Addr \cup {NoAddr}] /\ q \in PoolRecord
    BY <2>1 DEF FamilyInv, PoolRecord
  <2>4. /\ robbed \in PoolRecord
        /\ robbed.lease = [h \in Key |-> IF q.lease[h] = a THEN NoAddr ELSE q.lease[h]]
        /\ robbed.allocated = q.allocated
        /\ robbed.freed = q.freed /\ robbed.cursor = q.cursor
    BY <2>3 DEF PoolRecord
  <2>5. /\ r \in PoolRecord
        /\ r.lease = [robbed.lease EXCEPT ![k] = a]
        /\ r.allocated = q.allocated \cup {a}
        /\ r.freed = q.freed /\ r.cursor = q.cursor
    BY <2>2, <2>4 DEF PoolRecord, Assign
  <2> HIDE DEF q, robbed, r
  <2>6. r.lease = m
    <3>1. \A h \in Key : r.lease[h] = m[h]
      BY <2>1, <2>3, <2>4, <2>5
    <3>2. r.lease \in [Key -> Addr \cup {NoAddr}] /\ DOMAIN m = Key
      BY <2>5 DEF PoolRecord
    <3>3. QED
      BY <3>1, <3>2
  <2>7. Exclusive(r)
    BY <2>2, <2>6 DEF Exclusive, FamilyInv
  <2>8. Marked(r)
    <3>1. \A h \in Key : r.lease[h] = IF h = k THEN a
                          ELSE IF q.lease[h] = a THEN NoAddr ELSE q.lease[h]
      BY <2>4, <2>5, <2>3
    <3>2. q.lease[k] = NoAddr
      BY <2>1, <2>3
    <3>3. {r.lease[h] : h \in Key} \ {NoAddr}
            = ({q.lease[h] : h \in Key} \ {NoAddr}) \cup {a}
      <4>1. ASSUME NEW x
            PROVE  x \in {r.lease[h] : h \in Key} \ {NoAddr}
                   <=> x \in ({q.lease[h] : h \in Key} \ {NoAddr}) \cup {a}
        <5>1. CASE x = a
          BY <2>2, <3>1, <5>1
        <5>2. CASE x # a /\ x # NoAddr
          <6>1. \A h \in Key : r.lease[h] = x <=> q.lease[h] = x
            BY <3>1, <3>2, <5>2
          <6>2. QED
            BY <5>2, <6>1
        <5>3. CASE x = NoAddr
          BY <2>2, <5>3
        <5>4. QED
          BY <5>1, <5>2, <5>3
      <4>2. QED
        BY <4>1
    <3>4. QED
      BY <1>2, <2>1, <2>5, <3>3 DEF Marked, FamilyInv
  <2>9. Stack(f, r) /\ Kept(f, r)
    BY <2>1, <2>5 DEF Stack, Kept, Stacked, FamilyInv
  <2>10. FamilyInv(f, r) /\ LeaseStep(k, p.lease, r.lease)
    BY <1>2, <2>5, <2>6, <2>7, <2>8, <2>9 DEF FamilyInv, LeaseStep
  <2>11. AllocateFixed(f, p, k, a) = {Outcome(r, a)}
    BY <1>2 DEF AllocateFixed, q, robbed, r
  <2>12. QED
    BY <2>10, <2>11 DEF Good, Outcome
<1>3. QED
  BY <1>1, <1>2

(* An address a dynamic path may take is not leased.                       *)
LEMMA UsableIsFree ==
  ASSUME NEW f \in Family, NEW p, FamilyInv(f, p), NEW k \in Key,
         p.lease[k] = NoAddr, NEW a, Usable(f, p, a)
  PROVE  LeaseStep(k, p.lease, [p.lease EXCEPT ![k] = a])
<1>1. a \in Assignable /\ a # NoAddr /\ a \notin p.allocated
  BY AddressFacts DEF Usable
<1>2. \A h \in Key : p.lease[h] # a
  BY <1>1 DEF FamilyInv, Marked
<1>3. QED
  BY <1>1, <1>2 DEF LeaseStep

(* The stack path: the entries above the one taken are all leased.         *)
LEMMA PoppedInv ==
  ASSUME NEW f \in Family, NEW p, FamilyInv(f, p), NEW k \in Key,
         p.lease[k] = NoAddr
  PROVE  Good(f, p, k, Popped(f, p, k))
<1> SUFFICES ASSUME NEW i \in DOMAIN p.freed, Usable(f, p, p.freed[i]),
                    \A m \in DOMAIN p.freed : m > i => ~Usable(f, p, p.freed[m])
             PROVE  LET r == Placed(p, k, p.freed[i], SubSeq(p.freed, 1, i - 1), p.cursor)
                    IN FamilyInv(f, r) /\ LeaseStep(k, p.lease, r.lease)
  <2>1. p \in PoolRecord
    BY DEF FamilyInv
  <2>2. \A i \in DOMAIN p.freed :
          [Assign(p, k, p.freed[i]) EXCEPT !.freed = SubSeq(p.freed, 1, i - 1)]
          = Placed(p, k, p.freed[i], SubSeq(p.freed, 1, i - 1), p.cursor)
    BY <2>1 DEF PoolRecord, Assign, Placed
  <2>3. QED
    BY <2>2 DEF Good, Popped, Outcome
<1> DEFINE a == p.freed[i]
           s == SubSeq(p.freed, 1, i - 1)
           r == Placed(p, k, a, s, p.cursor)
<1>1. p \in PoolRecord /\ p.freed \in Seq(Addr) /\ p.cursor \in 1..(Last + 1)
  BY DEF FamilyInv, PoolRecord
<1>2. a \in Assignable /\ a \notin p.allocated /\ a \notin ReservedIn(f)
  BY DEF Usable
<1>3. /\ s \in Seq(Addr)
      /\ DOMAIN s = 1..(i - 1)
      /\ \A j \in 1..(i - 1) : s[j] = p.freed[j] /\ j \in DOMAIN p.freed
  BY <1>1
<1> HIDE DEF s
<1>4. /\ r \in PoolRecord /\ Exclusive(r) /\ Marked(r)
      /\ r.lease = [p.lease EXCEPT ![k] = a]
      /\ r.allocated = p.allocated \cup {a}
      /\ r.freed = s /\ r.cursor = p.cursor
  BY <1>1, <1>2, <1>3, AssignInv DEF FamilyInv
<1> HIDE DEF r
<1>5. Stack(f, r)
  <2>1. \A j \in DOMAIN r.freed : j \in DOMAIN p.freed /\ r.freed[j] = p.freed[j]
    BY <1>3, <1>4
  <2>2. QED
    BY <2>1 DEF Stack, Stacked, FamilyInv
<1>6. Kept(f, r)
  <2>1. Stacked(p) \subseteq p.allocated \cup {a} \cup Stacked(r)
    <3> SUFFICES ASSUME NEW j \in DOMAIN p.freed
                 PROVE  p.freed[j] \in p.allocated \cup {a} \cup Stacked(r)
      BY DEF Stacked
    <3>1. j \in Nat /\ i \in Nat /\ j >= 1
      BY <1>1
    <3>2. CASE j < i
      <4>1. j \in 1..(i - 1)
        BY <3>1, <3>2
      <4>2. j \in DOMAIN r.freed /\ r.freed[j] = p.freed[j]
        BY <1>3, <1>4, <4>1
      <4>3. QED
        BY <4>2 DEF Stacked
    <3>3. CASE j = i
      BY <3>3
    <3>4. CASE j > i
      <4>1. p.freed[j] \in Assignable \ ReservedIn(f)
        BY DEF FamilyInv, Stack, Stacked
      <4>2. QED
        BY <3>4, <4>1 DEF Usable
    <3>5. QED
      BY <3>1, <3>2, <3>3, <3>4
  <2>2. QED
    BY <1>4, <2>1 DEF Kept, FamilyInv
<1>7. LeaseStep(k, p.lease, r.lease)
  BY <1>4, UsableIsFree
<1>8. QED
  BY <1>4, <1>5, <1>6, <1>7 DEF FamilyInv, r, s

(* The cursor path: the stack held only leased entries and the addresses   *)
(* skipped are leased or not for dynamic use.                              *)
LEMMA AdvancedInv ==
  ASSUME NEW f \in Family, NEW p, FamilyInv(f, p), NEW k \in Key,
         p.lease[k] = NoAddr,
         \A i \in DOMAIN p.freed : ~Usable(f, p, p.freed[i])
  PROVE  /\ Good(f, p, k, Advanced(f, p, k))
         /\ (\A a \in Addr : a >= p.cursor => ~Usable(f, p, a)) =>
               Good(f, p, k, {Exhausted(p)})
<1>1. p \in PoolRecord /\ p.cursor \in 1..(Last + 1)
  BY DEF FamilyInv, PoolRecord
<1>2. Stacked(p) \subseteq p.allocated
  BY DEF FamilyInv, Stack, Stacked, Usable
<1> DEFINE e == <<>>
<1>3. e \in Seq(Addr) /\ DOMAIN e = {}
  OBVIOUS
<1> HIDE DEF e
<1>4. ASSUME NEW b \in Addr, b >= p.cursor, Usable(f, p, b),
             \A c \in Addr : p.cursor <= c /\ c < b => ~Usable(f, p, c)
      PROVE  LET r == Placed(p, k, b, e, b + 1)
             IN FamilyInv(f, r) /\ LeaseStep(k, p.lease, r.lease)
  <2> DEFINE n == b + 1
             r == Placed(p, k, b, e, n)
  <2>1. b \in Assignable /\ b \notin p.allocated /\ n \in 1..(Last + 1)
    BY <1>4, AddressFacts DEF Usable, Addr
  <2> HIDE DEF n
  <2>2. /\ r \in PoolRecord /\ Exclusive(r) /\ Marked(r)
        /\ r.lease = [p.lease EXCEPT ![k] = b]
        /\ r.allocated = p.allocated \cup {b}
        /\ r.freed = e /\ r.cursor = n
    <3>1. Exclusive(p) /\ Marked(p)
      BY DEF FamilyInv
    <3>2. \A s \in Seq(Addr), c \in 1..(Last + 1) :
            /\ Placed(p, k, b, s, c) \in PoolRecord
            /\ Exclusive(Placed(p, k, b, s, c))
            /\ Marked(Placed(p, k, b, s, c))
            /\ Placed(p, k, b, s, c).lease = [p.lease EXCEPT ![k] = b]
            /\ Placed(p, k, b, s, c).allocated = p.allocated \cup {b}
            /\ Placed(p, k, b, s, c).freed = s
            /\ Placed(p, k, b, s, c).cursor = c
      BY <1>1, <2>1, <3>1, AssignInv
    <3>3. QED
      BY <1>3, <2>1, <3>2
  <2> HIDE DEF r
  <2>3. Stack(f, r)
    BY <1>3, <2>2 DEF Stack, Stacked
  <2>4. Kept(f, r)
    <3> SUFFICES ASSUME NEW x \in Assignable \ ReservedIn(f), x \notin p.allocated, x # b
                 PROVE  x \in (b + 1)..Last
      BY <2>2 DEF Kept, n
    <3>1. x \in p.cursor .. Last /\ x \in Addr
      BY <1>2, AddressFacts DEF FamilyInv, Kept
    <3>2. Usable(f, p, x)
      BY DEF Usable
    <3>3. ~(x < b)
      BY <1>4, <3>1, <3>2
    <3>4. QED
      BY <3>1, <3>3, AddressFacts DEF Addr
  <2>5. QED
    BY <1>4, <2>2, <2>3, <2>4, UsableIsFree DEF FamilyInv, r, n
<1>5. Good(f, p, k, Advanced(f, p, k))
  <2>1. \A a : [Assign(p, k, a) EXCEPT !.freed = <<>>, !.cursor = a + 1]
               = Placed(p, k, a, e, a + 1)
    BY DEF Placed, e
  <2>2. ASSUME NEW b \in Addr, b >= p.cursor, Usable(f, p, b),
               \A c \in Addr : p.cursor <= c /\ c < b => ~Usable(f, p, c)
        PROVE  LET r == [Assign(p, k, b) EXCEPT !.freed = <<>>, !.cursor = b + 1]
               IN FamilyInv(f, r) /\ LeaseStep(k, p.lease, r.lease)
    BY <1>4, <2>1, <2>2
  <2>3. ASSUME NEW out \in Advanced(f, p, k)
        PROVE  FamilyInv(f, out.pool) /\ LeaseStep(k, p.lease, out.pool.lease)
    <3>1. PICK b \in Addr :
            /\ b >= p.cursor
            /\ Usable(f, p, b)
            /\ \A c \in Addr : p.cursor <= c /\ c < b => ~Usable(f, p, c)
            /\ out = Outcome([Assign(p, k, b) EXCEPT !.freed = <<>>, !.cursor = b + 1], b)
      BY DEF Advanced
    <3>2. out.pool = [Assign(p, k, b) EXCEPT !.freed = <<>>, !.cursor = b + 1]
      BY <3>1 DEF Outcome
    <3>3. QED
      BY <2>2, <3>1, <3>2
  <2>4. QED
    BY <2>3 DEF Good
<1>6. ASSUME \A a \in Addr : a >= p.cursor => ~Usable(f, p, a)
      PROVE  Good(f, p, k, {Exhausted(p)})
  <2> DEFINE r == [p EXCEPT !.freed = e, !.cursor = Last + 1]
  <2>1. /\ r \in PoolRecord
        /\ r.lease = p.lease /\ r.allocated = p.allocated
        /\ r.freed = e /\ r.cursor = Last + 1
    <3>1. Last + 1 \in 1..(Last + 1)
      BY AddressFacts
    <3>2. QED
      BY <1>1, <1>3, <3>1 DEF PoolRecord
  <2> HIDE DEF r
  <2>2. Exclusive(r) /\ Marked(r) /\ Stack(f, r)
    BY <1>3, <2>1 DEF Exclusive, Marked, Stack, Stacked, FamilyInv
  <2>3. Kept(f, r)
    <3> SUFFICES ASSUME NEW x \in Assignable \ ReservedIn(f), x \notin p.allocated
                 PROVE  FALSE
      BY <2>1 DEF Kept
    <3>1. x \in p.cursor .. Last /\ x \in Addr
      BY <1>2, AddressFacts DEF FamilyInv, Kept
    <3>2. Usable(f, p, x)
      BY DEF Usable
    <3>3. QED
      BY <1>6, <3>1, <3>2
  <2>4. FamilyInv(f, r) /\ LeaseStep(k, p.lease, r.lease)
    BY <2>1, <2>2, <2>3 DEF FamilyInv, LeaseStep
  <2>5. Exhausted(p).pool = r
    BY DEF Exhausted, Outcome, r, e
  <2>6. QED
    BY <2>4, <2>5 DEF Good
<1>7. QED
  BY <1>5, <1>6

\* A dynamic allocation: the stack first, then the cursor.
LEMMA DynamicInv ==
  ASSUME NEW f \in Family, NEW p, FamilyInv(f, p), NEW k \in Key,
         p.lease[k] = NoAddr
  PROVE  Good(f, p, k, Dynamic(f, p, k))
<1>1. CASE \E i \in DOMAIN p.freed : Usable(f, p, p.freed[i])
  BY <1>1, PoppedInv DEF Dynamic
<1>2. CASE ~\E i \in DOMAIN p.freed : Usable(f, p, p.freed[i])
  BY <1>2, AdvancedInv DEF Dynamic
<1>3. QED
  BY <1>1, <1>2

\* allocate: the old lease, the reservation, or a dynamic address.
LEMMA AllocateInv ==
  ASSUME NEW f \in Family, NEW p, FamilyInv(f, p), NEW k \in Key
  PROVE  Good(f, p, k, Allocate(f, p, k))
<1>1. CASE p.lease[k] # NoAddr
  BY <1>1, SameIsGood DEF Allocate
<1>2. CASE p.lease[k] = NoAddr /\ k \in DOMAIN Reservation[f]
  BY <1>2, AllocateFixedInv DEF Allocate
<1>3. CASE p.lease[k] = NoAddr /\ k \notin DOMAIN Reservation[f]
  BY <1>3, DynamicInv DEF Allocate
<1>4. QED
  BY <1>1, <1>2, <1>3

\* allocate_unclaimed: a named address, if nobody holds it.
LEMMA AllocateUnclaimedInv ==
  ASSUME NEW f \in Family, NEW p, FamilyInv(f, p), NEW k \in Key, NEW a
  PROVE  Good(f, p, k, AllocateUnclaimed(f, p, k, a))
<1>1. CASE \E h \in Key : p.lease[h] = a
  BY <1>1, SameIsGood DEF AllocateUnclaimed
<1>2. CASE ~(\E h \in Key : p.lease[h] = a) /\ a \in ReservedIn(f)
  BY <1>2, SameIsGood DEF AllocateUnclaimed
<1>3. CASE ~(\E h \in Key : p.lease[h] = a) /\ a \notin ReservedIn(f)
  BY <1>3, AllocateFixedInv DEF AllocateUnclaimed
<1>4. QED
  BY <1>1, <1>2, <1>3

(* The windowed path gives up the old lease and takes a free address.      *)
LEMMA AllocateInRangeInv ==
  ASSUME NEW f \in Family, NEW p, FamilyInv(f, p), NEW k \in Key,
         NEW lo, NEW hi, NEW quarantined
  PROVE  Good(f, p, k, AllocateInRange(f, p, k, lo, hi, quarantined))
<1> DEFINE Fits(a) == lo <= a /\ a <= hi /\ a \notin quarantined
           q == Forget(f, p, k)
           scanned == {a \in Addr : Fits(a) /\ Usable(f, q, a)}
<1>1. CASE p.lease[k] # NoAddr /\ Fits(p.lease[k])
  BY <1>1, SameIsGood DEF AllocateInRange
<1>2. CASE ~(p.lease[k] # NoAddr /\ Fits(p.lease[k]))
  <2>1. FamilyInv(f, q) /\ q.lease = [p.lease EXCEPT ![k] = NoAddr]
    BY ForgetInv
  <2>2. p.lease \in [Key -> Addr \cup {NoAddr}]
    BY DEF FamilyInv, PoolRecord
  <2>3. Good(f, p, k, {Outcome(q, NoAddr)})
    BY <2>1 DEF Good, Outcome, LeaseStep
  <2>4. ASSUME NEW a \in scanned
        PROVE  Good(f, p, k, {Outcome(Assign(q, k, a), a)})
    <3>1. a \in Assignable /\ a \notin q.allocated /\ a # NoAddr
      BY AddressFacts DEF Usable
    <3> HIDE DEF q, scanned, Fits
    <3>2. q.lease[k] = NoAddr
      BY <2>1, <2>2
    <3>3. FamilyInv(f, Assign(q, k, a)) /\ Assign(q, k, a).lease = [q.lease EXCEPT ![k] = a]
      <4>1. \A r : FamilyInv(f, r) /\ r.lease[k] = NoAddr /\ a \notin r.allocated =>
                 FamilyInv(f, Assign(r, k, a))
                   /\ Assign(r, k, a).lease = [r.lease EXCEPT ![k] = a]
        BY <3>1, PlainAssignInv
      <4>2. QED
        BY <2>1, <3>1, <3>2, <4>1
    <3>4. Assign(q, k, a).lease = [p.lease EXCEPT ![k] = a]
      BY <2>1, <2>2, <3>3
    <3>5. \A h \in Key : h # k => p.lease[h] # a
      <4>1. \A h \in Key : q.lease[h] # a
        BY <2>1, <3>1 DEF FamilyInv, Marked
      <4>2. QED
        BY <2>1, <2>2, <4>1
    <3>6. [p.lease EXCEPT ![k] = a]
            = [h \in Key |-> IF h = k THEN a
                             ELSE IF p.lease[h] = a THEN NoAddr ELSE p.lease[h]]
      BY <2>2, <3>5
    <3>7. LeaseStep(k, p.lease, Assign(q, k, a).lease)
      BY <3>1, <3>4, <3>6 DEF LeaseStep
    <3>8. QED
      BY <3>3, <3>7 DEF Good, Outcome
  <2>5. QED
    BY <1>2, <2>3, <2>4 DEF AllocateInRange, Good
<1>3. QED
  BY <1>1, <1>2

-----------------------------------------------------------------------------
(* The whole pool.                                                         *)

IInv == pool \in [Family -> PoolRecord] /\ \A f \in Family : FamilyInv(f, pool[f])

\* A fresh pool satisfies the invariant.
LEMMA InitIInv == Init => IInv
BY EmptyPoolInv DEF Init, IInv, FamilyInv

(* One call of any operation, in each family.                              *)
LEMMA NextIInv ==
  IInv /\ Next =>
    IInv' /\ \E k \in Key : \A f \in Family :
               LeaseStep(k, pool[f].lease, pool'[f].lease)
<1> SUFFICES ASSUME IInv, Next
             PROVE  \E k \in Key :
                      /\ pool' \in [Family -> PoolRecord]
                      /\ \A f \in Family : FamilyInv(f, pool'[f])
                      /\ \A f \in Family : LeaseStep(k, pool[f].lease, pool'[f].lease)
  BY DEF IInv
<1> USE DEF IInv
<1>0. \A f \in Family : \A q : FamilyInv(f, q) => q \in PoolRecord
  BY DEF FamilyInv
<1>1. PICK key \in Key :
        \/ Release(key)
        \/ \E mode \in Modes, fixed \in [Family -> Addr \cup {NoAddr}] :
             AllocateForMode(key, mode, fixed)
        \/ \E a \in Addr : DhcpRequest(key, a)
        \/ \E lo, hi \in Addr, quarantined \in {{}} \cup {{a} : a \in Addr} :
             DhcpAllocate(key, lo, hi, quarantined)
  BY DEF Next
<1> SUFFICES /\ pool' \in [Family -> PoolRecord]
             /\ \A f \in Family : FamilyInv(f, pool'[f])
             /\ \A f \in Family : LeaseStep(key, pool[f].lease, pool'[f].lease)
  OBVIOUS
<1>2. CASE Release(key)
  <2>1. \A f \in Family : pool'[f] = Forget(f, pool[f], key)
    BY <1>2 DEF Release
  <2>2. \A f \in Family : /\ FamilyInv(f, pool'[f])
                          /\ LeaseStep(key, pool[f].lease, pool'[f].lease)
    BY <2>1, ForgetIsGood
  <2>3. QED
    BY <1>0, <1>2, <2>2 DEF Release
<1>3. ASSUME NEW mode \in Modes, NEW fixed \in [Family -> Addr \cup {NoAddr}],
             AllocateForMode(key, mode, fixed)
      PROVE  /\ pool' \in [Family -> PoolRecord]
             /\ \A f \in Family : FamilyInv(f, pool'[f])
             /\ \A f \in Family : LeaseStep(key, pool[f].lease, pool'[f].lease)
  <2>1. ASSUME NEW f \in Family
        PROVE  Good(f, pool[f], key, Contribution(f, key, mode, fixed))
    <3>1. CASE f \notin Families(mode)
      <4>1. Contribution(f, key, mode, fixed) = {Outcome(Forget(f, pool[f], key), NoAddr)}
        BY <3>1 DEF Contribution
      <4>2. QED
        BY <4>1, ForgetIsGood
    <3>2. CASE f \in Families(mode) /\ fixed[f] # NoAddr
      BY <3>2, AllocateFixedInv DEF Contribution
    <3>3. CASE f \in Families(mode) /\ fixed[f] = NoAddr
      BY <3>3, AllocateInv DEF Contribution
    <3>4. QED
      BY <3>1, <3>2, <3>3
  <2>2. PICK v4 \in Contribution("v4", key, mode, fixed),
             v6 \in Contribution("v6", key, mode, fixed) :
          pool' = Both(v4.pool, v6.pool) \/ pool' = pool
    BY <1>3 DEF AllocateForMode
  <2>3. CASE pool' = pool
    BY <2>3 DEF LeaseStep
  <2>4. CASE pool' = Both(v4.pool, v6.pool)
    <3>1. \A f \in Family : /\ FamilyInv(f, pool'[f])
                            /\ LeaseStep(key, pool[f].lease, pool'[f].lease)
      <4> TAKE f \in Family
      <4>1. pool'[f] = IF f = "v4" THEN v4.pool ELSE v6.pool
        BY <2>4 DEF Both
      <4>2. f = "v4" \/ f = "v6"
        BY PoolAssumption
      <4>3. CASE f = "v4"
        BY <2>1, <2>2, <4>1, <4>3 DEF Good
      <4>4. CASE f = "v6"
        BY <2>1, <2>2, <4>1, <4>4 DEF Good
      <4>5. QED
        BY <4>2, <4>3, <4>4
    <3>2. QED
      BY <1>0, <2>4, <3>1 DEF Both
  <2>5. QED
    BY <2>2, <2>3, <2>4
<1>4. ASSUME NEW o, "v4" \in Family, Good("v4", pool["v4"], key, {o}),
             pool' = [pool EXCEPT !["v4"] = o.pool]
      PROVE  /\ pool' \in [Family -> PoolRecord]
             /\ \A f \in Family : FamilyInv(f, pool'[f])
             /\ \A f \in Family : LeaseStep(key, pool[f].lease, pool'[f].lease)
  <2>1. FamilyInv("v4", o.pool) /\ LeaseStep(key, pool["v4"].lease, o.pool.lease)
    BY <1>4 DEF Good
  <2>2. \A f \in Family : pool'[f] = IF f = "v4" THEN o.pool ELSE pool[f]
    BY <1>4
  <2>3. \A f \in Family : /\ FamilyInv(f, pool'[f])
                          /\ LeaseStep(key, pool[f].lease, pool'[f].lease)
    <3> TAKE f \in Family
    <3>1. CASE f = "v4"
      BY <2>1, <2>2, <3>1
    <3>2. CASE f # "v4"
      <4>1. pool'[f] = pool[f]
        BY <2>2, <3>2
      <4>2. QED
        BY <4>1 DEF LeaseStep
    <3>3. QED
      BY <3>1, <3>2
  <2>4. QED
    BY <1>0, <1>4, <2>1, <2>3
<1>5. ASSUME NEW a \in Addr, DhcpRequest(key, a)
      PROVE  /\ pool' \in [Family -> PoolRecord]
             /\ \A f \in Family : FamilyInv(f, pool'[f])
             /\ \A f \in Family : LeaseStep(key, pool[f].lease, pool'[f].lease)
  <2>1. PICK o \in AllocateUnclaimed("v4", pool["v4"], key, a) :
          pool' = [pool EXCEPT !["v4"] = o.pool]
    BY <1>5 DEF DhcpRequest
  <2>2. "v4" \in Family /\ Good("v4", pool["v4"], key, {o})
    BY <1>5, <2>1, AllocateUnclaimedInv DEF DhcpRequest, Good
  <2>3. QED
    BY <1>4, <2>1, <2>2
<1>6. ASSUME NEW lo \in Addr, NEW hi \in Addr, NEW quarantined,
             DhcpAllocate(key, lo, hi, quarantined)
      PROVE  /\ pool' \in [Family -> PoolRecord]
             /\ \A f \in Family : FamilyInv(f, pool'[f])
             /\ \A f \in Family : LeaseStep(key, pool[f].lease, pool'[f].lease)
  <2>1. PICK o \in AllocateInRange("v4", pool["v4"], key, lo, hi, quarantined) :
          pool' = [pool EXCEPT !["v4"] = o.pool]
    BY <1>6 DEF DhcpAllocate
  <2>2. "v4" \in Family /\ Good("v4", pool["v4"], key, {o})
    BY <1>6, <2>1, AllocateInRangeInv DEF DhcpAllocate, Good
  <2>3. QED
    BY <1>4, <2>1, <2>2
<1>7. QED
  BY <1>1, <1>2, <1>3, <1>5, <1>6

(* The inductive invariant holds throughout.                               *)
THEOREM PoolInvariant == Spec => []IInv
<1>1. IInv /\ UNCHANGED vars => IInv'
  BY DEF IInv, vars
<1>2. QED
  BY <1>1, InitIInv, NextIInv, PTL DEF Spec

(* Types: the leases are addresses, the stack holds addresses, the cursor  *)
(* never passes one beyond the end of the range.                           *)
THEOREM PoolTypes == Spec => []TypeOK
<1>1. IInv => TypeOK
  BY DEF IInv, TypeOK, PoolRecord
<1>2. QED
  BY <1>1, PoolInvariant, PTL

(* No address is ever leased to two keys, for any number of keys, any      *)
(* range, exclusions and reservations.                                     *)
THEOREM LeasesAreExclusive == Spec => []NoAddressLeasedTwice
<1>1. IInv => NoAddressLeasedTwice
  BY DEF IInv, NoAddressLeasedTwice, FamilyInv, Exclusive
<1>2. QED
  BY <1>1, PoolInvariant, PTL

(* The allocated set is exactly what is leased.                            *)
THEOREM MarksAreLeases == Spec => []AllocatedIsLeased
<1>1. IInv => AllocatedIsLeased
  BY DEF IInv, AllocatedIsLeased, FamilyInv, Marked
<1>2. QED
  BY <1>1, PoolInvariant, PTL

(* The stack of released addresses never holds an address twice.           *)
THEOREM StackBound == Spec => []StackIsBounded
<1>1. IInv => StackIsBounded
  BY DEF IInv, StackIsBounded, FamilyInv, Stack
<1>2. QED
  BY <1>1, PoolInvariant, PTL

(* No dynamic address is ever lost.                                        *)
THEOREM NothingIsLost == Spec => []NoAddressLost
<1>1. IInv => NoAddressLost
  BY DEF IInv, NoAddressLost, FamilyInv, Kept
<1>2. QED
  BY <1>1, PoolInvariant, PTL

(* What an allocation grants is on the key's lease: the address answered   *)
(* is the one recorded, whichever of the loops found it.                   *)
LEMMA GrantIsLeased ==
  ASSUME NEW f \in Family, NEW p, FamilyInv(f, p), NEW k \in Key,
         NEW out \in Allocate(f, p, k), out.addr # NoAddr
  PROVE  out.pool.lease[k] # NoAddr
<1>1. p \in PoolRecord /\ p.lease \in [Key -> Addr \cup {NoAddr}]
  BY DEF FamilyInv, PoolRecord
<1>2. CASE p.lease[k] # NoAddr
  BY <1>2 DEF Allocate, Outcome
<1>3. CASE p.lease[k] = NoAddr /\ k \in DOMAIN Reservation[f]
  <2> DEFINE a == Reservation[f][k]
             q == Forget(f, p, k)
             robbed == [q EXCEPT !.lease =
                [h \in Key |-> IF q.lease[h] = a THEN NoAddr ELSE q.lease[h]]]
  <2>1. a \in Assignable /\ a # NoAddr
    BY <1>3, AddressFacts
  <2>2. q \in PoolRecord
    BY ForgetInv DEF FamilyInv
  <2>3. robbed.lease = [h \in Key |-> IF q.lease[h] = a THEN NoAddr ELSE q.lease[h]]
    BY <2>2 DEF PoolRecord
  <2>4. robbed = [lease |-> robbed.lease, allocated |-> q.allocated,
                  freed |-> q.freed, cursor |-> q.cursor]
    BY <2>2 DEF PoolRecord
  <2>5. out = Outcome(Assign(robbed, k, a), a)
    BY <1>3, <2>1 DEF Allocate, AllocateFixed
  <2> HIDE DEF robbed, q
  <2>6. Assign(robbed, k, a).lease[k] = a
    BY <2>3, <2>4 DEF Assign
  <2>7. QED
    BY <2>1, <2>5, <2>6 DEF Outcome
<1>4. CASE p.lease[k] = NoAddr /\ k \notin DOMAIN Reservation[f]
  <2>1. out \in Dynamic(f, p, k)
    BY <1>4 DEF Allocate
  <2>2. CASE out \in Popped(f, p, k)
    <3>1. PICK i \in DOMAIN p.freed :
             /\ out = Outcome([Assign(p, k, p.freed[i]) EXCEPT
                                 !.freed = SubSeq(p.freed, 1, i - 1)], p.freed[i])
             /\ Usable(f, p, p.freed[i])
      BY <2>2 DEF Popped
    <3>2. out.pool.lease[k] = p.freed[i] /\ p.freed[i] # NoAddr
      BY <1>1, <3>1, AddressFacts DEF Outcome, Assign, PoolRecord, Usable
    <3>3. QED
      BY <3>2
  <2>3. CASE out \in Advanced(f, p, k)
    <3>1. PICK a \in Addr :
             out = Outcome([Assign(p, k, a) EXCEPT !.freed = <<>>, !.cursor = a + 1], a)
      BY <2>3 DEF Advanced
    <3>2. out.pool.lease[k] = a /\ a # NoAddr
      BY <1>1, <3>1, AddressFacts DEF Outcome, Assign, PoolRecord
    <3>3. QED
      BY <3>2
  <2>4. out # Exhausted(p)
    BY DEF Exhausted, Outcome
  <2>5. QED
    BY <2>1, <2>2, <2>3, <2>4 DEF Dynamic
<1>5. QED
  BY <1>2, <1>3, <1>4

(* A dual-stack grant that changes anything leaves the key with an address *)
(* of both families (allocate_for_mode): the step that commits the pools   *)
(* has seen both addresses, and what it saw is what the leases say.        *)
THEOREM DualGrants == Spec => DualOrNothing
<1> DEFINE Dual(k) ==
      pool' # pool /\ AllocateForMode(k, "dual", [f \in Family |-> NoAddr]) =>
        \A f \in Family : pool'[f].lease[k] # NoAddr
<1>1. ASSUME IInv, NEW k \in Key PROVE Dual(k)
  <2> DEFINE none == [f \in Family |-> NoAddr]
  <2> SUFFICES ASSUME pool' # pool, AllocateForMode(k, "dual", none),
                      NEW f \in Family
               PROVE  pool'[f].lease[k] # NoAddr
    OBVIOUS
  <2>1. PICK v4 \in Contribution("v4", k, "dual", none),
             v6 \in Contribution("v6", k, "dual", none) :
          pool' = IF \A g \in Families("dual") : (IF g = "v4" THEN v4 ELSE v6).addr # NoAddr
                  THEN Both(v4.pool, v6.pool) ELSE pool
    BY DEF AllocateForMode
  <2>2. v4.addr # NoAddr /\ v6.addr # NoAddr /\ pool' = Both(v4.pool, v6.pool)
    BY <2>1 DEF Families
  <2>3. ASSUME NEW g \in {"v4", "v6"}, NEW v \in Contribution(g, k, "dual", none),
               v.addr # NoAddr, g \in Family
        PROVE  v.pool.lease[k] # NoAddr
    <3>1. v \in Allocate(g, pool[g], k)
      BY <2>3 DEF Contribution, Families
    <3>2. FamilyInv(g, pool[g])
      BY <1>1, <2>3 DEF IInv
    <3>3. QED
      BY <2>3, <3>1, <3>2, GrantIsLeased
  <2>4. f = "v4" \/ f = "v6"
    BY PoolAssumption
  <2>5. pool'[f] = IF f = "v4" THEN v4.pool ELSE v6.pool
    BY <2>2 DEF Both
  <2>6. QED
    BY <2>2, <2>3, <2>4, <2>5
<1>2. IInv => [\A k \in Key : Dual(k)]_vars
  BY <1>1
<1>3. QED
  BY <1>2, PoolInvariant, PTL DEF DualOrNothing

(* A profile that serves IPv4 implements the lease table with it.          *)
THEOREM PoolImplementsLeases == "v4" \in Family => (Spec => V4Leases)
<1> SUFFICES ASSUME "v4" \in Family PROVE Spec => V4Leases
  OBVIOUS
<1>1. Init => V4!Init
  BY DEF Init, V4!Init, EmptyPool
<1>2. IInv /\ [Next]_vars => [V4!Next]_(pool["v4"].lease)
  <2> SUFFICES ASSUME IInv, Next PROVE V4!Next \/ pool'["v4"].lease = pool["v4"].lease
    BY DEF vars
  <2>1. PICK k \in Key : LeaseStep(k, pool["v4"].lease, pool'["v4"].lease)
    BY NextIInv
  <2>2. QED
    BY <2>1 DEF LeaseStep, V4!Next, V4!Release, V4!Grant, V4!Steal, V4!Free
<1>3. QED
  BY <1>1, <1>2, PoolInvariant, PTL DEF Spec, V4Leases, V4!Spec

-----------------------------------------------------------------------------
(* The DHCP service on top of the pool.                                    *)

\* DHCP clients and VPN users have different keys, hosts are numbered from 1, and a
\* lease lasts.
DhcpConstants ==
  /\ Mac \cap User = {} /\ 0 \notin Mac
  /\ Host \subseteq Nat \ {0} /\ Window \subseteq Host
  /\ OfferTime \in Nat /\ LeaseTime \in Nat \ {0} /\ QuarantineTime \in Nat
  /\ MaxPackets \in Nat

\* The allocation in progress: none, one that seeks an address, one that answers.
Seeking == [at : {"reuse", "prefer", "dynamic"}, mac : Mac, pref : Host \cup {0},
            offer : BOOLEAN]
Answering == [at : {"reply"}, mac : Mac, offer : BOOLEAN, ip : Window \cup {0},
              stolen : BOOLEAN]
JobType == dhJob \in {DH!Idle} \cup Seeking \cup Answering

\* No address has two holders.
HoldersDiffer == \A k, l \in Mac \cup User : dhOwner[k] # 0 /\ dhOwner[k] = dhOwner[l] => k = l

\* An acknowledgement is remembered while it runs, for a lease time at most.
AcksRun == \A m \in Mac : dhAcked[m] # DH!NoAck => /\ dhAcked[m].ttl \in 1..LeaseTime
                                                   /\ dhAcked[m].addr \in Window

\* A client is looked for a new address only once it has no lease, and what is about
\* to be acknowledged is the client's, for a whole lease time, unless it was stolen.
JobIsSound ==
  /\ dhJob.at \in {"prefer", "dynamic"} => \A a \in Window : dhLeases[a].mac # dhJob.mac
  /\ dhJob.at = "reply" /\ dhJob.ip # 0 /\ ~dhJob.stolen =>
       /\ dhOwner[dhJob.mac] = dhJob.ip /\ dhLeases[dhJob.ip].mac = dhJob.mac
       /\ ~dhJob.offer => dhLeases[dhJob.ip].ttl >= LeaseTime

DhcpInv == DH!PromisesHold /\ JobType /\ HoldersDiffer /\ AcksRun /\ JobIsSound

\* What an allocation comes to: a free address of the window for the client, or none.
Taken(a) ==
  /\ dhJob.at \in {"prefer", "dynamic"} /\ dhDeclined[a] = 0 /\ DH!Free(a) /\ DH!Take(a)
  /\ UNCHANGED <<dhDeclined, dhAcked, dhPackets>>
NotTaken ==
  /\ dhJob.at \in {"prefer", "dynamic"}
  /\ DH!Stage("dynamic") \/ DH!Granted(0)
  /\ UNCHANGED <<dhLeases, dhOwner, dhDeclined, dhAcked, dhPackets>>

\* Every nonempty set of hosts has a least one.
LEMMA LeastHost ==
  ASSUME NEW S \in SUBSET Nat, S # {}
  PROVE  \E x \in S : \A y \in S : x <= y
<1> DEFINE R == OpToRel(<, Nat)
<1>1. IsWellFoundedOn(R, Nat)
  BY NatLessThanWellFounded
<1>2. \A x, y \in Nat : x < y => <<x, y>> \in R
  BY DEF OpToRel
<1> HIDE DEF R
<1>3. PICK x \in S : \A y \in S : ~(<<y, x>> \in R)
  BY <1>1, WFMin
<1>4. \A y \in S : ~(y < x)
  BY <1>2, <1>3
<1> QED
  BY <1>4

\* The two stages that allocate take a free address of the window or none.
LEMMA AllocationSteps ==
  ASSUME DhcpConstants, DhcpInv, DH!Prefer \/ DH!Dynamic
  PROVE  NotTaken \/ \E a \in Window : Taken(a)
<1>1. CASE DH!Prefer
  BY <1>1 DEF DH!Prefer, DH!Askable, Taken, NotTaken, DH!None
<1>2. CASE DH!Dynamic /\ DH!Candidates = {}
  BY <1>2 DEF DH!Dynamic, NotTaken, DH!None
<1>3. CASE DH!Dynamic /\ DH!Candidates # {}
  <2> DEFINE first == CHOOSE a \in DH!Candidates : \A b \in DH!Candidates : a <= b
  <2>1. DH!Candidates \in SUBSET Nat
    BY DEF DH!Candidates, DhcpConstants
  <2>2. first \in DH!Candidates
    BY <1>3, <2>1, LeastHost
  <2>3. DH!Take(first) /\ dhJob.at = "dynamic" /\ UNCHANGED <<dhDeclined, dhAcked, dhPackets>>
    BY <1>3 DEF DH!Dynamic
  <2> HIDE DEF first
  <2> QED
    BY <2>2, <2>3 DEF Taken, DH!Candidates
<1> QED
  BY <1>1, <1>2, <1>3

\* An allocation that goes on, or that ends with an address or without one.
LEMMA StageTypes ==
  ASSUME DhcpConstants, JobType, dhJob.at \in {"reuse", "prefer", "dynamic"}
  PROVE  /\ dhJob \in Seeking /\ dhJob.mac \in Mac /\ dhJob.offer \in BOOLEAN
         /\ \A s \in {"prefer", "dynamic"} : DH!Stage(s) =>
              dhJob' \in Seeking /\ dhJob'.at = s /\ dhJob'.mac = dhJob.mac
         /\ \A a \in Window \cup {0} : DH!Granted(a) =>
              dhJob' \in Answering /\ dhJob'.at = "reply" /\ dhJob'.mac = dhJob.mac /\ dhJob'.ip = a
<1>1. dhJob \in Seeking
  BY DEF JobType, DH!Idle, Answering, Seeking
<1>2. dhJob.mac \in Mac /\ dhJob.offer \in BOOLEAN
  BY <1>1 DEF Seeking
<1>3. ASSUME NEW s \in {"prefer", "dynamic"}, DH!Stage(s)
      PROVE  dhJob' \in Seeking /\ dhJob'.at = s /\ dhJob'.mac = dhJob.mac
  BY <1>1, <1>3 DEF Seeking, DH!Stage
<1>4. ASSUME NEW a \in Window \cup {0}, DH!Granted(a)
      PROVE  dhJob' \in Answering /\ dhJob'.at = "reply" /\ dhJob'.mac = dhJob.mac /\ dhJob'.ip = a
  BY <1>2, <1>4 DEF Answering, DH!Granted
<1> QED
  BY <1>1, <1>2, <1>3, <1>4

\* The reaper takes no lease that was acknowledged and still runs.
LEMMA ReapKeepsAcks ==
  ASSUME DhcpConstants, DhcpInv, DH!Reaped, dhAcked' = dhAcked PROVE DH!AckIsHonoured'
<1> USE DEF DhcpInv, DH!PromisesHold, DH!TypeOK, DH!NoLease, DH!NoAck, DH!None, DhcpConstants
<1>1. SUFFICES ASSUME NEW m \in Mac, dhAcked[m] # DH!NoAck
      PROVE  /\ dhOwner'[m] = dhAcked[m].addr /\ dhLeases'[dhAcked[m].addr] = dhLeases[dhAcked[m].addr]
  BY DEF DH!AckIsHonoured
<1>2. /\ dhAcked[m].addr \in Window /\ dhLeases[dhAcked[m].addr].mac = m
      /\ dhLeases[dhAcked[m].addr].ttl # 0 /\ dhOwner[m] = dhAcked[m].addr
  BY <1>1 DEF AcksRun, DH!AckIsHonoured
<1>3. dhAcked[m].addr \notin DH!Expired /\ m \notin DH!ExpiredMacs
  BY <1>2 DEF DH!Expired, DH!ExpiredMacs, DH!OneLeasePerClient
<1> QED
  BY <1>2, <1>3 DEF DH!Reaped

\* Every step keeps the types.
LEMMA DhcpTypesStep ==
  ASSUME DhcpConstants, DhcpInv, DH!Next
  PROVE  DH!TypeOK'
<1> USE DEF Seeking, Answering, DhcpInv, DhcpConstants, DH!PromisesHold, DH!TypeOK,
         DH!NoLease, DH!NoAck, DH!Idle, DH!None, JobType
<1>1. CASE DH!Tick
  <2>1. \A n \in Nat : DH!Less(n) \in Nat
    BY DEF DH!Less
  <2>2. /\ dhLeases' = [a \in Window |-> [dhLeases[a] EXCEPT !.ttl = DH!Less(dhLeases[a].ttl)]]
        /\ dhDeclined' = [a \in Window |-> DH!Less(dhDeclined[a])]
        /\ dhAcked' = [m \in Mac |-> DH!Aged(dhAcked[m], DH!NoAck)]
        /\ UNCHANGED <<dhOwner, dhJob, dhPackets>>
    BY <1>1 DEF DH!Tick
  <2>3. \A a \in Window : [dhLeases[a] EXCEPT !.ttl = DH!Less(dhLeases[a].ttl)]
                             \in [mac : Mac \cup {0}, ttl : Nat]
    BY <2>1
  <2>4. dhLeases' \in [Window -> [mac : Mac \cup {0}, ttl : Nat]]
    BY <2>2, <2>3
  <2>5. dhDeclined' \in [Window -> Nat]
    BY <2>1, <2>2
  <2>6. dhAcked' \in [Mac -> [addr : Window \cup {0}, ttl : Nat]]
    <3>1. \A m \in Mac : DH!Aged(dhAcked[m], DH!NoAck) \in [addr : Window \cup {0}, ttl : Nat]
      BY DEF DH!Aged
    <3> QED
      BY <2>2, <3>1
  <2> QED
    BY <2>2, <2>4, <2>5, <2>6
<1>2. CASE DH!ReaperTick
  BY <1>2 DEF DH!ReaperTick, DH!Reaped, DH!Expired, DH!ExpiredMacs
<1>3. CASE DH!NotLeased
  BY <1>3 DEF DH!NotLeased, DH!Stage, DH!Mine
<1>4. CASE NotTaken
  BY <1>4 DEF NotTaken, DH!Stage, DH!Granted
<1>5. ASSUME NEW a \in Window, Taken(a)
      PROVE  DH!TypeOK'
  BY <1>5 DEF Taken, DH!Take, DH!Granted, DH!Free, DH!Hold
<1>6. CASE DH!Reply
  BY <1>6 DEF DH!Reply
<1>7. ASSUME NEW m \in Mac, NEW a \in Host \cup {0}, NEW offer \in BOOLEAN, DH!Receive(m, a, offer)
      PROVE  DH!TypeOK'
  BY <1>7 DEF DH!Receive, DH!Job, DH!Reaped, DH!Expired, DH!ExpiredMacs
<1>8. ASSUME NEW m \in Mac, NEW a \in Window, NEW q \in BOOLEAN, DH!GiveUp(m, a, q)
      PROVE  DH!TypeOK'
  BY <1>8 DEF DH!GiveUp, DH!Returned
<1>9. ASSUME NEW a \in Window, DH!Reuse(a)
      PROVE  DH!TypeOK'
  BY <1>9 DEF DH!Reuse, DH!Mine, DH!Granted, DH!Extended, DH!Hold
<1>10. ASSUME NEW a \in Window, DH!Stale(a)
      PROVE  DH!TypeOK'
  BY <1>10 DEF DH!Stale, DH!Mine, DH!Stage
<1>11. ASSUME NEW u \in User, DH!VpnRelease(u)
      PROVE  DH!TypeOK'
  BY <1>11 DEF DH!VpnRelease
<1>12. ASSUME NEW u \in User, NEW a \in Host, DH!VpnAllocate(u, a)
      PROVE  DH!TypeOK'
  BY <1>12 DEF DH!VpnAllocate, DH!Free
<1>13. ASSUME NEW u \in User, NEW a \in Host, DH!VpnFixed(u, a)
      PROVE  DH!TypeOK'
  BY <1>13 DEF DH!VpnFixed
<1> HIDE DEF Seeking, Answering, DhcpInv, DhcpConstants, DH!PromisesHold, DH!TypeOK,
         DH!NoLease, DH!NoAck, DH!Idle, DH!None, JobType
<1> QED
  BY <1>1, <1>2, <1>3, <1>4, <1>5, <1>6, <1>7, <1>8, <1>9, <1>10, <1>11, <1>12, <1>13,
     AllocationSteps
  DEF DH!Next, DH!None

\* Every step leaves no allocation, one that seeks or one that answers.
LEMMA JobTypesStep ==
  ASSUME DhcpConstants, DhcpInv, DH!Next
  PROVE  JobType'
<1> USE DEF Seeking, Answering, DhcpInv, DhcpConstants, DH!PromisesHold, DH!TypeOK,
         DH!NoLease, DH!NoAck, DH!Idle, DH!None, JobType
<1>1. CASE DH!Tick
  BY <1>1 DEF DH!Tick, DH!Less, DH!Aged
<1>2. CASE DH!ReaperTick
  BY <1>2 DEF DH!ReaperTick, DH!Reaped, DH!Expired, DH!ExpiredMacs
<1>3. CASE DH!NotLeased
  BY <1>3, StageTypes DEF DH!NotLeased
<1>4. CASE NotTaken
  BY <1>4, StageTypes DEF NotTaken
<1>5. ASSUME NEW a \in Window, Taken(a)
      PROVE  JobType'
  BY <1>5, StageTypes DEF Taken, DH!Take
<1>6. CASE DH!Reply
  BY <1>6 DEF DH!Reply
<1>7. ASSUME NEW m \in Mac, NEW a \in Host \cup {0}, NEW offer \in BOOLEAN, DH!Receive(m, a, offer)
      PROVE  JobType'
  BY <1>7 DEF DH!Receive, DH!Job, DH!Reaped, DH!Expired, DH!ExpiredMacs
<1>8. ASSUME NEW m \in Mac, NEW a \in Window, NEW q \in BOOLEAN, DH!GiveUp(m, a, q)
      PROVE  JobType'
  BY <1>8 DEF DH!GiveUp, DH!Returned
<1>9. ASSUME NEW a \in Window, DH!Reuse(a)
      PROVE  JobType'
  BY <1>9, StageTypes DEF DH!Reuse
<1>10. ASSUME NEW a \in Window, DH!Stale(a)
      PROVE  JobType'
  BY <1>10, StageTypes DEF DH!Stale
<1>11. ASSUME NEW u \in User, DH!VpnRelease(u)
      PROVE  JobType'
  BY <1>11 DEF DH!VpnRelease
<1>12. ASSUME NEW u \in User, NEW a \in Host, DH!VpnAllocate(u, a)
      PROVE  JobType'
  BY <1>12 DEF DH!VpnAllocate, DH!Free
<1>13. ASSUME NEW u \in User, NEW a \in Host, DH!VpnFixed(u, a)
      PROVE  JobType'
  BY <1>13 DEF DH!VpnFixed
<1> HIDE DEF Seeking, Answering, DhcpInv, DhcpConstants, DH!PromisesHold, DH!TypeOK,
         DH!NoLease, DH!NoAck, DH!Idle, DH!None, JobType
<1> QED
  BY <1>1, <1>2, <1>3, <1>4, <1>5, <1>6, <1>7, <1>8, <1>9, <1>10, <1>11, <1>12, <1>13,
     AllocationSteps
  DEF DH!Next, DH!None

\* Every step leaves an address with one holder at most: what is taken was free, and
\* a static address is taken from whoever held it.
LEMMA HoldersStep ==
  ASSUME DhcpConstants, DhcpInv, DH!Next
  PROVE  HoldersDiffer'
<1> USE DEF Seeking, Answering, DhcpInv, DhcpConstants, DH!PromisesHold, DH!TypeOK,
         DH!NoLease, DH!NoAck, DH!Idle, DH!None, JobType, HoldersDiffer, DH!NoLeakedAddress,
         JobIsSound
<1>1. CASE DH!Tick
  BY <1>1 DEF DH!Tick, DH!Less, DH!Aged
<1>2. CASE DH!ReaperTick
  BY <1>2 DEF DH!ReaperTick, DH!Reaped, DH!Expired, DH!ExpiredMacs
<1>3. CASE DH!NotLeased
  BY <1>3 DEF DH!NotLeased, DH!Stage, DH!Mine
<1>4. CASE NotTaken
  BY <1>4 DEF NotTaken, DH!Stage, DH!Granted
<1>5. ASSUME NEW a \in Window, Taken(a)
      PROVE  HoldersDiffer'
  BY <1>5 DEF Taken, DH!Take, DH!Granted, DH!Free, DH!Hold
<1>6. CASE DH!Reply
  BY <1>6 DEF DH!Reply
<1>7. ASSUME NEW m \in Mac, NEW a \in Host \cup {0}, NEW offer \in BOOLEAN, DH!Receive(m, a, offer)
      PROVE  HoldersDiffer'
  BY <1>7 DEF DH!Receive, DH!Job, DH!Reaped, DH!Expired, DH!ExpiredMacs
<1>8. ASSUME NEW m \in Mac, NEW a \in Window, NEW q \in BOOLEAN, DH!GiveUp(m, a, q)
      PROVE  HoldersDiffer'
  BY <1>8 DEF DH!GiveUp, DH!Returned
<1>9. ASSUME NEW a \in Window, DH!Reuse(a)
      PROVE  HoldersDiffer'
  BY <1>9 DEF DH!Reuse, DH!Mine, DH!Granted, DH!Extended, DH!Hold
<1>10. ASSUME NEW a \in Window, DH!Stale(a)
      PROVE  HoldersDiffer'
  BY <1>10 DEF DH!Stale, DH!Mine, DH!Stage
<1>11. ASSUME NEW u \in User, DH!VpnRelease(u)
      PROVE  HoldersDiffer'
  BY <1>11 DEF DH!VpnRelease
<1>12. ASSUME NEW u \in User, NEW a \in Host, DH!VpnAllocate(u, a)
      PROVE  HoldersDiffer'
  BY <1>12 DEF DH!VpnAllocate, DH!Free
<1>13. ASSUME NEW u \in User, NEW a \in Host, DH!VpnFixed(u, a)
      PROVE  HoldersDiffer'
  BY <1>13 DEF DH!VpnFixed
<1> HIDE DEF Seeking, Answering, DhcpInv, DhcpConstants, DH!PromisesHold, DH!TypeOK,
         DH!NoLease, DH!NoAck, DH!Idle, DH!None, JobType, HoldersDiffer, DH!NoLeakedAddress,
         JobIsSound
<1> QED
  BY <1>1, <1>2, <1>3, <1>4, <1>5, <1>6, <1>7, <1>8, <1>9, <1>10, <1>11, <1>12, <1>13,
     AllocationSteps
  DEF DH!Next, DH!None

\* Every step leaves a lease under each address the pool holds for a DHCP client.
LEMMA LeakStep ==
  ASSUME DhcpConstants, DhcpInv, DH!Next
  PROVE  DH!NoLeakedAddress'
<1> USE DEF Seeking, Answering, DhcpInv, DhcpConstants, DH!PromisesHold, DH!TypeOK,
         DH!NoLease, DH!NoAck, DH!Idle, DH!None, JobType, DH!NoLeakedAddress,
         DH!OneLeasePerClient, JobIsSound
<1>1. CASE DH!Tick
  BY <1>1 DEF DH!Tick, DH!Less, DH!Aged
<1>2. CASE DH!ReaperTick
  BY <1>2 DEF DH!ReaperTick, DH!Reaped, DH!Expired, DH!ExpiredMacs
<1>3. CASE DH!NotLeased
  BY <1>3 DEF DH!NotLeased, DH!Stage, DH!Mine
<1>4. CASE NotTaken
  BY <1>4 DEF NotTaken, DH!Stage, DH!Granted
<1>5. ASSUME NEW a \in Window, Taken(a)
      PROVE  DH!NoLeakedAddress'
  BY <1>5 DEF Taken, DH!Take, DH!Granted, DH!Free, DH!Hold
<1>6. CASE DH!Reply
  BY <1>6 DEF DH!Reply
<1>7. ASSUME NEW m \in Mac, NEW a \in Host \cup {0}, NEW offer \in BOOLEAN, DH!Receive(m, a, offer)
      PROVE  DH!NoLeakedAddress'
  BY <1>7 DEF DH!Receive, DH!Job, DH!Reaped, DH!Expired, DH!ExpiredMacs
<1>8. ASSUME NEW m \in Mac, NEW a \in Window, NEW q \in BOOLEAN, DH!GiveUp(m, a, q)
      PROVE  DH!NoLeakedAddress'
  BY <1>8 DEF DH!GiveUp, DH!Returned
<1>9. ASSUME NEW a \in Window, DH!Reuse(a)
      PROVE  DH!NoLeakedAddress'
  BY <1>9 DEF DH!Reuse, DH!Mine, DH!Granted, DH!Extended, DH!Hold
<1>10. ASSUME NEW a \in Window, DH!Stale(a)
      PROVE  DH!NoLeakedAddress'
  BY <1>10 DEF DH!Stale, DH!Mine, DH!Stage
<1>11. ASSUME NEW u \in User, DH!VpnRelease(u)
      PROVE  DH!NoLeakedAddress'
  BY <1>11 DEF DH!VpnRelease
<1>12. ASSUME NEW u \in User, NEW a \in Host, DH!VpnAllocate(u, a)
      PROVE  DH!NoLeakedAddress'
  BY <1>12 DEF DH!VpnAllocate, DH!Free
<1>13. ASSUME NEW u \in User, NEW a \in Host, DH!VpnFixed(u, a)
      PROVE  DH!NoLeakedAddress'
  BY <1>13 DEF DH!VpnFixed
<1> HIDE DEF Seeking, Answering, DhcpInv, DhcpConstants, DH!PromisesHold, DH!TypeOK,
         DH!NoLease, DH!NoAck, DH!Idle, DH!None, JobType, DH!NoLeakedAddress,
         DH!OneLeasePerClient, JobIsSound
<1> QED
  BY <1>1, <1>2, <1>3, <1>4, <1>5, <1>6, <1>7, <1>8, <1>9, <1>10, <1>11, <1>12, <1>13,
     AllocationSteps
  DEF DH!Next, DH!None

\* Every step leaves a client with one lease at most: it gets another only when it
\* has none.
LEMMA OneLeaseStep ==
  ASSUME DhcpConstants, DhcpInv, DH!Next
  PROVE  DH!OneLeasePerClient'
<1> USE DEF Seeking, Answering, DhcpInv, DhcpConstants, DH!PromisesHold, DH!TypeOK,
         DH!NoLease, DH!NoAck, DH!Idle, DH!None, JobType, DH!OneLeasePerClient, JobIsSound
<1>1. CASE DH!Tick
  BY <1>1 DEF DH!Tick, DH!Less, DH!Aged
<1>2. CASE DH!ReaperTick
  BY <1>2 DEF DH!ReaperTick, DH!Reaped, DH!Expired, DH!ExpiredMacs
<1>3. CASE DH!NotLeased
  BY <1>3 DEF DH!NotLeased, DH!Stage, DH!Mine
<1>4. CASE NotTaken
  BY <1>4 DEF NotTaken, DH!Stage, DH!Granted
<1>5. ASSUME NEW a \in Window, Taken(a)
      PROVE  DH!OneLeasePerClient'
  BY <1>5 DEF Taken, DH!Take, DH!Granted, DH!Free, DH!Hold
<1>6. CASE DH!Reply
  BY <1>6 DEF DH!Reply
<1>7. ASSUME NEW m \in Mac, NEW a \in Host \cup {0}, NEW offer \in BOOLEAN, DH!Receive(m, a, offer)
      PROVE  DH!OneLeasePerClient'
  BY <1>7 DEF DH!Receive, DH!Job, DH!Reaped, DH!Expired, DH!ExpiredMacs
<1>8. ASSUME NEW m \in Mac, NEW a \in Window, NEW q \in BOOLEAN, DH!GiveUp(m, a, q)
      PROVE  DH!OneLeasePerClient'
  BY <1>8 DEF DH!GiveUp, DH!Returned
<1>9. ASSUME NEW a \in Window, DH!Reuse(a)
      PROVE  DH!OneLeasePerClient'
  BY <1>9 DEF DH!Reuse, DH!Mine, DH!Granted, DH!Extended, DH!Hold
<1>10. ASSUME NEW a \in Window, DH!Stale(a)
      PROVE  DH!OneLeasePerClient'
  BY <1>10 DEF DH!Stale, DH!Mine, DH!Stage
<1>11. ASSUME NEW u \in User, DH!VpnRelease(u)
      PROVE  DH!OneLeasePerClient'
  BY <1>11 DEF DH!VpnRelease
<1>12. ASSUME NEW u \in User, NEW a \in Host, DH!VpnAllocate(u, a)
      PROVE  DH!OneLeasePerClient'
  BY <1>12 DEF DH!VpnAllocate, DH!Free
<1>13. ASSUME NEW u \in User, NEW a \in Host, DH!VpnFixed(u, a)
      PROVE  DH!OneLeasePerClient'
  BY <1>13 DEF DH!VpnFixed
<1> HIDE DEF Seeking, Answering, DhcpInv, DhcpConstants, DH!PromisesHold, DH!TypeOK,
         DH!NoLease, DH!NoAck, DH!Idle, DH!None, JobType, DH!OneLeasePerClient, JobIsSound
<1> QED
  BY <1>1, <1>2, <1>3, <1>4, <1>5, <1>6, <1>7, <1>8, <1>9, <1>10, <1>11, <1>12, <1>13,
     AllocationSteps
  DEF DH!Next, DH!None

\* Every step leaves a declined address alone.
LEMMA QuarantineStep ==
  ASSUME DhcpConstants, DhcpInv, DH!Next
  PROVE  DH!QuarantineHolds'
<1> USE DEF Seeking, Answering, DhcpInv, DhcpConstants, DH!PromisesHold, DH!TypeOK,
         DH!NoLease, DH!NoAck, DH!Idle, DH!None, JobType, DH!QuarantineHolds
<1>1. CASE DH!Tick
  BY <1>1 DEF DH!Tick, DH!Less, DH!Aged
<1>2. CASE DH!ReaperTick
  BY <1>2 DEF DH!ReaperTick, DH!Reaped, DH!Expired, DH!ExpiredMacs
<1>3. CASE DH!NotLeased
  BY <1>3 DEF DH!NotLeased, DH!Stage, DH!Mine
<1>4. CASE NotTaken
  BY <1>4 DEF NotTaken, DH!Stage, DH!Granted
<1>5. ASSUME NEW a \in Window, Taken(a)
      PROVE  DH!QuarantineHolds'
  BY <1>5 DEF Taken, DH!Take, DH!Granted, DH!Free, DH!Hold
<1>6. CASE DH!Reply
  BY <1>6 DEF DH!Reply
<1>7. ASSUME NEW m \in Mac, NEW a \in Host \cup {0}, NEW offer \in BOOLEAN, DH!Receive(m, a, offer)
      PROVE  DH!QuarantineHolds'
  BY <1>7 DEF DH!Receive, DH!Job, DH!Reaped, DH!Expired, DH!ExpiredMacs
<1>8. ASSUME NEW m \in Mac, NEW a \in Window, NEW q \in BOOLEAN, DH!GiveUp(m, a, q)
      PROVE  DH!QuarantineHolds'
  BY <1>8 DEF DH!GiveUp, DH!Returned
<1>9. ASSUME NEW a \in Window, DH!Reuse(a)
      PROVE  DH!QuarantineHolds'
  BY <1>9 DEF DH!Reuse, DH!Mine, DH!Granted, DH!Extended, DH!Hold
<1>10. ASSUME NEW a \in Window, DH!Stale(a)
      PROVE  DH!QuarantineHolds'
  BY <1>10 DEF DH!Stale, DH!Mine, DH!Stage
<1>11. ASSUME NEW u \in User, DH!VpnRelease(u)
      PROVE  DH!QuarantineHolds'
  BY <1>11 DEF DH!VpnRelease
<1>12. ASSUME NEW u \in User, NEW a \in Host, DH!VpnAllocate(u, a)
      PROVE  DH!QuarantineHolds'
  BY <1>12 DEF DH!VpnAllocate, DH!Free
<1>13. ASSUME NEW u \in User, NEW a \in Host, DH!VpnFixed(u, a)
      PROVE  DH!QuarantineHolds'
  BY <1>13 DEF DH!VpnFixed
<1> HIDE DEF Seeking, Answering, DhcpInv, DhcpConstants, DH!PromisesHold, DH!TypeOK,
         DH!NoLease, DH!NoAck, DH!Idle, DH!None, JobType, DH!QuarantineHolds
<1> QED
  BY <1>1, <1>2, <1>3, <1>4, <1>5, <1>6, <1>7, <1>8, <1>9, <1>10, <1>11, <1>12, <1>13,
     AllocationSteps
  DEF DH!Next, DH!None

\* Every step remembers an acknowledgement while it runs.
LEMMA AcksRunStep ==
  ASSUME DhcpConstants, DhcpInv, DH!Next
  PROVE  AcksRun'
<1> USE DEF Seeking, Answering, DhcpInv, DhcpConstants, DH!PromisesHold, DH!TypeOK,
         DH!NoLease, DH!NoAck, DH!Idle, DH!None, JobType, AcksRun, JobIsSound
<1>1. CASE DH!Tick
  BY <1>1 DEF DH!Tick, DH!Less, DH!Aged
<1>2. CASE DH!ReaperTick
  BY <1>2 DEF DH!ReaperTick, DH!Reaped, DH!Expired, DH!ExpiredMacs
<1>3. CASE DH!NotLeased
  BY <1>3 DEF DH!NotLeased, DH!Stage, DH!Mine
<1>4. CASE NotTaken
  BY <1>4 DEF NotTaken, DH!Stage, DH!Granted
<1>5. ASSUME NEW a \in Window, Taken(a)
      PROVE  AcksRun'
  BY <1>5 DEF Taken, DH!Take, DH!Granted, DH!Free, DH!Hold
<1>6. CASE DH!Reply
  BY <1>6 DEF DH!Reply
<1>7. ASSUME NEW m \in Mac, NEW a \in Host \cup {0}, NEW offer \in BOOLEAN, DH!Receive(m, a, offer)
      PROVE  AcksRun'
  BY <1>7 DEF DH!Receive, DH!Job, DH!Reaped, DH!Expired, DH!ExpiredMacs
<1>8. ASSUME NEW m \in Mac, NEW a \in Window, NEW q \in BOOLEAN, DH!GiveUp(m, a, q)
      PROVE  AcksRun'
  BY <1>8 DEF DH!GiveUp, DH!Returned
<1>9. ASSUME NEW a \in Window, DH!Reuse(a)
      PROVE  AcksRun'
  BY <1>9 DEF DH!Reuse, DH!Mine, DH!Granted, DH!Extended, DH!Hold
<1>10. ASSUME NEW a \in Window, DH!Stale(a)
      PROVE  AcksRun'
  BY <1>10 DEF DH!Stale, DH!Mine, DH!Stage
<1>11. ASSUME NEW u \in User, DH!VpnRelease(u)
      PROVE  AcksRun'
  BY <1>11 DEF DH!VpnRelease
<1>12. ASSUME NEW u \in User, NEW a \in Host, DH!VpnAllocate(u, a)
      PROVE  AcksRun'
  BY <1>12 DEF DH!VpnAllocate, DH!Free
<1>13. ASSUME NEW u \in User, NEW a \in Host, DH!VpnFixed(u, a)
      PROVE  AcksRun'
  BY <1>13 DEF DH!VpnFixed
<1> HIDE DEF Seeking, Answering, DhcpInv, DhcpConstants, DH!PromisesHold, DH!TypeOK,
         DH!NoLease, DH!NoAck, DH!Idle, DH!None, JobType, AcksRun, JobIsSound
<1> QED
  BY <1>1, <1>2, <1>3, <1>4, <1>5, <1>6, <1>7, <1>8, <1>9, <1>10, <1>11, <1>12, <1>13,
     AllocationSteps
  DEF DH!Next, DH!None

\* Every step keeps what was acknowledged: a lease runs at least as long as the
\* client was told, and no expiry, release or allocation of another client touches
\* it.
LEMMA AckStep ==
  ASSUME DhcpConstants, DhcpInv, DH!Next
  PROVE  DH!AckIsHonoured'
<1> USE DEF Seeking, Answering, DhcpInv, DhcpConstants, DH!PromisesHold, DH!TypeOK,
         DH!NoLease, DH!NoAck, DH!Idle, DH!None, JobType, DH!AckIsHonoured, AcksRun,
         DH!OneLeasePerClient, JobIsSound
<1>1. CASE DH!Tick
  BY <1>1 DEF DH!Tick, DH!Less, DH!Aged
<1>2. CASE DH!ReaperTick
  BY <1>2, ReapKeepsAcks DEF DH!ReaperTick
<1>3. CASE DH!NotLeased
  BY <1>3 DEF DH!NotLeased, DH!Stage, DH!Mine
<1>4. CASE NotTaken
  BY <1>4 DEF NotTaken, DH!Stage, DH!Granted
<1>5. ASSUME NEW a \in Window, Taken(a)
      PROVE  DH!AckIsHonoured'
  <2>1. dhJob.mac \in Mac /\ \A b \in Window : dhLeases[b].mac # dhJob.mac
    BY <1>5, StageTypes DEF Taken
  <2>2. /\ dhLeases' = [dhLeases EXCEPT ![a] = [mac |-> dhJob.mac, ttl |-> DH!Hold]]
        /\ \A k \in Mac : k # dhJob.mac => dhOwner'[k] = IF dhOwner[k] = a THEN 0 ELSE dhOwner[k]
        /\ dhAcked' = dhAcked
    BY <1>5 DEF Taken, DH!Take
  <2>3. \A k \in Mac : dhOwner[k] # a
    BY <1>5 DEF Taken, DH!Free
  <2>4. ASSUME NEW m \in Mac, dhAcked'[m] # DH!NoAck
        PROVE  /\ dhOwner'[m] = dhAcked'[m].addr /\ dhLeases'[dhAcked'[m].addr].mac = m
               /\ dhLeases'[dhAcked'[m].addr].ttl >= dhAcked'[m].ttl
    <3>1. /\ dhOwner[m] = dhAcked[m].addr /\ dhAcked[m].addr \in Window
          /\ dhLeases[dhAcked[m].addr].mac = m /\ dhLeases[dhAcked[m].addr].ttl >= dhAcked[m].ttl
      BY <2>2, <2>4
    <3>2. m # dhJob.mac /\ dhAcked[m].addr # a
      BY <2>1, <2>3, <3>1
    <3> QED
      BY <2>2, <3>1, <3>2
  <2> QED
    BY <2>4
<1>6. CASE DH!Reply
  BY <1>6 DEF DH!Reply
<1>7. ASSUME NEW m \in Mac, NEW a \in Host \cup {0}, NEW offer \in BOOLEAN, DH!Receive(m, a, offer)
      PROVE  DH!AckIsHonoured'
  BY <1>7, ReapKeepsAcks DEF DH!Receive
<1>8. ASSUME NEW m \in Mac, NEW a \in Window, NEW q \in BOOLEAN, DH!GiveUp(m, a, q)
      PROVE  DH!AckIsHonoured'
  <2>1. SUFFICES ASSUME NEW n \in Mac, dhAcked'[n] # DH!NoAck
        PROVE  /\ dhOwner'[n] = dhOwner[n] /\ dhAcked'[n] = dhAcked[n]
               /\ dhLeases'[dhAcked[n].addr] = dhLeases[dhAcked[n].addr]
    OBVIOUS
  <2>2. dhAcked'[n] = dhAcked[n]
    BY <1>8, <2>1 DEF DH!GiveUp
  <2>3. dhOwner[n] = dhAcked[n].addr /\ dhAcked[n].addr \in Window /\ dhLeases[dhAcked[n].addr].mac = n
    BY <2>1, <2>2
  <2>4. dhAcked[n].addr = a => dhLeases[a].mac # m
    BY <1>8, <2>1, <2>3 DEF DH!GiveUp
  <2>5. CASE dhLeases[a].mac = m
    <3>1. n # m \/ dhOwner[m] # a
      BY <2>3, <2>4, <2>5
    <3>2. dhLeases' = [dhLeases EXCEPT ![a] = DH!NoLease]
      BY <1>8, <2>5 DEF DH!GiveUp, DH!Returned
    <3>3. dhOwner'[n] = dhOwner[n]
      BY <1>8, <2>5, <3>1 DEF DH!GiveUp, DH!Returned
    <3> QED
      BY <2>2, <2>3, <2>4, <2>5, <3>2, <3>3
  <2>6. CASE dhLeases[a].mac # m
    BY <1>8, <2>2, <2>6 DEF DH!GiveUp
  <2> QED
    BY <2>5, <2>6
<1>9. ASSUME NEW a \in Window, DH!Reuse(a)
      PROVE  DH!AckIsHonoured'
  BY <1>9 DEF DH!Reuse, DH!Mine, DH!Granted, DH!Extended, DH!Hold
<1>10. ASSUME NEW a \in Window, DH!Stale(a)
      PROVE  DH!AckIsHonoured'
  BY <1>10 DEF DH!Stale, DH!Mine, DH!Stage
<1>11. ASSUME NEW u \in User, DH!VpnRelease(u)
      PROVE  DH!AckIsHonoured'
  BY <1>11 DEF DH!VpnRelease
<1>12. ASSUME NEW u \in User, NEW a \in Host, DH!VpnAllocate(u, a)
      PROVE  DH!AckIsHonoured'
  BY <1>12 DEF DH!VpnAllocate, DH!Free
<1>13. ASSUME NEW u \in User, NEW a \in Host, DH!VpnFixed(u, a)
      PROVE  DH!AckIsHonoured'
  BY <1>13 DEF DH!VpnFixed
<1> HIDE DEF Seeking, Answering, DhcpInv, DhcpConstants, DH!PromisesHold, DH!TypeOK,
         DH!NoLease, DH!NoAck, DH!Idle, DH!None, JobType, DH!AckIsHonoured, AcksRun,
         DH!OneLeasePerClient, JobIsSound
<1> QED
  BY <1>1, <1>2, <1>3, <1>4, <1>5, <1>6, <1>7, <1>8, <1>9, <1>10, <1>11, <1>12, <1>13,
     AllocationSteps
  DEF DH!Next, DH!None

\* Every step keeps the allocation sound: whoever seeks has no lease, and what is
\* about to be acknowledged is the client's, unless the VPN took it meanwhile.
LEMMA JobSoundStep ==
  ASSUME DhcpConstants, DhcpInv, DH!Next
  PROVE  JobIsSound'
<1> USE DEF Seeking, Answering, DhcpInv, DhcpConstants, DH!PromisesHold, DH!TypeOK,
         DH!NoLease, DH!NoAck, DH!Idle, DH!None, JobType, JobIsSound, DH!OneLeasePerClient
<1>1. CASE DH!Tick
  BY <1>1 DEF DH!Tick, DH!Less, DH!Aged
<1>2. CASE DH!ReaperTick
  BY <1>2 DEF DH!ReaperTick, DH!Reaped, DH!Expired, DH!ExpiredMacs
<1>3. CASE DH!NotLeased
  BY <1>3 DEF DH!NotLeased, DH!Stage, DH!Mine
<1>4. CASE NotTaken
  BY <1>4 DEF NotTaken, DH!Stage, DH!Granted
<1>5. ASSUME NEW a \in Window, Taken(a)
      PROVE  JobIsSound'
  BY <1>5 DEF Taken, DH!Take, DH!Granted, DH!Free, DH!Hold
<1>6. CASE DH!Reply
  BY <1>6 DEF DH!Reply
<1>7. ASSUME NEW m \in Mac, NEW a \in Host \cup {0}, NEW offer \in BOOLEAN, DH!Receive(m, a, offer)
      PROVE  JobIsSound'
  BY <1>7 DEF DH!Receive, DH!Job, DH!Reaped, DH!Expired, DH!ExpiredMacs
<1>8. ASSUME NEW m \in Mac, NEW a \in Window, NEW q \in BOOLEAN, DH!GiveUp(m, a, q)
      PROVE  JobIsSound'
  BY <1>8 DEF DH!GiveUp, DH!Returned
<1>9. ASSUME NEW a \in Window, DH!Reuse(a)
      PROVE  JobIsSound'
  BY <1>9 DEF DH!Reuse, DH!Mine, DH!Granted, DH!Extended, DH!Hold
<1>10. ASSUME NEW a \in Window, DH!Stale(a)
      PROVE  JobIsSound'
  BY <1>10 DEF DH!Stale, DH!Mine, DH!Stage
<1>11. ASSUME NEW u \in User, DH!VpnRelease(u)
      PROVE  JobIsSound'
  BY <1>11 DEF DH!VpnRelease
<1>12. ASSUME NEW u \in User, NEW a \in Host, DH!VpnAllocate(u, a)
      PROVE  JobIsSound'
  BY <1>12 DEF DH!VpnAllocate, DH!Free
<1>13. ASSUME NEW u \in User, NEW a \in Host, DH!VpnFixed(u, a)
      PROVE  JobIsSound'
  <2>1. CASE dhJob.at = "reply"
    <3>1. /\ dhJob \in Answering /\ dhJob.mac \in Mac /\ dhJob.mac # u
          /\ dhJob' = [dhJob EXCEPT !.stolen = dhJob.stolen \/ dhJob.ip = a]
      BY <1>13, <2>1 DEF DH!VpnFixed
    <3>2. /\ dhJob'.at = "reply" /\ dhJob'.mac = dhJob.mac /\ dhJob'.ip = dhJob.ip
          /\ dhJob'.offer = dhJob.offer /\ dhJob'.stolen = (dhJob.stolen \/ dhJob.ip = a)
      BY <2>1, <3>1
    <3>3. dhLeases' = dhLeases /\ dhOwner'[dhJob.mac] = IF dhOwner[dhJob.mac] = a THEN 0 ELSE dhOwner[dhJob.mac]
      BY <1>13, <3>1 DEF DH!VpnFixed
    <3>4. CASE dhJob.ip = a
      BY <3>2, <3>4
    <3>5. CASE dhJob.ip # a
      <4>1. SUFFICES ASSUME dhJob.ip # 0, ~dhJob'.stolen
            PROVE  /\ dhOwner'[dhJob.mac] = dhJob.ip /\ dhLeases'[dhJob.ip].mac = dhJob.mac
                   /\ ~dhJob.offer => dhLeases'[dhJob.ip].ttl >= LeaseTime
        BY <3>2
      <4>2. ~dhJob.stolen
        BY <3>2, <4>1, Zenon
      <4>3. /\ dhOwner[dhJob.mac] = dhJob.ip /\ dhLeases[dhJob.ip].mac = dhJob.mac
            /\ ~dhJob.offer => dhLeases[dhJob.ip].ttl >= LeaseTime
        BY <2>1, <4>1, <4>2
      <4> QED
        BY <3>3, <3>5, <4>3
    <3> QED
      BY <3>4, <3>5
  <2>2. CASE dhJob.at # "reply"
    BY <1>13, <2>2 DEF DH!VpnFixed
  <2> QED
    BY <2>1, <2>2
<1> HIDE DEF Seeking, Answering, DhcpInv, DhcpConstants, DH!PromisesHold, DH!TypeOK,
         DH!NoLease, DH!NoAck, DH!Idle, DH!None, JobType, JobIsSound, DH!OneLeasePerClient
<1> QED
  BY <1>1, <1>2, <1>3, <1>4, <1>5, <1>6, <1>7, <1>8, <1>9, <1>10, <1>11, <1>12, <1>13,
     AllocationSteps
  DEF DH!Next, DH!None

\* No step takes the address of a VPN session for a DHCP client.
LEMMA VpnStep ==
  ASSUME DhcpConstants, DhcpInv, DH!Next
  PROVE  DH!NotTakenFromVpn
<1> USE DEF Seeking, Answering, DhcpInv, DhcpConstants, DH!PromisesHold, DH!TypeOK,
         DH!NoLease, DH!NoAck, DH!Idle, DH!None, JobType, DH!NotTakenFromVpn, HoldersDiffer
<1>1. CASE DH!Tick
  BY <1>1 DEF DH!Tick, DH!Less, DH!Aged
<1>2. CASE DH!ReaperTick
  BY <1>2 DEF DH!ReaperTick, DH!Reaped, DH!Expired, DH!ExpiredMacs
<1>3. CASE DH!NotLeased
  BY <1>3 DEF DH!NotLeased, DH!Stage, DH!Mine
<1>4. CASE NotTaken
  BY <1>4 DEF NotTaken, DH!Stage, DH!Granted
<1>5. ASSUME NEW a \in Window, Taken(a)
      PROVE  DH!NotTakenFromVpn
  BY <1>5 DEF Taken, DH!Take, DH!Granted, DH!Free, DH!Hold
<1>6. CASE DH!Reply
  BY <1>6 DEF DH!Reply
<1>7. ASSUME NEW m \in Mac, NEW a \in Host \cup {0}, NEW offer \in BOOLEAN, DH!Receive(m, a, offer)
      PROVE  DH!NotTakenFromVpn
  BY <1>7 DEF DH!Receive, DH!Job, DH!Reaped, DH!Expired, DH!ExpiredMacs
<1>8. ASSUME NEW m \in Mac, NEW a \in Window, NEW q \in BOOLEAN, DH!GiveUp(m, a, q)
      PROVE  DH!NotTakenFromVpn
  BY <1>8 DEF DH!GiveUp, DH!Returned
<1>9. ASSUME NEW a \in Window, DH!Reuse(a)
      PROVE  DH!NotTakenFromVpn
  BY <1>9 DEF DH!Reuse, DH!Mine, DH!Granted, DH!Extended, DH!Hold
<1>10. ASSUME NEW a \in Window, DH!Stale(a)
      PROVE  DH!NotTakenFromVpn
  BY <1>10 DEF DH!Stale, DH!Mine, DH!Stage
<1>11. ASSUME NEW u \in User, DH!VpnRelease(u)
      PROVE  DH!NotTakenFromVpn
  BY <1>11 DEF DH!VpnRelease
<1>12. ASSUME NEW u \in User, NEW a \in Host, DH!VpnAllocate(u, a)
      PROVE  DH!NotTakenFromVpn
  BY <1>12 DEF DH!VpnAllocate, DH!Free
<1>13. ASSUME NEW u \in User, NEW a \in Host, DH!VpnFixed(u, a)
      PROVE  DH!NotTakenFromVpn
  BY <1>13 DEF DH!VpnFixed
<1> HIDE DEF Seeking, Answering, DhcpInv, DhcpConstants, DH!PromisesHold, DH!TypeOK,
         DH!NoLease, DH!NoAck, DH!Idle, DH!None, JobType, DH!NotTakenFromVpn, HoldersDiffer
<1> QED
  BY <1>1, <1>2, <1>3, <1>4, <1>5, <1>6, <1>7, <1>8, <1>9, <1>10, <1>11, <1>12, <1>13,
     AllocationSteps
  DEF DH!Next, DH!None

\* The service starts without a lease.
LEMMA DhcpInit == ASSUME DhcpConstants, DH!Init PROVE DhcpInv
<1> USE DEF DH!Init, DhcpConstants, DH!None
<1>1. DH!TypeOK
  BY DEF DH!TypeOK, DH!NoLease, DH!NoAck, DH!Idle
<1>2. JobType /\ HoldersDiffer /\ AcksRun /\ JobIsSound
  BY DEF JobType, HoldersDiffer, AcksRun, JobIsSound, DH!Idle
<1>3. /\ DH!AckIsHonoured /\ DH!QuarantineHolds /\ DH!OneLeasePerClient
      /\ DH!NoLeakedAddress
  BY DEF DH!AckIsHonoured, DH!QuarantineHolds, DH!OneLeasePerClient, DH!NoLeakedAddress,
     DH!NoLease
<1> QED
  BY <1>1, <1>2, <1>3 DEF DhcpInv, DH!PromisesHold

\* Nothing changes while the service does not step.
LEMMA DhcpStutter == ASSUME DhcpInv, UNCHANGED DH!vars PROVE DhcpInv'
BY DEF DH!vars, DhcpInv, DH!PromisesHold, DH!TypeOK, JobType, HoldersDiffer, AcksRun,
   JobIsSound, DH!AckIsHonoured, DH!QuarantineHolds, DH!OneLeasePerClient,
   DH!NoLeakedAddress

\* What a DHCP client was told holds, whatever packets, timers and VPN allocations
\* come between the stages of an allocation: an acknowledged address is kept for its
\* time, a declined one is left alone, no client has two leases, every address held
\* for a client has a lease that can expire, and no packet takes an address from a
\* VPN session, for any window, any lease times and any number of clients.
THEOREM DhcpIsHonest == ASSUME DhcpConstants PROVE AnySpec => DhcpPromisesHold
<1>1. StartAll => DhcpInv
  BY DhcpInit DEF StartAll
<1>2. [StepOne]_allVars => [DH!Next]_DH!vars
  BY DEF StepOne, allVars, dhVars, DH!vars
<1>3. DhcpInv /\ [StepOne]_allVars => DhcpInv'
  <2>1. ASSUME DhcpInv, DH!Next PROVE DhcpInv'
    BY <2>1, DhcpTypesStep, JobTypesStep, HoldersStep, LeakStep, OneLeaseStep,
       QuarantineStep, AcksRunStep,
       AckStep, JobSoundStep DEF DhcpInv, DH!PromisesHold
  <2> QED
    BY <1>2, <2>1, DhcpStutter
<1>4. DhcpInv => (part = "dhcp" => DH!PromisesHold)
  BY DEF DhcpInv
<1>5. DhcpInv /\ [StepOne]_allVars => [part = "dhcp" => DH!NotTakenFromVpn]_dhVars
  <2>1. DhcpInv /\ [DH!Next]_DH!vars => [DH!NotTakenFromVpn]_DH!vars
    BY VpnStep
  <2> QED
    BY <1>2, <2>1 DEF DH!vars, dhVars
<1> QED
  BY <1>1, <1>3, <1>4, <1>5, PTL DEF AnySpec, DhcpPromisesHold
=============================================================================
