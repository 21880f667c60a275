\* Both families with two assignable hosts each for two keys, one host reserved: enough
\* for exhaustion, reuse, a reservation taken back and a half-failed dual allocation.
\* Two DHCP clients and a VPN user share four addresses, three of them in the window.
SPECIFICATION AnySpec
CONSTANTS
  Key = {"ann", "bob"}
  Family = {"v4", "v6"}
  Last = 3
  Excluded = {1}
  Reservation <- MCReservation
  Mac = {m1, m2}
  User = {u1}
  Host = {1, 2, 3, 4}
  Window = {1, 2, 3}
  Reserved = {3}
  OfferTime = 1
  LeaseTime = 2
  QuarantineTime = 2
  MaxPackets = 8
INVARIANTS
  NoAddressLeasedTwice
  NoAddressLost
  UsageIsConserved
PROPERTIES
  DhcpPromisesHold
  V4Leases
  DualOrNothing
\* Bounded packets and bytes run out.
CHECK_DEADLOCK FALSE
